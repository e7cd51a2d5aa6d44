-------------------------- MODULE DrSessionProofs --------------------------
(***************************************************************************)
(* What DrSession guarantees for every value of its bounds.                *)
(*                                                                         *)
(* Sound says what every copy of a record is, in the store or held by a    *)
(* call: a session of its device, with the handshakes it has retired.      *)
(* Typed relates the copies to the keys made and to the traffic; it holds  *)
(* for any number of tabs.  What a lock on the pair buys, that no key is   *)
(* used twice, no one-time prekey seeds two sessions, no message is read   *)
(* twice and none is lost to a handshake that supersedes, is proved for    *)
(* one tab a device: for two, TLC refutes the first.                       *)
(***************************************************************************)
EXTENDS DrSession, DoubleRatchetProofs, SequenceTheorems, FiniteSetTheorems,
        WellFoundedInduction

OneOf(S) == \A x, y \in S : x = y

(* What a record remembers: each handshake accepted mixes in one pair of    *)
(* the initiator, and the pairs of the last ones are kept, newest first.    *)
Remembers(p, accepted0, superseded, log) ==
    /\ accepted0 = {} => Len(log) = 1
    /\ \A e \in accepted0 : e[1] # p /\ e \in log[Len(log)]
    /\ Len(superseded) <= Len(log) - 1
    /\ accepted0 # {} => \/ Len(superseded) = Len(log) - 1
                         \/ Len(superseded) = MAX_ARCHIVED_RATCHETS
    /\ \A k \in DOMAIN superseded :
          superseded[k][1] # p /\ superseded[k] \in log[Len(log) - k]
    /\ \A i, j \in DOMAIN log :
          i < j /\ j - i <= MAX_ARCHIVED_RATCHETS + 1 => log[i] # log[j]

\* Each handshake of the record has its ratchet still, but for the oldest ones.
Stacked(s) ==
    /\ Len(s.archived) < Len(s.log)
    /\ Len(s.archived) = Len(s.log) - 1 \/ Len(s.archived) = MAX_ARCHIVED_RATCHETS

\* A pair that p generated for a handshake, not its signed prekey.
Ephemeral(p, k) == k[1] = p /\ k # SpkOf(p)

IsRecord(s) ==
    s = [ ratchet |-> s.ratchet, pendingInit |-> s.pendingInit,
          pendingInitSends |-> s.pendingInitSends, acceptedInit |-> s.acceptedInit,
          archived |-> s.archived, superseded |-> s.superseded, log |-> s.log ]

\* A record of device p over the key pairs in K.
Sound(p, s, K) ==
    /\ IsRecord(s)
    /\ IsSession(s, K)
    /\ Tidy(p, s.ratchet)
    /\ s.archived \in Seq(ToSet(s.archived))
    /\ \A k \in DOMAIN s.archived : Tidy(p, s.archived[k])
    /\ OneOf(s.pendingInit) /\ OneOf(s.acceptedInit)
    /\ \A i \in s.pendingInit : Ephemeral(p, i.eph)
    /\ Remembers(p, s.acceptedInit, s.superseded, s.log)
    /\ Stacked(s)

\* What p seals over the key pairs in K.
Envelopes(p, K) ==
    { e \in [msg : Message(K), init : SUBSET InitPayloads(K)] :
        /\ e.msg.header.dhPub[1] = p
        /\ OneOf(e.init)
        /\ \A i \in e.init : Ephemeral(p, i.eph) }

RecordsOK(R, K) ==
    /\ DOMAIN R = Party
    /\ \A p \in Party : OneOf(R[p]) /\ \A s \in R[p] : Sound(p, s, K)

JobOK(p, j, K) ==
    /\ j = [at |-> j.at, got |-> j.got, msg |-> j.msg]
    /\ j.at \in {"idle", "bootstrap", "seal", "accept", "burn", "load", "open"}
    /\ OneOf(j.got) /\ \A s \in j.got : Sound(p, s, K)
    /\ j.at \in {"seal", "open"} => j.got # {}

JobsOK(J, K) == DOMAIN J = Context /\ \A c \in Context : JobOK(Dev(c), J[c], K)

\* A call that receives works on a message that was sealed.
Points(J, W) ==
    \A c \in Context : J[c].at \in {"accept", "burn", "load", "open"}
                          => J[c].msg \in DOMAIN W[Peer(Dev(c))]

TrafficOK(W, O, L, K) ==
    /\ DOMAIN W = Party /\ DOMAIN O = Party /\ DOMAIN L = Party
    /\ \A p \in Party :
          /\ W[p] \in Seq(Envelopes(p, K))
          /\ O[p] \in Seq(Nat) /\ Len(O[p]) = Len(W[p])
          /\ L[p] \subseteq DOMAIN W[p]

PrekeysOK ==
    /\ pool \in [Party -> SUBSET (1..Otps)]
    /\ otpPriv \in [Party -> SUBSET (1..Otps)]
    /\ consumed \in [Party -> SUBSET (1..Otps)]
    /\ \A p \in Party : otpPriv[p] = (1..Otps) \ consumed[p]

KeysOK == nextKey \in [Party -> Nat] /\ \A p \in Party : Otps < nextKey[p]

Typed ==
    /\ KeysOK
    /\ PrekeysOK
    /\ RecordsOK(rec, Made)
    /\ JobsOK(job, Made)
    /\ Points(job, wire)
    /\ TrafficOK(wire, opened, lost, Made)
    /\ accepted \in [Party -> Seq(SUBSET Made)]

----------------------------------------------------------------------------
(***************************************************************************)
(* The bounds are natural numbers, and there are two devices.              *)
(***************************************************************************)
LEMMA Bounds ==
    /\ Otps \in Nat /\ MAX_ARCHIVED_RATCHETS \in Nat /\ PENDING_INIT_MAX_RESENDS \in Nat
    /\ PENDING_INIT_MAX_RESENDS > 0
BY SessionAssumption

LEMMA Peers ==
    \A p \in Party : /\ Peer(p) \in Party /\ Peer(p) # p /\ Peer(Peer(p)) = p
                     /\ \A q \in Party : q # p => q = Peer(p)
<1>1. PICK a, b \in Party : a # b /\ Party = {a, b}
  BY SessionAssumption
<1>2. Peer(a) = b /\ Peer(b) = a
  BY <1>1 DEF Peer
<1> QED
  BY <1>1, <1>2

LEMMA Contexts ==
    \A c \in Context : Dev(c) \in Party /\ c[2] \in Tabs /\ c = <<Dev(c), c[2]>>
BY DEF Context, Dev

(***************************************************************************)
(* Picking the least of some numbers, and the one element of a set.        *)
(***************************************************************************)
LEMMA LeastOfNats ==
    ASSUME NEW S \in SUBSET Nat, S # {}
    PROVE  Min(S) \in S /\ \A y \in S : Min(S) <= y
<1> DEFINE R == {ss \in Nat \X Nat : ss[1] < ss[2]}
<1>1. R = OpToRel(<, Nat)
  BY DEF OpToRel
<1>2. IsWellFoundedOn(R, Nat)
  BY <1>1, NatLessThanWellFounded
<1> HIDE DEF R
<1>3. PICK x \in S : \A y \in S : ~ (<<y, x>> \in R)
  BY <1>2, WFMin
<1>4. ASSUME NEW y \in S, ~(x <= y)
      PROVE  FALSE
  <2>1. y < x /\ y \in Nat /\ x \in Nat
    BY <1>4
  <2>2. <<y, x>> \in R
    BY <2>1 DEF R
  <2> QED
    BY <1>3, <2>2
<1> QED
  BY <1>3, <1>4 DEF Min

LEMMA SeqOfOne ==
    ASSUME NEW S, OneOf(S)
    PROVE  /\ S = {} => SetToSeq(S) = <<>>
           /\ \A x \in S : SetToSeq(S) = <<x>>
<1>1. CASE S = {}
  <2>1. Cardinality(S) = 0
    BY <1>1, FS_EmptySet
  <2>2. [i \in 1..0 |-> i] \in [1..0 -> S] /\ IsInjective([i \in 1..0 |-> i])
    BY <1>1 DEF IsInjective
  <2>3. SetToSeq(S) \in [1..0 -> S]
    BY <2>1, <2>2 DEF SetToSeq
  <2> QED
    BY <1>1, <2>3
<1>2. ASSUME NEW x \in S
      PROVE  SetToSeq(S) = <<x>>
  <2>1. S = {x}
    BY DEF OneOf
  <2>2. Cardinality(S) = 1
    BY <2>1, FS_Singleton
  <2>3. [i \in 1..1 |-> x] \in [1..1 -> S] /\ IsInjective([i \in 1..1 |-> x])
    BY DEF IsInjective
  <2>4. SetToSeq(S) \in [1..1 -> S]
    BY <2>2, <2>3 DEF SetToSeq
  <2> DEFINE f == SetToSeq(S)
  <2> HIDE DEF f
  <2>5. f \in [1..1 -> {x}]
    BY <2>1, <2>4 DEF f
  <2>6. f = <<x>>
    BY <2>5
  <2> QED
    BY <2>1, <2>6 DEF f
<1> QED
  BY <1>1, <1>2

(***************************************************************************)
(* unshift, then cut to MAX_ARCHIVED_RATCHETS: the new element comes       *)
(* first, the old ones move one place.                                     *)
(***************************************************************************)
LEMMA NewestOf ==
    ASSUME NEW S, NEW x \in S, NEW s \in Seq(S)
    PROVE  LET t == Newest(<<x>> \o s)
           IN  /\ t \in Seq(S)
               /\ Len(t) <= MAX_ARCHIVED_RATCHETS
               /\ Len(t) = Len(s) + 1 \/ (Len(t) = MAX_ARCHIVED_RATCHETS /\ Len(t) <= Len(s) + 1)
               /\ \A k \in DOMAIN t : \/ k = 1 /\ t[k] = x
                                      \/ k - 1 \in DOMAIN s /\ t[k] = s[k - 1]
<1> DEFINE u == <<x>> \o s
           n == IF Len(u) < MAX_ARCHIVED_RATCHETS THEN Len(u) ELSE MAX_ARCHIVED_RATCHETS
           t == SubSeq(u, 1, n)
<1>1. /\ u \in Seq(S) /\ Len(u) = Len(s) + 1 /\ Len(s) \in Nat
      /\ \A k \in 1..(Len(s) + 1) : u[k] = IF k = 1 THEN x ELSE s[k - 1]
  OBVIOUS
<1> HIDE DEF u
<1>2. n \in Nat /\ n <= Len(u) /\ n <= MAX_ARCHIVED_RATCHETS
      /\ (n = Len(u) \/ n = MAX_ARCHIVED_RATCHETS)
  BY <1>1, Bounds
<1> HIDE DEF n
<1>3. t \in Seq(S) /\ Len(t) = n /\ \A k \in 1..n : t[k] = u[k]
  BY <1>1, <1>2, SubSeqProperties
<1>4. t = Newest(<<x>> \o s)
  BY DEF Newest, n, u
<1> HIDE DEF t
<1>5. \A k \in DOMAIN t : \/ k = 1 /\ t[k] = x
                          \/ k - 1 \in DOMAIN s /\ t[k] = s[k - 1]
  BY <1>1, <1>2, <1>3
<1> QED
  BY <1>1, <1>2, <1>3, <1>4, <1>5

----------------------------------------------------------------------------
(* Records.  Each function that makes or changes a record keeps it sound.   *)

(***************************************************************************)
(* More pairs made: what was sound stays so.                               *)
(***************************************************************************)
LEMMA PayloadsGrow ==
    ASSUME NEW K, NEW L, K \subseteq L
    PROVE  InitPayloads(K) \subseteq InitPayloads(L)
BY DEF InitPayloads

LEMMA EnvelopesGrow ==
    ASSUME NEW K, NEW L, K \subseteq L, NEW p
    PROVE  Envelopes(p, K) \subseteq Envelopes(p, L)
<1>1. Message(K) \subseteq Message(L) /\ InitPayloads(K) \subseteq InitPayloads(L)
  BY RootGrows, PayloadsGrow
<1> QED
  BY <1>1 DEF Envelopes

(***************************************************************************)
(* A record whose ratchets, pending handshake and archive change.          *)
(***************************************************************************)
LEMMA Recast ==
    ASSUME NEW K, NEW L, K \subseteq L, NEW p, NEW s, Sound(p, s, K),
           NEW t, IsRecord(t),
           t.acceptedInit = s.acceptedInit, t.superseded = s.superseded, t.log = s.log,
           t.pendingInit \subseteq s.pendingInit, t.pendingInitSends \in Nat,
           t.pendingInit = {} => t.pendingInitSends = 0,
           IsRatchetState(t.ratchet, L), Tidy(p, t.ratchet),
           t.archived \in Seq(ToSet(t.archived)),
           Len(t.archived) = Len(s.archived),
           \A k \in DOMAIN t.archived :
              IsRatchetState(t.archived[k], L) /\ Tidy(p, t.archived[k])
    PROVE  Sound(p, t, L)
<1>1. /\ t.superseded \in Seq(L) /\ Len(t.superseded) <= MAX_ARCHIVED_RATCHETS
      /\ Len(t.archived) <= MAX_ARCHIVED_RATCHETS
  BY DEF Sound, IsSession
<1>2. t.log \in Seq(SUBSET L) /\ t.log # <<>>
  BY DEF Sound, IsSession
<1>3. t.pendingInit \subseteq InitPayloads(L) /\ t.acceptedInit \subseteq L
  BY PayloadsGrow DEF Sound, IsSession
<1>4. IsSession(t, L)
  BY <1>1, <1>2, <1>3 DEF IsSession
<1>5. /\ OneOf(t.pendingInit) /\ OneOf(t.acceptedInit)
      /\ \A i \in t.pendingInit : Ephemeral(p, i.eph)
  BY DEF Sound, OneOf
<1>6. Remembers(p, t.acceptedInit, t.superseded, t.log) /\ Stacked(t)
  BY DEF Sound, Stacked
<1> QED
  BY <1>4, <1>5, <1>6 DEF Sound

LEMMA SoundGrows ==
    ASSUME NEW K, NEW L, K \subseteq L, NEW p, NEW s, Sound(p, s, K)
    PROVE  Sound(p, s, L)
<1>1. IsRatchetState(s.ratchet, L)
  BY StateGrows DEF Sound, IsSession
<1>2. \A k \in DOMAIN s.archived : IsRatchetState(s.archived[k], L)
  BY StateGrows DEF Sound, IsSession
<1>3. s.pendingInit \subseteq InitPayloads(L)
  BY PayloadsGrow DEF Sound, IsSession
<1>4. s.superseded \in Seq(L) /\ s.log \in Seq(SUBSET L) /\ s.acceptedInit \subseteq L
  BY DEF Sound, IsSession
<1>5. IsSession(s, L)
  BY <1>1, <1>2, <1>3, <1>4 DEF Sound, IsSession
<1> QED
  BY <1>5 DEF Sound

\* s is sound, and seals first under the chain of the key pair dhSelf against
\* the peer's signed prekey.
Seeds(p, s, dhSelf, L) ==
    /\ Sound(p, s, L)
    /\ \E root \in Root(L) :
          s.ratchet.sendChain = {FirstChainKey(Append(root, {dhSelf, SpkOf(Peer(p))}))}

(***************************************************************************)
(* bootstrapSession: the pairs it generates are those of p.                *)
(***************************************************************************)
LEMMA InitiatedSeeds ==
    \A L : \A p \in Party, eph \in L, dhSelf \in L, otp \in SUBSET (1..Otps) :
        (/\ Ephemeral(p, eph) /\ dhSelf[1] = p /\ SpkOf(Peer(p)) \in L
         /\ \A k \in otp : OtpOf(Peer(p), k) \in L)
        => Seeds(p, Initiated(p, eph, dhSelf, otp), dhSelf, L)
<1> SUFFICES ASSUME NEW L, NEW p \in Party, NEW eph \in L, NEW dhSelf \in L,
                    NEW otp \in SUBSET (1..Otps),
                    Ephemeral(p, eph), dhSelf[1] = p, SpkOf(Peer(p)) \in L,
                    \A k \in otp : OtpOf(Peer(p), k) \in L
             PROVE  Seeds(p, Initiated(p, eph, dhSelf, otp), dhSelf, L)
  OBVIOUS
<1> DEFINE secret == x3dh(eph, Peer(p), otp)
           r == initRatchetAsAlice(<<secret>>, dhSelf, SpkOf(Peer(p)))
           s == Initiated(p, eph, dhSelf, otp)
           remote == SpkOf(Peer(p))
<1>1. secret \in SUBSET L
  BY DEF x3dh
<1>2. /\ IsRatchetState(r, L) /\ Tidy(p, r)
      /\ r.sendChain = {FirstChainKey(Append(<<secret>>, {dhSelf, remote}))}
      /\ <<secret>> \in Root(L)
  <2>1. <<secret>> \in Root(L)
    BY <1>1 DEF Root
  <2>2. \A root \in Root(L), rem \in L :
           LET t == initRatchetAsAlice(root, dhSelf, rem)
           IN  /\ IsRatchetState(t, L) /\ Tidy(dhSelf[1], t)
               /\ t.sendChain = {FirstChainKey(Append(root, {dhSelf, rem}))}
    BY AliceShape
  <2> HIDE DEF secret, remote
  <2>3. remote \in L
    BY DEF remote
  <2>4. r = initRatchetAsAlice(<<secret>>, dhSelf, remote)
    BY DEF remote
  <2> QED
    BY <2>1, <2>2, <2>3, <2>4
<1> HIDE DEF r, secret
<1>3. s = [ ratchet |-> r, pendingInit |-> {[eph |-> eph, otp |-> otp]},
            pendingInitSends |-> 0, acceptedInit |-> {}, archived |-> <<>>,
            superseded |-> <<>>, log |-> <<secret>> ]
  <2>1. s = [NewSession(r, secret) EXCEPT !.pendingInit = {[eph |-> eph, otp |-> otp]}]
    BY DEF Initiated, r, secret
  <2> QED
    BY <2>1 DEF NewSession
<1> HIDE DEF s, remote
<1>4. [eph |-> eph, otp |-> otp] \in InitPayloads(L)
  BY DEF InitPayloads
<1>5. /\ IsRecord(s) /\ s.ratchet = r /\ s.archived = <<>> /\ s.superseded = <<>>
      /\ s.log = <<secret>> /\ s.acceptedInit = {} /\ s.pendingInitSends = 0
      /\ s.pendingInit = {[eph |-> eph, otp |-> otp]}
  BY <1>3 DEF IsRecord
<1>6. IsSession(s, L)
  BY <1>1, <1>2, <1>4, <1>5, Bounds DEF IsSession
<1>7. Remembers(p, s.acceptedInit, s.superseded, s.log) /\ Stacked(s)
  BY <1>5 DEF Remembers, Stacked
<1>8. Sound(p, s, L)
  BY <1>2, <1>5, <1>6, <1>7 DEF Sound, OneOf
<1>9. Seeds(p, s, dhSelf, L)
  BY <1>2, <1>5, <1>8 DEF r, remote, Seeds
<1> QED
  BY <1>9 DEF s

(***************************************************************************)
(* encryptForPeer after encryptRatchet: the live ratchet advances, the     *)
(* init leaves or stays.                                                   *)
(***************************************************************************)
LEMMA SealShape ==
    ASSUME NEW K, NEW p, NEW s, Sound(p, s, K)
    PROVE  LET t == AfterSeal(s)
           IN  /\ IsRecord(t) /\ t.ratchet = AfterEncrypt(s.ratchet)
               /\ t.archived = s.archived /\ t.superseded = s.superseded
               /\ t.log = s.log /\ t.acceptedInit = s.acceptedInit
               /\ \/ t.pendingInit = {} /\ t.pendingInitSends = 0
                  \/ /\ t.pendingInit = s.pendingInit /\ s.pendingInit # {}
                     /\ t.pendingInitSends = s.pendingInitSends + 1
<1> DEFINE r == AfterEncrypt(s.ratchet)
           t == AfterSeal(s)
<1>1. IsRecord(s) /\ (s.pendingInit = {} => s.pendingInitSends = 0)
  BY DEF Sound, IsSession
<1> HIDE DEF r
<1>2. \/ t = [ ratchet |-> r, pendingInit |-> {}, pendingInitSends |-> 0,
               acceptedInit |-> s.acceptedInit, archived |-> s.archived,
               superseded |-> s.superseded, log |-> s.log ]
      \/ /\ t = [ ratchet |-> r, pendingInit |-> s.pendingInit,
                  pendingInitSends |-> s.pendingInitSends + 1,
                  acceptedInit |-> s.acceptedInit, archived |-> s.archived,
                  superseded |-> s.superseded, log |-> s.log ]
         /\ s.pendingInit # {}
  BY <1>1 DEF AfterSeal, IsRecord, r
<1> HIDE DEF t
<1>3. /\ IsRecord(t) /\ t.ratchet = r /\ t.archived = s.archived
      /\ t.superseded = s.superseded /\ t.log = s.log /\ t.acceptedInit = s.acceptedInit
      /\ \/ t.pendingInit = {} /\ t.pendingInitSends = 0
         \/ /\ t.pendingInit = s.pendingInit /\ s.pendingInit # {}
            /\ t.pendingInitSends = s.pendingInitSends + 1
  BY <1>2 DEF IsRecord
<1> QED
  BY <1>3 DEF r, t

LEMMA SealSound ==
    ASSUME NEW K, NEW p, NEW s, Sound(p, s, K), CanEncrypt(s.ratchet)
    PROVE  /\ Sound(p, AfterSeal(s), K)
           /\ AfterSeal(s).ratchet = AfterEncrypt(s.ratchet)
           /\ Envelope(s) \in Envelopes(p, K)
<1> DEFINE r == AfterEncrypt(s.ratchet)
           t == AfterSeal(s)
<1>1. IsRatchetState(s.ratchet, K) /\ Tidy(p, s.ratchet)
  BY DEF Sound, IsSession
<1>2. IsRatchetState(r, K) /\ Tidy(p, r)
  BY <1>1, EncryptShape, EncryptStep
<1>3. /\ IsRecord(t) /\ t.ratchet = r /\ t.archived = s.archived
      /\ t.superseded = s.superseded /\ t.log = s.log /\ t.acceptedInit = s.acceptedInit
      /\ \/ t.pendingInit = {} /\ t.pendingInitSends = 0
         \/ /\ t.pendingInit = s.pendingInit /\ s.pendingInit # {}
            /\ t.pendingInitSends = s.pendingInitSends + 1
  BY SealShape
<1> HIDE DEF r, t
<1>4. t.pendingInit \subseteq s.pendingInit /\ t.pendingInitSends \in Nat
      /\ (t.pendingInit = {} => t.pendingInitSends = 0)
  BY <1>3 DEF Sound, IsSession
<1>5. /\ t.archived \in Seq(ToSet(t.archived)) /\ Len(t.archived) = Len(s.archived)
      /\ \A k \in DOMAIN t.archived :
            IsRatchetState(t.archived[k], K) /\ Tidy(p, t.archived[k])
  BY <1>3 DEF Sound, IsSession
<1>6. Sound(p, t, K)
  BY <1>2, <1>3, <1>4, <1>5, Recast
<1>7. Envelope(s) \in Envelopes(p, K)
  <2>1. Sealed(s.ratchet) \in Message(K) /\ Sealed(s.ratchet).header.dhPub[1] = p
    BY <1>1, EncryptShape, EncryptStep DEF Tidy
  <2>2. /\ s.pendingInit \subseteq InitPayloads(K) /\ OneOf(s.pendingInit)
        /\ \A i \in s.pendingInit : Ephemeral(p, i.eph)
    BY DEF Sound, IsSession
  <2> QED
    BY <2>1, <2>2 DEF Envelopes, Envelope
<1> QED
  BY <1>3, <1>6, <1>7 DEF t, r

(***************************************************************************)
(* The secret of a handshake p accepts holds one pair that is not p's.     *)
(***************************************************************************)
LEMMA SecretOf ==
    ASSUME NEW p, NEW eph, eph[1] # p, NEW otp
    PROVE  /\ eph \in x3dh(eph, p, otp)
           /\ \A x \in x3dh(eph, p, otp) : x[1] # p => x = eph
BY DEF x3dh, SpkOf, OtpOf

(***************************************************************************)
(* acceptSession retires one handshake: the new one is none of those that  *)
(* are remembered, and each of them moves one place down.                  *)
(***************************************************************************)
LEMMA RememberAnother ==
    ASSUME NEW K, NEW p, NEW e \in K, NEW su \in Seq(K), NEW lg \in Seq(SUBSET K),
           lg # <<>>, Len(su) <= MAX_ARCHIVED_RATCHETS, Remembers(p, {e}, su, lg),
           NEW eph \in K, eph[1] # p, eph # e, eph \notin ToSet(su),
           NEW secret \in SUBSET K, eph \in secret,
           \A x \in secret : x[1] # p => x = eph
    PROVE  Remembers(p, {eph}, Newest(<<e>> \o su), Append(lg, secret))
<1> DEFINE n == Len(lg)
           su2 == Newest(<<e>> \o su)
           lg2 == Append(lg, secret)
<1>1. /\ n \in Nat /\ n > 0 /\ Len(su) \in Nat /\ MAX_ARCHIVED_RATCHETS \in Nat
  BY Bounds
<1>11. /\ lg2[n + 1] = secret
       /\ \A i \in 1..n : lg2[i] = lg[i]
       /\ Len(lg2) = n + 1 /\ DOMAIN lg2 = 1..(n + 1) /\ DOMAIN su = 1..Len(su)
  OBVIOUS
<1>12. DOMAIN lg = 1..n
  OBVIOUS
<1>2. Len(su) <= n - 1 /\ (Len(su) = n - 1 \/ Len(su) = MAX_ARCHIVED_RATCHETS)
  BY DEF Remembers
<1>21. /\ e[1] # p /\ e \in lg[n]
       /\ \A k \in DOMAIN su : su[k][1] # p /\ su[k] \in lg[n - k]
       /\ \A i, j \in 1..n : i < j /\ j - i <= MAX_ARCHIVED_RATCHETS + 1 => lg[i] # lg[j]
  BY <1>12 DEF Remembers
<1>3. /\ Len(su2) <= MAX_ARCHIVED_RATCHETS
      /\ Len(su2) = Len(su) + 1 \/ (Len(su2) = MAX_ARCHIVED_RATCHETS /\ Len(su2) <= Len(su) + 1)
  BY NewestOf
<1>31. /\ su2 \in Seq(K)
       /\ \A k \in DOMAIN su2 : \/ k = 1 /\ su2[k] = e
                                \/ k - 1 \in DOMAIN su /\ su2[k] = su[k - 1]
  BY NewestOf
<1>32. Len(su2) \in Nat /\ DOMAIN su2 = 1..Len(su2)
  BY <1>31
<1> HIDE DEF su2, lg2, n
<1>4. Len(su2) <= n /\ (Len(su2) = n \/ Len(su2) = MAX_ARCHIVED_RATCHETS)
  <2> DEFINE a == Len(su)
             b == Len(su2)
  <2>1. a \in Nat /\ b \in Nat
    BY <1>1, <1>32
  <2>2. a <= n - 1 /\ (a = n - 1 \/ a = MAX_ARCHIVED_RATCHETS)
    BY <1>2
  <2>3. b <= MAX_ARCHIVED_RATCHETS
        /\ (b = a + 1 \/ (b = MAX_ARCHIVED_RATCHETS /\ b <= a + 1))
    BY <1>3
  <2> HIDE DEF a, b
  <2>4. b <= n /\ (b = n \/ b = MAX_ARCHIVED_RATCHETS)
    BY <1>1, <2>1, <2>2, <2>3
  <2> QED
    BY <2>4 DEF b
<1>6. ASSUME NEW k \in DOMAIN su2
      PROVE  su2[k][1] # p /\ su2[k] \in lg2[n + 1 - k]
  <2>1. CASE k = 1 /\ su2[k] = e
    <3>1. n + 1 - k = n /\ n \in 1..n
      BY <1>1, <2>1
    <3> QED
      BY <1>11, <1>21, <2>1, <3>1
  <2>2. CASE k - 1 \in DOMAIN su /\ su2[k] = su[k - 1]
    <3>1. k \in Int /\ k - 1 \in 1..Len(su)
      BY <1>11, <1>32, <2>2
    <3>2. n - (k - 1) = n + 1 - k /\ n + 1 - k \in 1..n
      BY <1>1, <1>2, <3>1
    <3> QED
      BY <1>11, <1>21, <2>2, <3>2
  <2> QED
    BY <1>31, <2>1, <2>2
<1>7. ASSUME NEW i \in 1..n, n + 1 - i <= MAX_ARCHIVED_RATCHETS + 1
      PROVE  lg[i] # secret
  <2>1. CASE i = n
    <3>1. e \in lg[i] /\ e \notin secret
      BY <1>21, <2>1
    <3> QED
      BY <3>1
  <2>2. CASE i # n
    <3>1. n - i \in Nat /\ n - i > 0 /\ n - i <= MAX_ARCHIVED_RATCHETS /\ n - i <= n - 1
      BY <1>1, <1>7, <2>2
    <3>2. n - i \in DOMAIN su
      <4>1. n - i <= Len(su)
        BY <1>1, <1>2, <3>1
      <4>2. n - i \in 1..Len(su)
        BY <1>1, <3>1, <4>1
      <4> QED
        BY <1>11, <4>2
    <3>3. su[n - i] \in lg[i] /\ su[n - i][1] # p
      <4>1. n - (n - i) = i
        BY <1>1
      <4> QED
        BY <1>21, <3>2, <4>1
    <3>4. su[n - i] # eph
      BY <3>2 DEF ToSet
    <3> QED
      BY <3>3, <3>4
  <2> QED
    BY <2>1, <2>2
<1>8. ASSUME NEW i \in 1..(n + 1), NEW j \in 1..(n + 1), i < j,
             j - i <= MAX_ARCHIVED_RATCHETS + 1
      PROVE  lg2[i] # lg2[j]
  <2>1. i \in 1..n
    BY <1>1, <1>8
  <2>2. CASE j = n + 1
    <3>1. lg[i] # secret
      <4>1. n + 1 - i <= MAX_ARCHIVED_RATCHETS + 1
        BY <1>1, <1>8, <2>2
      <4> QED
        BY <1>7, <2>1, <4>1
    <3> QED
      BY <1>11, <2>1, <2>2, <3>1
  <2>3. CASE j # n + 1
    <3>1. j \in 1..n
      BY <1>1, <2>3
    <3> QED
      BY <1>11, <1>21, <1>8, <2>1, <3>1
  <2> QED
    BY <2>2, <2>3
<1>9. eph \in lg2[Len(lg2)] /\ Len(su2) <= Len(lg2) - 1
  BY <1>1, <1>11, <1>4
<1>10. Len(su2) = Len(lg2) - 1 \/ Len(su2) = MAX_ARCHIVED_RATCHETS
  BY <1>1, <1>11, <1>4
<1> SUFFICES Remembers(p, {eph}, su2, lg2)
  BY DEF su2, lg2
<1>13. ASSUME NEW k \in DOMAIN su2
       PROVE  su2[k][1] # p /\ su2[k] \in lg2[Len(lg2) - k]
  <2>1. Len(lg2) - k = n + 1 - k
    BY <1>1, <1>11, <1>32
  <2> QED
    BY <1>6, <2>1
<1>14. \A i, j \in DOMAIN lg2 :
          i < j /\ j - i <= MAX_ARCHIVED_RATCHETS + 1 => lg2[i] # lg2[j]
  BY <1>11, <1>8
<1> QED
  BY <1>9, <1>10, <1>13, <1>14 DEF Remembers

LEMMA NewAccepted ==
    ASSUME NEW r, NEW secret, NEW eph
    PROVE  [NewSession(r, secret) EXCEPT !.acceptedInit = {eph}]
             = [ ratchet |-> r, pendingInit |-> {}, pendingInitSends |-> 0,
                 acceptedInit |-> {eph}, archived |-> <<>>,
                 superseded |-> <<>>, log |-> <<secret>> ]
<1> DEFINE none == {}
           empty == <<>>
           one == {eph}
           lg == <<secret>>
<1> HIDE DEF none, empty, one, lg
<1>1. [ [ ratchet |-> r, pendingInit |-> none, pendingInitSends |-> 0,
          acceptedInit |-> none, archived |-> empty, superseded |-> empty, log |-> lg ]
        EXCEPT !.acceptedInit = one ]
      = [ ratchet |-> r, pendingInit |-> none, pendingInitSends |-> 0,
          acceptedInit |-> one, archived |-> empty, superseded |-> empty, log |-> lg ]
  OBVIOUS
<1> QED
  BY <1>1 DEF NewSession, none, empty, one, lg

(***************************************************************************)
(* acceptSession: the responder's record.                                  *)
(***************************************************************************)
LEMMA AcceptedSound ==
    ASSUME NEW K, NEW p \in Party, NEW init \in InitPayloads(K), init.eph[1] # p,
           SpkOf(p) \in K, \A k \in init.otp : OtpOf(p, k) \in K,
           NEW existing, OneOf(existing), \A s \in existing : Sound(p, s, K),
           ~KeepsExisting(existing, init)
    PROVE  LET t == Accepted(p, init, existing)
           IN  Sound(p, t, K) /\ t.ratchet.sendChain = {}
<1> DEFINE secret == x3dh(init.eph, p, init.otp)
           r == initRatchetAsBob(<<secret>>, SpkOf(p))
           t == Accepted(p, init, existing)
<1>1. init.eph \in K /\ secret \in SUBSET K
  BY DEF x3dh, InitPayloads
<1>2. IsRatchetState(r, K) /\ Tidy(p, r) /\ r.sendChain = {}
  <2>1. <<secret>> \in Root(K) /\ SpkOf(p)[1] = p
    BY <1>1 DEF Root, SpkOf
  <2> HIDE DEF secret
  <2> QED
    BY <2>1, BobShape
<1>3. init.eph \in secret /\ \A x \in secret : x[1] # p => x = init.eph
  BY SecretOf
<1> HIDE DEF secret, r
<1> DEFINE new == [NewSession(r, secret) EXCEPT !.acceptedInit = {init.eph}]
<1>4. new = [ ratchet |-> r, pendingInit |-> {}, pendingInitSends |-> 0,
              acceptedInit |-> {init.eph}, archived |-> <<>>,
              superseded |-> <<>>, log |-> <<secret>> ]
  BY NewAccepted
<1>5. CASE existing = {}
  <2>1. t = new
    BY <1>5 DEF Accepted, secret, r
  <2> HIDE DEF new, t
  <2>2. /\ IsRecord(t) /\ t.ratchet = r /\ t.archived = <<>> /\ t.superseded = <<>>
        /\ t.log = <<secret>> /\ t.acceptedInit = {init.eph} /\ t.pendingInitSends = 0
        /\ t.pendingInit = {}
    BY <1>4, <2>1 DEF IsRecord
  <2>3. IsSession(t, K)
    BY <1>1, <1>2, <2>2, Bounds DEF IsSession
  <2>4. Remembers(p, t.acceptedInit, t.superseded, t.log) /\ Stacked(t)
    BY <1>3, <2>2 DEF Remembers, Stacked
  <2> QED
    BY <1>2, <2>2, <2>3, <2>4 DEF Sound, OneOf, t
<1>6. CASE existing # {}
  <2> DEFINE old == CHOOSE s \in existing : TRUE
             ar == Newest(<<old.ratchet>> \o old.archived)
             su == Newest(SetToSeq(old.acceptedInit) \o old.superseded)
             lg == Append(old.log, secret)
  <2>1. old \in existing
    BY <1>6
  <2>2. t = [new EXCEPT !.archived = ar, !.superseded = su, !.log = lg]
    BY <1>6 DEF Accepted, secret, r
  <2> HIDE DEF old
  <2>3. Sound(p, old, K)
    BY <2>1
  <2>4. PICK e : old.acceptedInit = {e}
    <3>1. old.acceptedInit # {}
      BY <2>1 DEF KeepsExisting
    <3>2. PICK e : e \in old.acceptedInit
      BY <3>1
    <3>3. old.acceptedInit = {e}
      BY <2>3, <3>2 DEF Sound, OneOf
    <3> QED
      BY <3>3
  <2>5. su = Newest(<<e>> \o old.superseded)
    <3>1. SetToSeq(old.acceptedInit) = <<e>>
      BY <2>4, SeqOfOne DEF OneOf
    <3> QED
      BY <3>1
  <2> HIDE DEF su, ar, lg, new, t
  <2>6. /\ IsRecord(t) /\ t.ratchet = r /\ t.archived = ar /\ t.superseded = su
        /\ t.log = lg /\ t.acceptedInit = {init.eph} /\ t.pendingInitSends = 0
        /\ t.pendingInit = {}
    BY <1>4, <2>2 DEF IsRecord
  <2>7. /\ e \in K /\ old.superseded \in Seq(K)
        /\ Len(old.superseded) <= MAX_ARCHIVED_RATCHETS
        /\ old.log \in Seq(SUBSET K) /\ old.log # <<>>
        /\ Remembers(p, {e}, old.superseded, old.log)
    BY <2>3, <2>4 DEF Sound, IsSession
  <2>8. init.eph # e /\ init.eph \notin ToSet(old.superseded)
    BY <2>1, <2>4 DEF KeepsExisting
  <2>9. Remembers(p, {init.eph}, su, lg)
    BY <1>1, <1>3, <2>5, <2>7, <2>8, RememberAnother DEF lg
  <2>10. su \in Seq(K) /\ Len(su) <= MAX_ARCHIVED_RATCHETS
    BY <2>5, <2>7, NewestOf
  <2>11. lg \in Seq(SUBSET K) /\ lg # <<>>
    BY <1>1, <2>7 DEF lg
  <2>12. /\ ar \in Seq(ToSet(ar)) /\ Len(ar) <= MAX_ARCHIVED_RATCHETS
         /\ \A k \in DOMAIN ar : IsRatchetState(ar[k], K) /\ Tidy(p, ar[k])
         /\ \/ Len(ar) = Len(old.archived) + 1
            \/ Len(ar) = MAX_ARCHIVED_RATCHETS /\ Len(ar) <= Len(old.archived) + 1
    <3> DEFINE S == {x \in {old.ratchet} \union ToSet(old.archived) :
                        IsRatchetState(x, K) /\ Tidy(p, x)}
    <3>1. old.ratchet \in S /\ old.archived \in Seq(S)
      <4>1. \A k \in DOMAIN old.archived : old.archived[k] \in S
        BY <2>3 DEF Sound, IsSession, ToSet
      <4>2. old.archived \in Seq(ToSet(old.archived))
        BY <2>3 DEF Sound
      <4>3. old.archived \in Seq(S)
        <5> HIDE DEF S
        <5> QED
          BY <4>1, <4>2
      <4> QED
        BY <2>3, <4>3 DEF Sound, IsSession
    <3>2. \A x \in S : IsRatchetState(x, K) /\ Tidy(p, x)
      OBVIOUS
    <3> HIDE DEF S
    <3>3. /\ ar \in Seq(S) /\ Len(ar) <= MAX_ARCHIVED_RATCHETS
          /\ \/ Len(ar) = Len(old.archived) + 1
             \/ Len(ar) = MAX_ARCHIVED_RATCHETS /\ Len(ar) <= Len(old.archived) + 1
      BY <3>1, NewestOf DEF ar
    <3>4. ar \in Seq(ToSet(ar))
      BY <3>3 DEF ToSet
    <3> QED
      BY <3>2, <3>3, <3>4
  <2>13. IsSession(t, K)
    BY <1>1, <1>2, <2>6, <2>10, <2>11, <2>12 DEF IsSession
  <2>14. Stacked(t)
    <3>1. Len(lg) = Len(old.log) + 1 /\ Len(old.log) \in Nat
      BY <2>7 DEF lg
    <3>2. /\ Len(old.archived) \in Nat /\ Len(old.archived) < Len(old.log)
          /\ Len(old.archived) = Len(old.log) - 1 \/ Len(old.archived) = MAX_ARCHIVED_RATCHETS
      BY <2>3 DEF Sound, Stacked
    <3>3. Len(ar) \in Nat /\ MAX_ARCHIVED_RATCHETS \in Nat
      BY <2>12, Bounds
    <3>4. /\ Len(ar) < Len(lg)
          /\ Len(ar) = Len(lg) - 1 \/ Len(ar) = MAX_ARCHIVED_RATCHETS
      BY <2>12, <3>1, <3>2, <3>3
    <3> QED
      BY <2>6, <3>4 DEF Stacked
  <2> QED
    BY <1>2, <2>6, <2>9, <2>12, <2>13, <2>14 DEF Sound, OneOf, t
<1> QED
  BY <1>5, <1>6

(***************************************************************************)
(* decryptFromPeer: one ratchet of the record advances, the live one or    *)
(* the newest archived one that opens the message, and the handshake is    *)
(* confirmed.                                                              *)
(***************************************************************************)
LEMMA OpenShape ==
    ASSUME NEW K, NEW p, NEW s, Sound(p, s, K), NEW m, NEW f, CanOpen(s, m, f)
    PROVE  LET t == AfterOpen(s, m, f)
               n == Min(ArchivedOpening(s, m, f))
           IN  /\ IsRecord(t)
               /\ t.acceptedInit = s.acceptedInit /\ t.superseded = s.superseded
               /\ t.log = s.log /\ t.pendingInit = {} /\ t.pendingInitSends = 0
               /\ t.archived \in Seq(ToSet(t.archived)) /\ Len(t.archived) = Len(s.archived)
               /\ \/ /\ Opens(s.ratchet, m, f)
                     /\ t.ratchet = AfterDecrypt(s.ratchet, m, f)
                     /\ t.archived = s.archived
                  \/ /\ ~Opens(s.ratchet, m, f) /\ n \in DOMAIN s.archived
                     /\ Opens(s.archived[n], m, f)
                     /\ t.ratchet = s.ratchet
                     /\ \A k \in DOMAIN s.archived :
                           t.archived[k] = IF k = n THEN AfterDecrypt(s.archived[n], m, f)
                                                    ELSE s.archived[k]
<1> DEFINE t == AfterOpen(s, m, f)
           none == {}
           zero == 0
<1>0. none = {} /\ zero = 0
  OBVIOUS
<1>1. IsRecord(s) /\ s.archived \in Seq(ToSet(s.archived))
  BY DEF Sound
<1>2. CASE Opens(s.ratchet, m, f)
  <2> DEFINE r == AfterDecrypt(s.ratchet, m, f)
  <2>1. t = [[s EXCEPT !.ratchet = r] EXCEPT !.pendingInit = none, !.pendingInitSends = zero]
    BY <1>2 DEF AfterOpen
  <2> HIDE DEF r, t, none, zero
  <2>2. t = [ ratchet |-> r, pendingInit |-> none, pendingInitSends |-> zero,
              acceptedInit |-> s.acceptedInit, archived |-> s.archived,
              superseded |-> s.superseded, log |-> s.log ]
    BY <1>1, <2>1 DEF IsRecord
  <2>3. /\ IsRecord(t) /\ t.ratchet = r /\ t.archived = s.archived
        /\ t.acceptedInit = s.acceptedInit /\ t.superseded = s.superseded /\ t.log = s.log
        /\ t.pendingInit = {} /\ t.pendingInitSends = 0
    BY <1>0, <2>2 DEF IsRecord
  <2> QED
    BY <1>1, <1>2, <2>3 DEF r, t
<1>3. CASE ~Opens(s.ratchet, m, f)
  <2> DEFINE n == Min(ArchivedOpening(s, m, f))
             b == AfterDecrypt(s.archived[n], m, f)
             ar == [s.archived EXCEPT ![n] = b]
  <2>1. n \in DOMAIN s.archived /\ Opens(s.archived[n], m, f)
    <3>1. ArchivedOpening(s, m, f) \in SUBSET Nat
      BY <1>1 DEF ArchivedOpening
    <3>2. ArchivedOpening(s, m, f) # {}
      BY <1>3 DEF CanOpen
    <3>3. n \in ArchivedOpening(s, m, f)
      BY <3>1, <3>2, LeastOfNats
    <3> QED
      BY <3>3 DEF ArchivedOpening
  <2>2. t = [[s EXCEPT !.archived = ar] EXCEPT !.pendingInit = none, !.pendingInitSends = zero]
    BY <1>3 DEF AfterOpen
  <2> HIDE DEF n, b, t, none, zero
  <2>3. /\ ar \in Seq(ToSet(ar)) /\ Len(ar) = Len(s.archived)
        /\ \A k \in DOMAIN s.archived : ar[k] = IF k = n THEN b ELSE s.archived[k]
    <3> DEFINE S == ToSet(s.archived) \union {b}
    <3>1. s.archived \in Seq(S) /\ n \in 1..Len(s.archived) /\ b \in S
      BY <1>1, <2>1
    <3> HIDE DEF S
    <3>2. /\ ar \in Seq(S) /\ Len(ar) = Len(s.archived)
          /\ \A k \in 1..Len(s.archived) : ar[k] = IF k = n THEN b ELSE s.archived[k]
      BY <3>1, ExceptSeq
    <3> HIDE DEF ar
    <3> QED
      BY <1>1, <3>2 DEF ToSet
  <2> HIDE DEF ar
  <2>4. t = [ ratchet |-> s.ratchet, pendingInit |-> none, pendingInitSends |-> zero,
              acceptedInit |-> s.acceptedInit, archived |-> ar,
              superseded |-> s.superseded, log |-> s.log ]
    BY <1>1, <2>2 DEF IsRecord
  <2>5. /\ IsRecord(t) /\ t.ratchet = s.ratchet /\ t.archived = ar
        /\ t.acceptedInit = s.acceptedInit /\ t.superseded = s.superseded /\ t.log = s.log
        /\ t.pendingInit = {} /\ t.pendingInitSends = 0
    BY <1>0, <2>4 DEF IsRecord
  <2> QED
    BY <1>3, <2>1, <2>3, <2>5 DEF n, b, t
<1> QED
  BY <1>2, <1>3

LEMMA OpenSound ==
    ASSUME NEW K, NEW L, K \subseteq L, NEW p, NEW s, Sound(p, s, K),
           NEW m \in Message(K), m.header.dhPub[1] # p, m.header.dhPub # NoPub,
           NEW f, f[1] = p, CanOpen(s, m, f), UsesFresh(s, m, f) => f \in L
    PROVE  LET t == AfterOpen(s, m, f)
           IN  /\ Sound(p, t, L)
               /\ \/ SendsAsBefore(s.ratchet, t.ratchet)
                  \/ f \in L /\ SendsFresh(t.ratchet, m.header.dhPub, f, L)
<1> DEFINE t == AfterOpen(s, m, f)
           n == Min(ArchivedOpening(s, m, f))
           h == m.header
<1>1. /\ IsRatchetState(s.ratchet, K) /\ Tidy(p, s.ratchet)
      /\ \A k \in DOMAIN s.archived : IsRatchetState(s.archived[k], K) /\ Tidy(p, s.archived[k])
      /\ s.archived \in Seq(ToSet(s.archived))
  BY DEF Sound, IsSession
<1>2. IsRatchetState(s.ratchet, L)
      /\ \A k \in DOMAIN s.archived : IsRatchetState(s.archived[k], L)
  BY <1>1, StateGrows
<1>3. /\ IsRecord(t)
      /\ t.acceptedInit = s.acceptedInit /\ t.superseded = s.superseded /\ t.log = s.log
      /\ t.pendingInit = {} /\ t.pendingInitSends = 0
      /\ t.archived \in Seq(ToSet(t.archived)) /\ Len(t.archived) = Len(s.archived)
  BY OpenShape
<1>4. \/ /\ Opens(s.ratchet, m, f) /\ t.ratchet = AfterDecrypt(s.ratchet, m, f)
         /\ t.archived = s.archived
      \/ /\ ~Opens(s.ratchet, m, f) /\ n \in DOMAIN s.archived
         /\ Opens(s.archived[n], m, f) /\ t.ratchet = s.ratchet
         /\ \A k \in DOMAIN s.archived :
               t.archived[k] = IF k = n THEN AfterDecrypt(s.archived[n], m, f)
                                        ELSE s.archived[k]
  BY OpenShape
<1>5. DOMAIN t.archived = DOMAIN s.archived
  BY <1>1, <1>3
<1>6. ASSUME IsRatchetState(t.ratchet, L), Tidy(p, t.ratchet),
             \A k \in DOMAIN t.archived :
                IsRatchetState(t.archived[k], L) /\ Tidy(p, t.archived[k])
      PROVE  Sound(p, t, L)
  <2> HIDE DEF t
  <2>1. t.pendingInit \subseteq s.pendingInit /\ t.pendingInitSends \in Nat
        /\ (t.pendingInit = {} => t.pendingInitSends = 0)
    BY <1>3
  <2> QED
    BY <1>3, <1>6, <2>1, Recast
<1> HIDE DEF t
<1>7. CASE Opens(s.ratchet, m, f)
  <2>1. StepsRatchet(s.ratchet, h) => f \in L
    BY <1>7 DEF UsesFresh
  <2> DEFINE r == AfterDecrypt(s.ratchet, m, f)
  <2>2. t.ratchet = r /\ t.archived = s.archived
    BY <1>4, <1>7
  <2>3. /\ IsRatchetState(r, L) /\ Tidy(p, r)
        /\ ~StepsRatchet(s.ratchet, h) => SendsAsBefore(s.ratchet, r)
        /\ StepsRatchet(s.ratchet, h) => SendsFresh(r, h.dhPub, f, L)
    BY <1>1, <1>7, <2>1, DecryptFresh
  <2> HIDE DEF r
  <2>4. Sound(p, t, L)
    BY <1>1, <1>2, <1>6, <2>2, <2>3
  <2>5. \/ SendsAsBefore(s.ratchet, t.ratchet)
        \/ f \in L /\ SendsFresh(t.ratchet, h.dhPub, f, L)
    BY <2>1, <2>2, <2>3
  <2> QED
    BY <2>4, <2>5 DEF t
<1>8. CASE ~Opens(s.ratchet, m, f)
  <2> DEFINE a == s.archived[n]
             b == AfterDecrypt(a, m, f)
  <2>1. /\ n \in DOMAIN s.archived /\ Opens(a, m, f) /\ t.ratchet = s.ratchet
        /\ \A k \in DOMAIN s.archived : t.archived[k] = IF k = n THEN b ELSE s.archived[k]
    BY <1>4, <1>8
  <2>2. StepsRatchet(a, h) => f \in L
    BY <1>8 DEF UsesFresh
  <2> HIDE DEF n
  <2>3. IsRatchetState(a, K) /\ Tidy(p, a)
    BY <1>1, <2>1
  <2>4. IsRatchetState(b, L) /\ Tidy(p, b)
    BY <2>1, <2>2, <2>3, DecryptFresh
  <2> HIDE DEF a, b
  <2>5. \A k \in DOMAIN t.archived : IsRatchetState(t.archived[k], L) /\ Tidy(p, t.archived[k])
    BY <1>1, <1>2, <1>5, <2>1, <2>4
  <2>6. Sound(p, t, L)
    BY <1>1, <1>2, <1>6, <2>1, <2>5
  <2> QED
    BY <2>1, <2>6 DEF SendsAsBefore, t
<1> QED
  BY <1>7, <1>8

----------------------------------------------------------------------------
(* The keys made.                                                           *)

LEMMA MadeAre ==
    \A k : k \in Made <=> \E p \in Party : \E n \in 0..(nextKey[p] - 1) : k = <<p, n>>
BY DEF Made

(***************************************************************************)
(* The published prekeys are made, the pairs still to come are not.        *)
(***************************************************************************)
LEMMA MadeHolds ==
    ASSUME KeysOK, NEW p \in Party
    PROVE  /\ SpkOf(p) \in Made
           /\ \A k \in 1..Otps : OtpOf(p, k) \in Made
           /\ \A n \in Nat : nextKey[p] <= n => <<p, n>> \notin Made
           /\ \A k \in Made : k # NoPub
<1>1. Otps \in Nat /\ nextKey[p] \in Nat /\ Otps < nextKey[p]
  BY Bounds DEF KeysOK
<1>2. SpkOf(p) \in Made
  <2>1. 0 \in 0..(nextKey[p] - 1)
    BY <1>1
  <2> QED
    BY <2>1, MadeAre DEF SpkOf
<1>3. ASSUME NEW k \in 1..Otps
      PROVE  OtpOf(p, k) \in Made
  <2>1. k \in 0..(nextKey[p] - 1)
    BY <1>1
  <2> QED
    BY <2>1, MadeAre DEF OtpOf
<1>4. ASSUME NEW n \in Nat, nextKey[p] <= n, <<p, n>> \in Made
      PROVE  FALSE
  <2>1. n \in 0..(nextKey[p] - 1)
    BY <1>4, MadeAre
  <2> QED
    BY <1>1, <1>4, <2>1
<1>5. \A k \in Made : k # NoPub
  BY MadeAre DEF NoPub
<1> QED
  BY <1>2, <1>3, <1>4, <1>5

LEMMA MadeGrows ==
    ASSUME KeysOK, nextKey' \in [Party -> Nat],
           \A p \in Party : nextKey[p] <= nextKey'[p]
    PROVE  /\ KeysOK' /\ Made \subseteq Made'
           /\ \A p \in Party : \A n \in 0..(nextKey'[p] - 1) : <<p, n>> \in Made'
<1>1. \A p \in Party : nextKey[p] \in Nat /\ nextKey'[p] \in Nat /\ nextKey[p] <= nextKey'[p]
  BY DEF KeysOK
<1>2. \A k : k \in Made' <=> \E p \in Party : \E n \in 0..(nextKey'[p] - 1) : k = <<p, n>>
  BY DEF Made
<1>3. \A p \in Party : 0..(nextKey[p] - 1) \subseteq 0..(nextKey'[p] - 1)
  BY <1>1
<1>4. Made \subseteq Made'
  BY <1>2, <1>3, MadeAre
<1>5. KeysOK'
  <2>1. \A p \in Party : Otps < nextKey'[p]
    BY <1>1, Bounds DEF KeysOK
  <2> QED
    BY <2>1 DEF KeysOK
<1> QED
  BY <1>2, <1>4, <1>5

LEMMA MadeSame ==
    ASSUME nextKey' = nextKey
    PROVE  Made' = Made /\ (KeysOK => KeysOK')
BY DEF Made, KeysOK

----------------------------------------------------------------------------
(* The collections the invariant speaks of: more keys, and one element of   *)
(* each replaced.                                                           *)

LEMMA CollectionsGrow ==
    ASSUME NEW K, NEW L, K \subseteq L
    PROVE  /\ \A R : RecordsOK(R, K) => RecordsOK(R, L)
           /\ \A J : JobsOK(J, K) => JobsOK(J, L)
           /\ \A W, O, Lo : TrafficOK(W, O, Lo, K) => TrafficOK(W, O, Lo, L)
           /\ \A A : A \in [Party -> Seq(SUBSET K)] => A \in [Party -> Seq(SUBSET L)]
<1>1. \A p, s : Sound(p, s, K) => Sound(p, s, L)
  BY SoundGrows
<1>2. \A R : RecordsOK(R, K) => RecordsOK(R, L)
  BY <1>1 DEF RecordsOK
<1>3. \A J : JobsOK(J, K) => JobsOK(J, L)
  BY <1>1 DEF JobsOK, JobOK
<1>4. \A p : Envelopes(p, K) \subseteq Envelopes(p, L)
  BY EnvelopesGrow
<1>5. \A W, O, Lo : TrafficOK(W, O, Lo, K) => TrafficOK(W, O, Lo, L)
  BY <1>4 DEF TrafficOK
<1>6. \A A : A \in [Party -> Seq(SUBSET K)] => A \in [Party -> Seq(SUBSET L)]
  OBVIOUS
<1> QED
  BY <1>2, <1>3, <1>5, <1>6

LEMMA PutRecord ==
    ASSUME NEW K, NEW R, RecordsOK(R, K), NEW p \in Party,
           NEW S, OneOf(S), \A s \in S : Sound(p, s, K)
    PROVE  RecordsOK([R EXCEPT ![p] = S], K)
BY DEF RecordsOK

Receiving == {"accept", "burn", "load", "open"}

LEMMA PutJob ==
    ASSUME NEW K, NEW J, JobsOK(J, K), NEW W, Points(J, W),
           NEW c \in Context, NEW j, JobOK(Dev(c), j, K),
           j.at \in Receiving => j.msg \in DOMAIN W[Peer(Dev(c))]
    PROVE  JobsOK([J EXCEPT ![c] = j], K) /\ Points([J EXCEPT ![c] = j], W)
<1> DEFINE X == [J EXCEPT ![c] = j]
<1>1. DOMAIN X = Context /\ X[c] = j /\ \A d \in Context : d # c => X[d] = J[d]
  BY DEF JobsOK
<1> HIDE DEF X
<1>2. JobsOK(X, K)
  BY <1>1 DEF JobsOK
<1>3. Points(X, W)
  BY <1>1 DEF Points, Receiving
<1> QED
  BY <1>2, <1>3 DEF X

LEMMA Moves ==
    ASSUME NEW K, NEW J, JobsOK(J, K), NEW W, Points(J, W), NEW c \in Context,
           NEW phase \in {"idle", "bootstrap", "seal"} \union Receiving,
           phase \in Receiving => J[c].at \in Receiving,
           NEW got, OneOf(got), \A s \in got : Sound(Dev(c), s, K),
           phase \in {"seal", "open"} => got # {}
    PROVE  LET X == [J EXCEPT ![c] = [at |-> phase, got |-> got, msg |-> J[c].msg]]
           IN  JobsOK(X, K) /\ Points(X, W)
<1> DEFINE j == [at |-> phase, got |-> got, msg |-> J[c].msg]
<1>1. j.at = phase /\ j.got = got /\ j.msg = J[c].msg
      /\ j = [at |-> j.at, got |-> j.got, msg |-> j.msg]
  OBVIOUS
<1> HIDE DEF j
<1>2. JobOK(Dev(c), j, K)
  BY <1>1 DEF JobOK, Receiving
<1>3. j.at \in Receiving => j.msg \in DOMAIN W[Peer(Dev(c))]
  BY <1>1 DEF Points, Receiving
<1> QED
  BY <1>2, <1>3, PutJob DEF j

LEMMA Ends ==
    ASSUME NEW K, NEW J, JobsOK(J, K), NEW W, Points(J, W), NEW c \in Context
    PROVE  JobsOK([J EXCEPT ![c] = Idle], K) /\ Points([J EXCEPT ![c] = Idle], W)
<1>1. Idle.at = "idle" /\ Idle.got = {} /\ Idle = [at |-> Idle.at, got |-> Idle.got, msg |-> Idle.msg]
  BY DEF Idle
<1>2. JobOK(Dev(c), Idle, K)
  BY <1>1 DEF JobOK, OneOf
<1> QED
  BY <1>1, <1>2, PutJob DEF Receiving

LEMMA SendOne ==
    ASSUME NEW K, NEW W, NEW O, NEW Lo, TrafficOK(W, O, Lo, K),
           NEW p \in Party, NEW e \in Envelopes(p, K)
    PROVE  LET X == [W EXCEPT ![p] = Append(W[p], e)]
               Y == [O EXCEPT ![p] = Append(O[p], 0)]
           IN  /\ TrafficOK(X, Y, Lo, K)
               /\ \A J : Points(J, W) => Points(J, X)
<1> DEFINE X == [W EXCEPT ![p] = Append(W[p], e)]
           Y == [O EXCEPT ![p] = Append(O[p], 0)]
<1>1. DOMAIN W = Party /\ DOMAIN O = Party /\ DOMAIN Lo = Party
  BY DEF TrafficOK
<1>2. \A q \in Party : /\ W[q] \in Seq(Envelopes(q, K)) /\ O[q] \in Seq(Nat)
                      /\ Len(O[q]) = Len(W[q]) /\ Lo[q] \subseteq DOMAIN W[q]
  BY DEF TrafficOK
<1>3. /\ DOMAIN X = Party /\ DOMAIN Y = Party
      /\ X[p] = Append(W[p], e) /\ Y[p] = Append(O[p], 0)
      /\ \A q \in Party : q # p => X[q] = W[q] /\ Y[q] = O[q]
  BY <1>1
<1> HIDE DEF X, Y
<1>4. /\ X[p] \in Seq(Envelopes(p, K)) /\ Y[p] \in Seq(Nat) /\ Len(X[p]) = Len(W[p]) + 1
      /\ Len(Y[p]) = Len(X[p])
  BY <1>2, <1>3
<1>5. \A q \in Party : DOMAIN W[q] \subseteq DOMAIN X[q]
  <2>1. DOMAIN W[p] = 1..Len(W[p]) /\ DOMAIN X[p] = 1..(Len(W[p]) + 1) /\ Len(W[p]) \in Nat
    BY <1>2, <1>4
  <2>2. DOMAIN W[p] \subseteq DOMAIN X[p]
    BY <2>1
  <2> QED
    BY <1>3, <2>2
<1>6. TrafficOK(X, Y, Lo, K)
  <2>1. ASSUME NEW q \in Party
        PROVE  X[q] \in Seq(Envelopes(q, K)) /\ Y[q] \in Seq(Nat) /\ Len(Y[q]) = Len(X[q])
               /\ Lo[q] \subseteq DOMAIN X[q]
    <3>1. CASE q = p
      BY <1>2, <1>4, <1>5, <3>1
    <3>2. CASE q # p
      BY <1>2, <1>3, <3>2
    <3> QED
      BY <3>1, <3>2
  <2> QED
    BY <1>1, <1>3, <2>1 DEF TrafficOK
<1>7. \A J : Points(J, W) => Points(J, X)
  BY <1>5, Peers, Contexts DEF Points
<1> QED
  BY <1>6, <1>7 DEF X, Y

LEMMA ReadOne ==
    ASSUME NEW K, NEW W, NEW O, NEW Lo, TrafficOK(W, O, Lo, K),
           NEW p \in Party, NEW i \in DOMAIN W[p]
    PROVE  TrafficOK(W, [O EXCEPT ![p][i] = O[p][i] + 1], Lo, K)
<1> DEFINE Y == [O EXCEPT ![p][i] = O[p][i] + 1]
<1>1. DOMAIN W = Party /\ DOMAIN O = Party /\ DOMAIN Lo = Party
  BY DEF TrafficOK
<1>2. \A q \in Party : /\ W[q] \in Seq(Envelopes(q, K)) /\ O[q] \in Seq(Nat)
                      /\ Len(O[q]) = Len(W[q]) /\ Lo[q] \subseteq DOMAIN W[q]
  BY DEF TrafficOK
<1>3. DOMAIN Y = Party /\ Y[p] = [O[p] EXCEPT ![i] = O[p][i] + 1]
      /\ \A q \in Party : q # p => Y[q] = O[q]
  BY <1>1
<1> HIDE DEF Y
<1>4. O[p] \in Seq(Nat) /\ i \in 1..Len(O[p]) /\ O[p][i] + 1 \in Nat
  BY <1>2
<1>5. Y[p] \in Seq(Nat) /\ Len(Y[p]) = Len(O[p])
  BY <1>3, <1>4, ExceptSeq
<1>6. ASSUME NEW q \in Party
      PROVE  Y[q] \in Seq(Nat) /\ Len(Y[q]) = Len(W[q])
  BY <1>2, <1>3, <1>5
<1> QED
  BY <1>1, <1>2, <1>3, <1>6 DEF TrafficOK, Y

----------------------------------------------------------------------------
(* The invariant Typed holds at the start and survives every step.          *)

LEMMA InitTyped == Init => Typed
<1> SUFFICES ASSUME Init PROVE Typed
  OBVIOUS
<1>1. KeysOK /\ PrekeysOK
  BY Bounds DEF Init, KeysOK, PrekeysOK
<1>2. RecordsOK(rec, Made)
  BY DEF Init, RecordsOK, OneOf
<1>3. Idle.at = "idle" /\ Idle.got = {} /\ Idle = [at |-> Idle.at, got |-> Idle.got, msg |-> Idle.msg]
  BY DEF Idle
<1>4. DOMAIN job = Context /\ \A c \in Context : job[c] = Idle
  BY DEF Init
<1>5. JobsOK(job, Made) /\ Points(job, wire)
  BY <1>3, <1>4 DEF JobsOK, JobOK, Points, OneOf
<1>6. TrafficOK(wire, opened, lost, Made) /\ accepted \in [Party -> Seq(SUBSET Made)]
  <2>1. \A S : <<>> \in Seq(S)
    OBVIOUS
  <2>2. Len(<<>>) = 0
    OBVIOUS
  <2> QED
    BY <2>1, <2>2 DEF Init, TrafficOK
<1> QED
  BY <1>1, <1>2, <1>5, <1>6 DEF Typed

(***************************************************************************)
(* What the job of a context and the message it points at are.             *)
(***************************************************************************)
LEMMA JobOf ==
    ASSUME Typed, NEW c \in Context
    PROVE  /\ Dev(c) \in Party /\ Peer(Dev(c)) \in Party /\ Peer(Dev(c)) # Dev(c)
           /\ OneOf(job[c].got) /\ \A s \in job[c].got : Sound(Dev(c), s, Made)
           /\ OneOf(rec[Dev(c)]) /\ \A s \in rec[Dev(c)] : Sound(Dev(c), s, Made)
           /\ job[c].at \in Receiving =>
                 /\ job[c].msg \in DOMAIN wire[Peer(Dev(c))]
                 /\ Incoming(c) \in Envelopes(Peer(Dev(c)), Made)
<1>1. Dev(c) \in Party /\ Peer(Dev(c)) \in Party /\ Peer(Dev(c)) # Dev(c)
  BY Contexts, Peers
<1>2. OneOf(job[c].got) /\ \A s \in job[c].got : Sound(Dev(c), s, Made)
  BY DEF Typed, JobsOK, JobOK
<1>3. OneOf(rec[Dev(c)]) /\ \A s \in rec[Dev(c)] : Sound(Dev(c), s, Made)
  BY <1>1 DEF Typed, RecordsOK
<1>4. ASSUME job[c].at \in Receiving
      PROVE  /\ job[c].msg \in DOMAIN wire[Peer(Dev(c))]
             /\ Incoming(c) \in Envelopes(Peer(Dev(c)), Made)
  <2>1. job[c].msg \in DOMAIN wire[Peer(Dev(c))]
    BY <1>4 DEF Typed, Points, Receiving
  <2>2. wire[Peer(Dev(c))] \in Seq(Envelopes(Peer(Dev(c)), Made))
    BY <1>1 DEF Typed, TrafficOK
  <2>3. Incoming(c) \in Envelopes(Peer(Dev(c)), Made)
    BY <2>1, <2>2 DEF Incoming
  <2> QED
    BY <2>1, <2>3
<1> QED
  BY <1>1, <1>2, <1>3, <1>4

LEMMA StartSendTyped ==
    ASSUME Typed, NEW c \in Context, StartSend(c)
    PROVE  Typed'
<1> DEFINE p == Dev(c)
           phase == IF rec[p] = {} THEN "bootstrap" ELSE "seal"
<1>1. /\ job' = [job EXCEPT ![c] = [at |-> phase, got |-> rec[p], msg |-> job[c].msg]]
      /\ UNCHANGED <<rec, keys, nextKey, wire, lost, clears, faults, past>>
  BY DEF StartSend, Goto
<1>2. Made' = Made /\ KeysOK'
  BY <1>1, MadeSame DEF Typed
<1>3. JobsOK(job', Made) /\ Points(job', wire)
  <2>1. phase \in {"idle", "bootstrap", "seal"} \union Receiving /\ phase \notin Receiving
        /\ (phase \in {"seal", "open"} => rec[p] # {})
    BY DEF Receiving
  <2> HIDE DEF phase
  <2>2. OneOf(rec[p]) /\ \A s \in rec[p] : Sound(Dev(c), s, Made)
    BY JobOf
  <2> QED
    BY <1>1, <2>1, <2>2, Moves DEF Typed
<1> QED
  BY <1>1, <1>2, <1>3 DEF Typed, PrekeysOK, keys, past

LEMMA BootstrapTyped ==
    ASSUME Typed, NEW c \in Context, Bootstrap(c)
    PROVE  /\ Typed' /\ Made \subseteq Made'
           /\ \E s, dhSelf :
                 /\ rec' = [rec EXCEPT ![Dev(c)] = {s}]
                 /\ job' = [job EXCEPT ![c] = [at |-> "seal", got |-> {s}, msg |-> job[c].msg]]
                 /\ dhSelf \notin Made /\ dhSelf \in Made'
                 /\ \E root \in Root(Made') :
                       s.ratchet.sendChain =
                          {FirstChainKey(Append(root, {dhSelf, SpkOf(Peer(Dev(c)))}))}
<1> DEFINE p == Dev(c)
           q == Peer(p)
           otp == IF pool[q] = {} THEN {} ELSE {Min(pool[q])}
           eph == FreshKey(p)
           dhSelf == <<p, nextKey[p] + 1>>
           s == Initiated(p, eph, dhSelf, otp)
<1>1. p \in Party /\ q \in Party /\ nextKey \in [Party -> Nat] /\ nextKey[p] \in Nat
  BY JobOf DEF Typed, KeysOK
<1>2. otp \in SUBSET (1..Otps) /\ otp \subseteq pool[q]
  <2>1. pool[q] \in SUBSET (1..Otps) /\ pool[q] \in SUBSET Nat
    BY <1>1 DEF Typed, PrekeysOK
  <2>2. pool[q] # {} => Min(pool[q]) \in pool[q]
    BY <2>1, LeastOfNats
  <2> QED
    BY <2>1, <2>2
<1>3. /\ pool' = [pool EXCEPT ![q] = @ \ otp]
      /\ nextKey' = [nextKey EXCEPT ![p] = @ + 2]
      /\ rec' = [rec EXCEPT ![p] = {s}]
      /\ job' = [job EXCEPT ![c] = [at |-> "seal", got |-> {s}, msg |-> job[c].msg]]
      /\ UNCHANGED <<otpPriv, consumed, wire, lost, clears, faults, past>>
  BY DEF Bootstrap, Goto
<1>4. /\ nextKey' \in [Party -> Nat] /\ \A r \in Party : nextKey[r] <= nextKey'[r]
      /\ nextKey'[p] = nextKey[p] + 2
  BY <1>1, <1>3
<1>5. KeysOK' /\ Made \subseteq Made' /\ eph \in Made' /\ dhSelf \in Made'
  <2>1. /\ KeysOK' /\ Made \subseteq Made'
        /\ \A r \in Party : \A n \in 0..(nextKey'[r] - 1) : <<r, n>> \in Made'
    BY <1>4, MadeGrows DEF Typed
  <2>2. nextKey[p] \in 0..(nextKey'[p] - 1) /\ nextKey[p] + 1 \in 0..(nextKey'[p] - 1)
    BY <1>1, <1>4
  <2> QED
    BY <1>1, <2>1, <2>2 DEF FreshKey
<1>6. dhSelf \notin Made
  <2>1. nextKey[p] + 1 \in Nat /\ nextKey[p] <= nextKey[p] + 1
    BY <1>1
  <2> QED
    BY <1>1, <2>1, MadeHolds DEF Typed
<1>7. /\ Sound(p, s, Made')
      /\ \E root \in Root(Made') :
            s.ratchet.sendChain = {FirstChainKey(Append(root, {dhSelf, SpkOf(q)}))}
  <2>1. SpkOf(q) \in Made' /\ \A k \in otp : OtpOf(q, k) \in Made'
    BY <1>1, <1>2, <1>5, MadeHolds DEF Typed
  <2>2. Ephemeral(p, eph) /\ dhSelf[1] = p
    <3>1. nextKey[p] # 0
      BY <1>1, Bounds DEF Typed, KeysOK
    <3> QED
      BY <3>1 DEF FreshKey, Ephemeral, SpkOf
  <2>3. p \in Party /\ otp \in SUBSET (1..Otps) /\ eph \in Made' /\ dhSelf \in Made'
    BY <1>1, <1>2, <1>5
  <2>4. s = Initiated(p, eph, dhSelf, otp)
    OBVIOUS
  <2>5. q = Peer(p)
    OBVIOUS
  <2> HIDE DEF s, otp, eph, dhSelf, p, q
  <2>6. Seeds(p, Initiated(p, eph, dhSelf, otp), dhSelf, Made')
    BY <2>1, <2>2, <2>3, <2>5, InitiatedSeeds, ZenonT(60)
  <2> QED
    BY <2>4, <2>5, <2>6 DEF Seeds
<1> HIDE DEF s, otp, dhSelf
<1>8. /\ RecordsOK(rec, Made') /\ JobsOK(job, Made')
      /\ TrafficOK(wire, opened, lost, Made') /\ accepted \in [Party -> Seq(SUBSET Made')]
  BY <1>5, CollectionsGrow DEF Typed
<1>9. OneOf({s}) /\ \A t \in {s} : Sound(p, t, Made')
  BY <1>7 DEF OneOf
<1>10. RecordsOK(rec', Made')
  BY <1>1, <1>3, <1>8, <1>9, PutRecord
<1>11. JobsOK(job', Made') /\ Points(job', wire)
  <2>1. "seal" \notin Receiving
    BY DEF Receiving
  <2> QED
    BY <1>3, <1>8, <1>9, <2>1, Moves DEF Typed
<1>12. PrekeysOK'
  <2>1. pool' \in [Party -> SUBSET (1..Otps)]
    BY <1>3 DEF Typed, PrekeysOK
  <2> QED
    BY <1>3, <2>1 DEF Typed, PrekeysOK
<1>13. Typed'
  BY <1>3, <1>5, <1>8, <1>10, <1>11, <1>12 DEF Typed, past
<1> QED
  BY <1>3, <1>5, <1>6, <1>7, <1>13

LEMMA SealTyped ==
    ASSUME Typed, NEW c \in Context, Seal(c)
    PROVE  Typed' /\ Made' = Made
<1> DEFINE p == Dev(c)
<1>1. PICK s \in job[c].got :
         IF CanEncrypt(s.ratchet)
         THEN /\ wire' = [wire EXCEPT ![p] = Append(@, Envelope(s))]
              /\ opened' = [opened EXCEPT ![p] = Append(@, 0)]
              /\ rec' = [rec EXCEPT ![p] = {AfterSeal(s)}]
         ELSE UNCHANGED <<wire, opened, rec>>
  BY DEF Seal
<1>2. /\ job' = [job EXCEPT ![c] = Idle]
      /\ UNCHANGED <<keys, nextKey, lost, clears, faults, accepted>>
  BY DEF Seal, Finish
<1>3. Made' = Made /\ KeysOK'
  BY <1>2, MadeSame DEF Typed
<1>4. JobsOK(job', Made) /\ Points(job', wire)
  BY <1>2, Ends DEF Typed
<1>5. p \in Party /\ Sound(p, s, Made)
  BY JobOf
<1>6. RecordsOK(rec', Made) /\ TrafficOK(wire', opened', lost, Made) /\ Points(job', wire')
  <2>1. CASE CanEncrypt(s.ratchet)
    <3>1. Sound(p, AfterSeal(s), Made) /\ Envelope(s) \in Envelopes(p, Made)
      BY <1>5, <2>1, SealSound
    <3>2. RecordsOK(rec', Made)
      <4> DEFINE S == {AfterSeal(s)}
      <4>1. OneOf(S) /\ \A t \in S : Sound(p, t, Made)
        BY <3>1 DEF OneOf
      <4>2. rec' = [rec EXCEPT ![p] = S]
        BY <1>1, <2>1
      <4>3. RecordsOK(rec, Made)
        BY DEF Typed
      <4> HIDE DEF S, p
      <4> QED
        BY <1>5, <4>1, <4>2, <4>3, PutRecord
    <3> DEFINE e == Envelope(s)
    <3> HIDE DEF e
    <3>3. wire' = [wire EXCEPT ![p] = Append(wire[p], e)]
          /\ opened' = [opened EXCEPT ![p] = Append(opened[p], 0)]
      BY <1>1, <2>1 DEF e
    <3>4. TrafficOK(wire', opened', lost, Made) /\ \A J : Points(J, wire) => Points(J, wire')
      BY <1>5, <3>1, <3>3, SendOne DEF Typed, e
    <3> QED
      BY <1>4, <3>2, <3>4
  <2>2. CASE ~CanEncrypt(s.ratchet)
    BY <1>1, <1>4, <2>2 DEF Typed
  <2> QED
    BY <2>1, <2>2
<1> QED
  BY <1>2, <1>3, <1>4, <1>6 DEF Typed, PrekeysOK, keys

LEMMA StartReceiveTyped ==
    ASSUME Typed, NEW c \in Context, NEW i, StartReceive(c, i)
    PROVE  Typed'
<1> DEFINE p == Dev(c)
           q == Peer(p)
           plain == wire[q][i].init = {}
           none == {}
           phase == IF plain THEN "load" ELSE "accept"
           got == IF plain THEN none ELSE rec[p]
           j == [at |-> phase, got |-> got, msg |-> i]
<1>1. /\ job' = [job EXCEPT ![c] = j]
      /\ i \in DOMAIN wire[q]
      /\ UNCHANGED <<rec, keys, nextKey, wire, lost, clears, faults, past>>
  BY DEF StartReceive
<1>2. Made' = Made /\ KeysOK'
  BY <1>1, MadeSame DEF Typed
<1>3. OneOf(got) /\ \A s \in got : Sound(p, s, Made)
  BY JobOf DEF OneOf
<1>4. phase \in {"load", "accept"}
  OBVIOUS
<1> HIDE DEF plain, phase, got
<1>5. JobOK(p, j, Made) /\ j.msg = i
  BY <1>3, <1>4 DEF JobOK
<1> HIDE DEF j
<1>6. JobsOK(job', Made) /\ Points(job', wire)
  BY <1>1, <1>5, PutJob DEF Typed
<1> QED
  BY <1>1, <1>2, <1>6 DEF Typed, PrekeysOK, keys, past

(***************************************************************************)
(* acceptIncomingInit: nothing is accepted, or a record without a sending  *)
(* chain replaces the one in the store.                                    *)
(***************************************************************************)
LEMMA AcceptTyped ==
    ASSUME Typed, NEW c \in Context, Accept(c)
    PROVE  /\ Typed' /\ Made' = Made
           /\ \E phase \in {"load", "burn"} :
                 job' = [job EXCEPT ![c] = [at |-> phase, got |-> {}, msg |-> job[c].msg]]
           /\ \/ rec' = rec
              \/ \E t : rec' = [rec EXCEPT ![Dev(c)] = {t}] /\ t.ratchet.sendChain = {}
<1> DEFINE p == Dev(c)
           existing == job[c].got
<1>1. PICK init \in Incoming(c).init :
         IF KeepsExisting(existing, init) \/ ~OtpUsable(p, init.otp)
         THEN /\ Goto(c, "load", {})
              /\ UNCHANGED <<rec, accepted>>
         ELSE /\ rec' = [rec EXCEPT ![p] = {Accepted(p, init, existing)}]
              /\ accepted' = [accepted EXCEPT ![p] =
                                Append(@, x3dh(init.eph, p, init.otp))]
              /\ Goto(c, IF init.otp = {} THEN "load" ELSE "burn", {})
  BY DEF Accept
<1>2. UNCHANGED <<keys, nextKey, wire, lost, clears, faults, opened>> /\ job[c].at = "accept"
  BY DEF Accept, At
<1>3. Made' = Made /\ KeysOK'
  BY <1>2, MadeSame DEF Typed
<1>4. PICK phase \in {"load", "burn"} :
         job' = [job EXCEPT ![c] = [at |-> phase, got |-> {}, msg |-> job[c].msg]]
  BY <1>1 DEF Goto
<1>5. JobsOK(job', Made) /\ Points(job', wire)
  <2>1. phase \in {"idle", "bootstrap", "seal"} \union Receiving /\ job[c].at \in Receiving
        /\ phase \notin {"seal", "open"}
    BY <1>2 DEF Receiving
  <2> DEFINE none == {}
  <2>2. OneOf(none) /\ \A s \in none : Sound(Dev(c), s, Made)
    BY DEF OneOf
  <2>3. job' = [job EXCEPT ![c] = [at |-> phase, got |-> none, msg |-> job[c].msg]]
    BY <1>4
  <2> HIDE DEF none
  <2> QED
    BY <2>1, <2>2, <2>3, Moves DEF Typed
<1>6. CASE KeepsExisting(existing, init) \/ ~OtpUsable(p, init.otp)
  <2>1. rec' = rec /\ accepted' = accepted
    BY <1>1, <1>6
  <2> QED
    BY <1>2, <1>3, <1>4, <1>5, <2>1 DEF Typed, PrekeysOK, keys
<1>7. CASE ~KeepsExisting(existing, init) /\ OtpUsable(p, init.otp)
  <2> DEFINE t == Accepted(p, init, existing)
             secret == x3dh(init.eph, p, init.otp)
             S == {t}
  <2>1. /\ rec' = [rec EXCEPT ![p] = S]
        /\ accepted' = [accepted EXCEPT ![p] = Append(accepted[p], secret)]
    BY <1>1, <1>7
  <2>2. p \in Party /\ job[c].at \in Receiving
    BY <1>2, JobOf DEF Receiving
  <2>3. Incoming(c) \in Envelopes(Peer(p), Made) /\ Peer(p) # p
    BY <2>2, JobOf
  <2>4. init \in InitPayloads(Made) /\ init.eph[1] # p
    BY <2>3 DEF Envelopes, Ephemeral
  <2>5. SpkOf(p) \in Made /\ \A k \in init.otp : OtpOf(p, k) \in Made
    BY <2>2, <2>4, MadeHolds DEF Typed, InitPayloads
  <2>6. OneOf(existing) /\ \A s \in existing : Sound(p, s, Made)
    BY JobOf
  <2>7. Sound(p, t, Made) /\ t.ratchet.sendChain = {}
    <3> HIDE DEF existing, p
    <3> QED
      BY <1>7, <2>2, <2>4, <2>5, <2>6, AcceptedSound
  <2>8. secret \in SUBSET Made
    BY <2>4, <2>5 DEF x3dh, InitPayloads
  <2> HIDE DEF t, secret
  <2>9. OneOf(S) /\ \A s \in S : Sound(p, s, Made)
    BY <2>7 DEF OneOf
  <2>10. RecordsOK(rec', Made)
    <3>1. RecordsOK(rec, Made)
      BY DEF Typed
    <3> HIDE DEF S, p
    <3> QED
      BY <2>1, <2>2, <2>9, <3>1, PutRecord
  <2>11. accepted' \in [Party -> Seq(SUBSET Made)]
    <3>1. accepted \in [Party -> Seq(SUBSET Made)]
      BY DEF Typed
    <3>2. Append(accepted[p], secret) \in Seq(SUBSET Made)
      BY <2>2, <2>8, <3>1
    <3> QED
      BY <2>1, <3>1, <3>2
  <2>12. Typed'
    BY <1>2, <1>3, <1>5, <2>10, <2>11 DEF Typed, PrekeysOK, keys
  <2> QED
    BY <1>3, <1>4, <2>1, <2>7, <2>12
<1> QED
  BY <1>6, <1>7

LEMMA BurnTyped ==
    ASSUME Typed, NEW c \in Context, Burn(c)
    PROVE  Typed'
<1> DEFINE p == Dev(c)
<1>1. PICK init \in Incoming(c).init :
         /\ consumed' = [consumed EXCEPT ![p] = @ \union init.otp]
         /\ otpPriv' = [otpPriv EXCEPT ![p] = @ \ init.otp]
  BY DEF Burn
<1>2. /\ job[c].at = "burn"
      /\ job' = [job EXCEPT ![c] = [at |-> "load", got |-> {}, msg |-> job[c].msg]]
      /\ UNCHANGED <<rec, pool, nextKey, wire, lost, clears, faults, past>>
  BY DEF Burn, At, Goto
<1>3. Made' = Made /\ KeysOK'
  BY <1>2, MadeSame DEF Typed
<1>4. JobsOK(job', Made) /\ Points(job', wire)
  <2>1. "load" \in Receiving /\ job[c].at \in Receiving /\ "load" \notin {"seal", "open"}
    BY <1>2 DEF Receiving
  <2> DEFINE none == {}
  <2>2. OneOf(none) /\ \A s \in none : Sound(Dev(c), s, Made)
    BY DEF OneOf
  <2>3. job' = [job EXCEPT ![c] = [at |-> "load", got |-> none, msg |-> job[c].msg]]
    BY <1>2
  <2> HIDE DEF none
  <2> QED
    BY <2>1, <2>2, <2>3, Moves DEF Typed
<1>5. init.otp \subseteq 1..Otps
  <2>1. Incoming(c) \in Envelopes(Peer(p), Made)
    BY <1>2, JobOf DEF Receiving
  <2> QED
    BY <2>1 DEF Envelopes, InitPayloads
<1>6. PrekeysOK'
  BY <1>1, <1>2, <1>5 DEF Typed, PrekeysOK
<1> QED
  BY <1>2, <1>3, <1>4, <1>6 DEF Typed, past

LEMMA LoadTyped ==
    ASSUME Typed, NEW c \in Context, Load(c)
    PROVE  Typed'
<1> DEFINE p == Dev(c)
<1>1. /\ job[c].at = "load"
      /\ IF rec[p] = {} THEN job' = [job EXCEPT ![c] = Idle]
         ELSE job' = [job EXCEPT ![c] = [at |-> "open", got |-> rec[p], msg |-> job[c].msg]]
      /\ UNCHANGED <<rec, keys, nextKey, wire, lost, clears, faults, past>>
  BY DEF Load, At, Goto, Finish
<1>2. Made' = Made /\ KeysOK'
  BY <1>1, MadeSame DEF Typed
<1>3. JobsOK(job', Made) /\ Points(job', wire)
  <2>0. JobsOK(job, Made) /\ Points(job, wire)
    BY DEF Typed
  <2>1. CASE rec[p] = {}
    <3>1. job' = [job EXCEPT ![c] = Idle]
      BY <1>1, <2>1
    <3> QED
      BY <2>0, <3>1, Ends
  <2>2. CASE rec[p] # {}
    <3> DEFINE got == rec[p]
    <3>1. "open" \in Receiving /\ job[c].at \in Receiving
      BY <1>1 DEF Receiving
    <3>2. OneOf(got) /\ \A s \in got : Sound(Dev(c), s, Made)
      BY JobOf
    <3>3. got # {} /\ job' = [job EXCEPT ![c] = [at |-> "open", got |-> got, msg |-> job[c].msg]]
      BY <1>1, <2>2
    <3> HIDE DEF got
    <3> QED
      BY <2>0, <3>1, <3>2, <3>3, Moves
  <2> QED
    BY <2>1, <2>2
<1> QED
  BY <1>1, <1>2, <1>3 DEF Typed, PrekeysOK, keys, past

(***************************************************************************)
(* decryptFromPeer: nothing opens, or the record the call had loaded is    *)
(* written back, its sending chain as before or under a root not met yet.  *)
(***************************************************************************)
LEMMA OpenTyped ==
    ASSUME Typed, NEW c \in Context, Open(c)
    PROVE  /\ Typed'
           /\ job' = [job EXCEPT ![c] = Idle]
           /\ \/ rec' = rec
              \/ \E s \in job[c].got : \E t :
                    /\ rec' = [rec EXCEPT ![Dev(c)] = {t}]
                    /\ \/ t.ratchet.sendChain = s.ratchet.sendChain
                       \/ \A k \in t.ratchet.sendChain : k.root \notin Root(Made)
<1> DEFINE p == Dev(c)
           m == Incoming(c).msg
           f == FreshKey(p)
<1>1. PICK s \in job[c].got :
         IF CanOpen(s, m, f)
         THEN /\ rec' = [rec EXCEPT ![p] = {AfterOpen(s, m, f)}]
              /\ opened' = [opened EXCEPT ![Peer(p)][job[c].msg] = @ + 1]
              /\ nextKey' = [nextKey EXCEPT ![p] = IF UsesFresh(s, m, f) THEN @ + 1 ELSE @]
         ELSE UNCHANGED <<rec, opened, nextKey>>
  BY DEF Open
<1>2. /\ job[c].at = "open" /\ job' = [job EXCEPT ![c] = Idle]
      /\ UNCHANGED <<keys, wire, lost, clears, faults, accepted>>
  BY DEF Open, At, Finish
<1>3. /\ p \in Party /\ Peer(p) \in Party /\ Peer(p) # p
      /\ Sound(p, s, Made)
      /\ job[c].msg \in DOMAIN wire[Peer(p)]
      /\ Incoming(c) \in Envelopes(Peer(p), Made)
  BY <1>2, JobOf DEF Receiving
<1>4. CASE ~CanOpen(s, m, f)
  <2>1. UNCHANGED <<rec, opened, nextKey>>
    BY <1>1, <1>4
  <2>2. Made' = Made /\ KeysOK'
    BY <2>1, MadeSame DEF Typed
  <2>3. JobsOK(job', Made) /\ Points(job', wire)
    BY <1>2, Ends DEF Typed
  <2> QED
    BY <1>2, <2>1, <2>2, <2>3 DEF Typed, PrekeysOK, keys
<1>5. CASE CanOpen(s, m, f)
  <2> DEFINE uses == UsesFresh(s, m, f)
             t == AfterOpen(s, m, f)
             S == {t}
  <2>1. /\ rec' = [rec EXCEPT ![p] = S]
        /\ opened' = [opened EXCEPT ![Peer(p)][job[c].msg] = opened[Peer(p)][job[c].msg] + 1]
        /\ nextKey' = [nextKey EXCEPT ![p] = IF uses THEN nextKey[p] + 1 ELSE nextKey[p]]
    BY <1>1, <1>5
  <2>2. nextKey \in [Party -> Nat] /\ nextKey[p] \in Nat
    BY <1>3 DEF Typed, KeysOK
  <2> HIDE DEF uses
  <2>3. /\ nextKey' \in [Party -> Nat] /\ \A r \in Party : nextKey[r] <= nextKey'[r]
        /\ uses => nextKey'[p] = nextKey[p] + 1
    BY <1>3, <2>1, <2>2
  <2>4. KeysOK' /\ Made \subseteq Made' /\ (uses => f \in Made')
    <3>1. /\ KeysOK' /\ Made \subseteq Made'
          /\ \A r \in Party : \A n \in 0..(nextKey'[r] - 1) : <<r, n>> \in Made'
      BY <2>3, MadeGrows DEF Typed
    <3>2. uses => nextKey[p] \in 0..(nextKey'[p] - 1)
      BY <2>2, <2>3
    <3> QED
      BY <1>3, <3>1, <3>2 DEF FreshKey
  <2>5. f \notin Made /\ f[1] = p
    <3>1. nextKey[p] <= nextKey[p]
      BY <2>2
    <3> QED
      BY <1>3, <2>2, <3>1, MadeHolds DEF Typed, FreshKey
  <2>6. m \in Message(Made) /\ m.header.dhPub[1] # p /\ m.header.dhPub \in Made
        /\ m.header.dhPub # NoPub
    <3>1. m \in Message(Made) /\ m.header.dhPub[1] # p
      BY <1>3 DEF Envelopes
    <3>2. m.header.dhPub \in Made
      BY <3>1 DEF Message
    <3> QED
      BY <1>3, <3>1, <3>2, MadeHolds DEF Typed
  <2> HIDE DEF m, f
  <2>7. /\ Sound(p, t, Made')
        /\ \/ SendsAsBefore(s.ratchet, t.ratchet)
           \/ f \in Made' /\ SendsFresh(t.ratchet, m.header.dhPub, f, Made')
    <3> HIDE DEF p
    <3> QED
      BY <1>3, <1>5, <2>4, <2>5, <2>6, OpenSound DEF uses
  <2> HIDE DEF t
  <2>8. \/ t.ratchet.sendChain = s.ratchet.sendChain
        \/ \A k \in t.ratchet.sendChain : k.root \notin Root(Made)
    <3>1. CASE SendsAsBefore(s.ratchet, t.ratchet)
      BY <3>1 DEF SendsAsBefore
    <3>2. CASE f \in Made' /\ SendsFresh(t.ratchet, m.header.dhPub, f, Made')
      <4>1. PICK root \in Root(Made') :
               t.ratchet.sendChain = {FirstChainKey(Append(root, {f, m.header.dhPub}))}
        BY <3>2 DEF SendsFresh
      <4>2. {f, m.header.dhPub} \in SUBSET Made'
        BY <2>4, <2>6, <3>2
      <4>3. Append(root, {f, m.header.dhPub}) \notin Root(Made)
        BY <2>5, <4>2, FreshRoot
      <4> QED
        BY <4>1, <4>3 DEF FirstChainKey
    <3> QED
      BY <2>7, <3>1, <3>2
  <2>9. /\ RecordsOK(rec, Made') /\ JobsOK(job, Made')
        /\ TrafficOK(wire, opened, lost, Made') /\ accepted \in [Party -> Seq(SUBSET Made')]
    BY <2>4, CollectionsGrow DEF Typed
  <2>10. RecordsOK(rec', Made')
    <3>1. OneOf(S) /\ \A u \in S : Sound(p, u, Made')
      BY <2>7 DEF OneOf
    <3> HIDE DEF S, p
    <3> QED
      BY <1>3, <2>1, <2>9, <3>1, PutRecord
  <2>11. JobsOK(job', Made') /\ Points(job', wire)
    BY <1>2, <2>9, Ends DEF Typed
  <2>12. TrafficOK(wire, opened', lost, Made')
    <3> DEFINE q == Peer(p)
               i == job[c].msg
    <3>1. q \in Party /\ i \in DOMAIN wire[q]
          /\ opened' = [opened EXCEPT ![q][i] = opened[q][i] + 1]
      BY <1>3, <2>1
    <3> HIDE DEF q, i
    <3> QED
      BY <2>9, <3>1, ReadOne
  <2>13. Typed'
    BY <1>2, <2>4, <2>9, <2>10, <2>11, <2>12 DEF Typed, PrekeysOK, keys
  <2> QED
    BY <1>2, <2>1, <2>8, <2>13
<1> QED
  BY <1>4, <1>5

(***************************************************************************)
(* A call that fails or is abandoned, a reset, a message lost.             *)
(***************************************************************************)
LEMMA FetchFailsTyped ==
    ASSUME Typed, NEW c \in Context, FetchFails(c)
    PROVE  Typed'
<1>1. /\ job[c].at = "accept"
      /\ job' = [job EXCEPT ![c] = [at |-> "load", got |-> {}, msg |-> job[c].msg]]
      /\ UNCHANGED <<rec, keys, nextKey, wire, lost, clears, past>>
  BY DEF FetchFails, At, Goto
<1>2. Made' = Made /\ KeysOK'
  BY <1>1, MadeSame DEF Typed
<1>3. JobsOK(job', Made) /\ Points(job', wire)
  <2>1. "load" \in Receiving /\ job[c].at \in Receiving /\ "load" \notin {"seal", "open"}
    BY <1>1 DEF Receiving
  <2> DEFINE none == {}
  <2>2. OneOf(none) /\ \A s \in none : Sound(Dev(c), s, Made)
    BY DEF OneOf
  <2>3. job' = [job EXCEPT ![c] = [at |-> "load", got |-> none, msg |-> job[c].msg]]
    BY <1>1
  <2> HIDE DEF none
  <2> QED
    BY <2>1, <2>2, <2>3, Moves DEF Typed
<1> QED
  BY <1>1, <1>2, <1>3 DEF Typed, PrekeysOK, keys, past

LEMMA AbandonTyped ==
    ASSUME Typed, NEW c \in Context, Abandon(c)
    PROVE  Typed'
<1>1. /\ job' = [job EXCEPT ![c] = Idle]
      /\ UNCHANGED <<rec, keys, nextKey, wire, lost, clears, past>>
  BY DEF Abandon, Finish
<1>2. Made' = Made /\ KeysOK'
  BY <1>1, MadeSame DEF Typed
<1>3. JobsOK(job', Made) /\ Points(job', wire)
  BY <1>1, Ends DEF Typed
<1> QED
  BY <1>1, <1>2, <1>3 DEF Typed, PrekeysOK, keys, past

LEMMA ClearTyped ==
    ASSUME Typed, NEW p \in Party, Clear(p)
    PROVE  Typed'
<1> DEFINE none == {}
<1>1. /\ rec' = [rec EXCEPT ![p] = none]
      /\ UNCHANGED <<job, keys, nextKey, wire, lost, faults, past>>
  BY DEF Clear
<1>2. Made' = Made /\ KeysOK'
  BY <1>1, MadeSame DEF Typed
<1>3. OneOf(none) /\ \A s \in none : Sound(p, s, Made)
  BY DEF OneOf
<1> HIDE DEF none
<1>4. RecordsOK(rec', Made)
  BY <1>1, <1>3, PutRecord DEF Typed
<1> QED
  BY <1>1, <1>2, <1>4 DEF Typed, PrekeysOK, keys, past

LEMMA LoseTyped ==
    ASSUME Typed, NEW p \in Party, NEW i, Lose(p, i)
    PROVE  Typed'
<1>1. /\ i \in DOMAIN wire[p] /\ lost' = [lost EXCEPT ![p] = @ \union {i}]
      /\ UNCHANGED <<rec, job, keys, nextKey, wire, clears, faults, past>>
  BY DEF Lose
<1>2. Made' = Made /\ KeysOK'
  BY <1>1, MadeSame DEF Typed
<1>3. TrafficOK(wire, opened, lost', Made)
  <2>1. TrafficOK(wire, opened, lost, Made)
    BY DEF Typed
  <2>2. DOMAIN lost' = Party /\ \A q \in Party : lost'[q] \subseteq DOMAIN wire[q]
    BY <1>1, <2>1 DEF TrafficOK
  <2> QED
    BY <2>1, <2>2 DEF TrafficOK
<1> QED
  BY <1>1, <1>2, <1>3 DEF Typed, PrekeysOK, keys, past

LEMMA IdleTyped ==
    ASSUME Typed, UNCHANGED vars
    PROVE  Typed' /\ Made' = Made
<1>1. Made' = Made /\ KeysOK'
  BY MadeSame DEF Typed, vars
<1> QED
  BY <1>1 DEF Typed, PrekeysOK, keys, past, vars

LEMMA StepTyped == Typed /\ [Next]_vars => Typed'
<1> SUFFICES ASSUME Typed, [Next]_vars PROVE Typed'
  OBVIOUS
<1>1. ASSUME NEW c \in Context, Step(c) PROVE Typed'
  BY <1>1, StartSendTyped, BootstrapTyped, SealTyped, AcceptTyped, BurnTyped,
     LoadTyped, OpenTyped DEF Step
<1>2. ASSUME NEW c \in Context, FetchFails(c) \/ Abandon(c) PROVE Typed'
  BY <1>2, FetchFailsTyped, AbandonTyped
<1>3. ASSUME NEW c \in Context, NEW i \in 1..MaxMsgs, StartReceive(c, i) PROVE Typed'
  BY <1>3, StartReceiveTyped
<1>4. ASSUME NEW p \in Party, NEW i, Clear(p) \/ Lose(p, i) PROVE Typed'
  BY <1>4, ClearTyped, LoseTyped
<1> QED
  BY <1>1, <1>2, <1>3, <1>4, IdleTyped DEF Next

----------------------------------------------------------------------------
(* The theorems of any number of tabs.                                      *)

\* The invariant the theorems below follow from holds in every reachable state,
\* whatever the number of tabs that write the record over each other.
THEOREM TypedHolds == Spec => []Typed
<1> QED
  BY InitTyped, StepTyped, PTL DEF Spec

LEMMA AtMostOne ==
    ASSUME NEW S, OneOf(S)
    PROVE  Cardinality(S) <= 1
<1>1. CASE S = {}
  BY <1>1, FS_EmptySet
<1>2. ASSUME NEW x \in S
      PROVE  Cardinality(S) <= 1
  <2>1. S = {x}
    BY DEF OneOf
  <2>2. Cardinality(S) = 1
    BY <2>1, FS_Singleton
  <2> QED
    BY <2>2
<1> QED
  BY <1>1, <1>2

\* Every record has the shape of SerializedSession with key material of the pairs
\* generated only, a call has loaded what its phase works on, and a one-time
\* private key is there exactly until the ledger has it (session-manager.ts).
THEOREM TypeCorrect == Spec => []TypeOK
<1>1. Typed => TypeOK
  <2> SUFFICES ASSUME Typed PROVE TypeOK
    OBVIOUS
  <2>1. ASSUME NEW p \in Party
        PROVE  /\ Cardinality(rec[p]) <= 1 /\ \A s \in rec[p] : IsSession(s, Made)
               /\ pool[p] \subseteq 1..Otps
               /\ otpPriv[p] = (1..Otps) \ consumed[p]
               /\ \A i \in DOMAIN wire[p] :
                     wire[p][i].msg \in Message(Made) /\ wire[p][i].init \subseteq InitPayloads(Made)
               /\ lost[p] \subseteq DOMAIN wire[p]
               /\ DOMAIN opened[p] = DOMAIN wire[p]
    <3>1. Cardinality(rec[p]) <= 1 /\ \A s \in rec[p] : IsSession(s, Made)
      BY AtMostOne DEF Typed, RecordsOK, Sound
    <3>2. pool[p] \subseteq 1..Otps /\ otpPriv[p] = (1..Otps) \ consumed[p]
      BY DEF Typed, PrekeysOK
    <3>3. /\ wire[p] \in Seq(Envelopes(p, Made)) /\ opened[p] \in Seq(Nat)
          /\ Len(opened[p]) = Len(wire[p]) /\ lost[p] \subseteq DOMAIN wire[p]
      BY DEF Typed, TrafficOK
    <3>4. DOMAIN opened[p] = DOMAIN wire[p]
      BY <3>3
    <3>5. \A i \in DOMAIN wire[p] : wire[p][i] \in Envelopes(p, Made)
      BY <3>3
    <3>6. \A i \in DOMAIN wire[p] :
             wire[p][i].msg \in Message(Made) /\ wire[p][i].init \subseteq InitPayloads(Made)
      BY <3>5 DEF Envelopes
    <3> QED
      BY <3>1, <3>2, <3>3, <3>4, <3>6
  <2>2. ASSUME NEW c \in Context
        PROVE  /\ job[c].at \in {"idle", "bootstrap", "seal", "accept", "burn", "load", "open"}
               /\ \A s \in job[c].got : IsSession(s, Made)
               /\ job[c].at \in {"seal", "open"} => job[c].got # {}
    BY DEF Typed, JobsOK, JobOK, Sound
  <2> QED
    BY <2>1, <2>2 DEF TypeOK
<1> QED
  BY <1>1, TypedHolds, PTL

\* acceptIncomingInit runs no handshake again that this record has moved on from,
\* however many were retired and whichever tab wrote last, as long as `superseded`
\* still has room for it.
THEOREM RetiredHandshakesStay == Spec => []RetiredStaysRetired
<1>1. Typed => RetiredStaysRetired
  BY DEF Typed, RecordsOK, Sound, Remembers, RetiredStaysRetired
<1> QED
  BY <1>1, TypedHolds, PTL

----------------------------------------------------------------------------
(* One tab a device: the lock of runExclusive covers every call on the pair.*)

\* The copies of a record on device p, and the chains they could seal with.
Sess(p) == rec[p] \union UNION {job[c].got : c \in {d \in Context : Dev(d) = p}}
Sends(p) == UNION {s.ratchet.sendChain : s \in Sess(p)}

\* What p can still seal with shares no key with what p sealed.
SendsAhead ==
    \A p \in Party : \A k \in Sends(p) : \A i \in DOMAIN wire[p] :
        ~Derives(k, wire[p][i].msg.key)

\* ... and no root with what the other side sealed or can seal.
Apart ==
    \A p \in Party : \A k \in Sends(p) :
        /\ \A i \in DOMAIN wire[Peer(p)] : wire[Peer(p)][i].msg.key.root # k.root
        /\ \A d \in Sends(Peer(p)) : d.root # k.root

Fresh == SendsAhead /\ Apart /\ NoKeyReuse

LEMMA SendsAre ==
    \A p, k : k \in Sends(p)
       <=> \/ \E s \in rec[p] : k \in s.ratchet.sendChain
           \/ \E c \in Context : Dev(c) = p /\ \E s \in job[c].got : k \in s.ratchet.sendChain
BY DEF Sends, Sess

(***************************************************************************)
(* The keys on the wire and in the records are of the pairs made.          *)
(***************************************************************************)
LEMMA KeysTyped ==
    ASSUME Typed, NEW p \in Party
    PROVE  /\ \A k \in Sends(p) : k \in ChainKey(Made) /\ k.root \in Root(Made) /\ k.n \in Nat
           /\ \A i \in DOMAIN wire[p] : LET k == wire[p][i].msg.key
                                        IN  k.root \in Root(Made) /\ k.n \in Nat
<1>1. \A s \in Sess(p) : Sound(p, s, Made)
  BY DEF Sess, Typed, RecordsOK, JobsOK, JobOK
<1>2. \A k \in Sends(p) : k \in ChainKey(Made)
  <2>1. \A s \in Sess(p) : s.ratchet.sendChain \subseteq ChainKey(Made)
    BY <1>1 DEF Sound, IsSession, IsRatchetState, Fields
  <2> QED
    BY <2>1 DEF Sends
<1>3. \A i \in DOMAIN wire[p] : wire[p][i].msg.key \in ChainKey(Made)
  <2>1. wire[p] \in Seq(Envelopes(p, Made))
    BY DEF Typed, TrafficOK
  <2>2. \A i \in DOMAIN wire[p] : wire[p][i] \in Envelopes(p, Made)
    BY <2>1
  <2> QED
    BY <2>2 DEF Envelopes, Message
<1>4. \A k \in ChainKey(Made) : k.root \in Root(Made) /\ k.n \in Nat
  BY DEF ChainKey
<1> QED
  BY <1>2, <1>3, <1>4

(***************************************************************************)
(* Nothing is sealed, and what can be sealed with is what could be or has  *)
(* a root not met yet.                                                     *)
(***************************************************************************)
LEMMA NothingSealed ==
    ASSUME Typed, Fresh, wire' = wire, NEW p \in Party,
           \A q \in Party : \A k \in Sends(q)' :
              k \in Sends(q) \/ (q = p /\ k.root \notin Root(Made))
    PROVE  Fresh'
<1>1. SendsAhead'
  BY KeysTyped DEF Fresh, SendsAhead, Derives
<1>2. Apart'
  <2>1. ASSUME NEW q \in Party, NEW k \in Sends(q)'
        PROVE  /\ \A i \in DOMAIN wire[Peer(q)] : wire[Peer(q)][i].msg.key.root # k.root
               /\ \A d \in Sends(Peer(q))' : d.root # k.root
    <3>1. Peer(q) \in Party /\ Peer(q) # q
      BY Peers
    <3>2. CASE k \in Sends(q)
      BY <3>1, <3>2, KeysTyped DEF Fresh, Apart
    <3>3. CASE q = p /\ k.root \notin Root(Made)
      BY <3>1, <3>3, KeysTyped
    <3> QED
      BY <2>1, <3>2, <3>3
  <2> QED
    BY <2>1 DEF Apart
<1>3. NoKeyReuse'
  BY DEF Fresh, NoKeyReuse
<1> QED
  BY <1>1, <1>2, <1>3 DEF Fresh

\* The same, from what the step does to the record and to the job.
LEMMA NothingSealedIn ==
    ASSUME Typed, Fresh, wire' = wire, NEW c \in Context,
           NEW j, job' = job \/ job' = [job EXCEPT ![c] = j],
           NEW R, rec' = rec \/ rec' = [rec EXCEPT ![Dev(c)] = R],
           \A s \in j.got \union R : \A k \in s.ratchet.sendChain :
              k \in Sends(Dev(c)) \/ k.root \notin Root(Made)
    PROVE  Fresh'
<1>1. Dev(c) \in Party
  BY Contexts
<1>2. \A d \in Context : job'[d] = job[d] \/ (d = c /\ job'[d] = j)
  BY DEF Typed, JobsOK
<1>3. \A q \in Party : rec'[q] = rec[q] \/ (q = Dev(c) /\ rec'[q] = R)
  BY DEF Typed, RecordsOK
<1>4. \A q, k : k \in Sends(q)'
         <=> \/ \E s \in rec'[q] : k \in s.ratchet.sendChain
             \/ \E d \in Context : Dev(d) = q /\ \E s \in job'[d].got : k \in s.ratchet.sendChain
  BY DEF Sends, Sess
<1>5. ASSUME NEW q \in Party, NEW k \in Sends(q)'
      PROVE  k \in Sends(q) \/ (q = Dev(c) /\ k.root \notin Root(Made))
  <2>1. CASE \E s \in rec'[q] : k \in s.ratchet.sendChain
    BY <1>3, <2>1, SendsAre
  <2>2. CASE \E d \in Context : Dev(d) = q /\ \E s \in job'[d].got : k \in s.ratchet.sendChain
    BY <1>2, <2>2, SendsAre
  <2> QED
    BY <1>4, <2>1, <2>2
<1> QED
  BY <1>1, <1>5, NothingSealed

OneTab == \A t, u \in Tabs : t = u

LEMMA OneContext ==
    ASSUME OneTab, NEW c \in Context, NEW d \in Context, Dev(d) = Dev(c)
    PROVE  d = c
BY Contexts DEF OneTab

(***************************************************************************)
(* encryptForPeer: the chain the message was sealed with moves on, and no  *)
(* other copy of the record is left.                                       *)
(***************************************************************************)
LEMMA SealFresh ==
    ASSUME OneTab, Typed, Fresh, NEW c \in Context, Seal(c)
    PROVE  Fresh'
<1> DEFINE p == Dev(c)
           none == {}
<1>1. PICK s \in job[c].got :
         IF CanEncrypt(s.ratchet)
         THEN /\ wire' = [wire EXCEPT ![p] = Append(@, Envelope(s))]
              /\ opened' = [opened EXCEPT ![p] = Append(@, 0)]
              /\ rec' = [rec EXCEPT ![p] = {AfterSeal(s)}]
         ELSE UNCHANGED <<wire, opened, rec>>
  BY DEF Seal
<1>2. job' = [job EXCEPT ![c] = Idle] /\ Idle.got = none
  BY DEF Seal, Finish, Idle
<1>3. p \in Party /\ Sound(p, s, Made)
  BY JobOf
<1>4. CASE ~CanEncrypt(s.ratchet)
  <2>1. wire' = wire /\ rec' = rec
    BY <1>1, <1>4
  <2>2. \A u \in Idle.got \union none : \A k \in u.ratchet.sendChain :
           k \in Sends(p) \/ k.root \notin Root(Made)
    BY <1>2
  <2> HIDE DEF none, p
  <2> QED
    BY <1>2, <2>1, <2>2, NothingSealedIn DEF p
<1>5. CASE CanEncrypt(s.ratchet)
  <2> DEFINE t == AfterSeal(s)
             e == Envelope(s)
             k == Sealed(s.ratchet).key
             a == Advance(k, 1)
             n == Len(wire[p]) + 1
  <2>1. /\ wire' = [wire EXCEPT ![p] = Append(wire[p], e)]
        /\ rec' = [rec EXCEPT ![p] = {t}]
    BY <1>1, <1>5
  <2>2. IsRatchetState(s.ratchet, Made)
    BY <1>3 DEF Sound, IsSession
  <2>3. /\ s.ratchet.sendChain = {k} /\ t.ratchet.sendChain = {a}
        /\ a.root = k.root /\ a.n = k.n + 1 /\ k.n \in Nat
    <3>1. t.ratchet = AfterEncrypt(s.ratchet)
      BY <1>3, <1>5, SealSound
    <3> QED
      BY <1>5, <2>2, <3>1, EncryptShape, EncryptStep
  <2>4. e.msg.key = k
    BY DEF Envelope
  <2>5. k \in Sends(p)
    BY <2>3, SendsAre
  <2> HIDE DEF t, e, k, a
  <2>6. /\ \A r \in Party : \A i \in DOMAIN wire'[r] :
              \/ i \in DOMAIN wire[r] /\ wire'[r][i] = wire[r][i]
              \/ r = p /\ i = n /\ wire'[r][i] = e
        /\ n \notin DOMAIN wire[p]
    <3>1. wire[p] \in Seq(Envelopes(p, Made)) /\ DOMAIN wire = Party
      BY <1>3 DEF Typed, TrafficOK
    <3>2. /\ wire'[p] = Append(wire[p], e)
          /\ \A r \in Party : r # p => wire'[r] = wire[r]
      BY <1>3, <2>1, <3>1
    <3>3. \A i \in DOMAIN wire'[p] : \/ i \in DOMAIN wire[p] /\ wire'[p][i] = wire[p][i]
                                     \/ i = n /\ wire'[p][i] = e
      BY <3>1, <3>2
    <3>4. n \notin DOMAIN wire[p]
      BY <3>1
    <3> QED
      BY <3>2, <3>3, <3>4
  <2> HIDE DEF n
  <2>7. \A q \in Party : \A x \in Sends(q)' : (q # p /\ x \in Sends(q)) \/ (q = p /\ x = a)
    <3>1. \A q, x : x \in Sends(q)'
             <=> \/ \E u \in rec'[q] : x \in u.ratchet.sendChain
                 \/ \E d \in Context : Dev(d) = q /\ \E u \in job'[d].got : x \in u.ratchet.sendChain
      BY DEF Sends, Sess
    <3>2. /\ rec'[p] = {t} /\ job'[c].got = none
          /\ \A q \in Party : q # p => rec'[q] = rec[q]
          /\ \A d \in Context : d # c => job'[d] = job[d]
      BY <1>2, <1>3, <2>1 DEF Typed, RecordsOK, JobsOK
    <3>3. \A d \in Context : Dev(d) = p => d = c
      BY OneContext
    <3>4. \A x \in Sends(p)' : x = a
      BY <2>3, <3>1, <3>2, <3>3
    <3>5. ASSUME NEW q \in Party, q # p, NEW x \in Sends(q)'
          PROVE  x \in Sends(q)
      <4>1. \A d \in Context : Dev(d) = q => job'[d] = job[d]
        BY <3>2, <3>5
      <4> QED
        BY <3>1, <3>2, <3>5, <4>1, SendsAre
    <3> QED
      BY <3>4, <3>5
  <2>8. \A q \in Party : \A i \in DOMAIN wire[q] :
           /\ wire[q][i].msg.key.n \in Nat
           /\ q = p => ~Derives(k, wire[q][i].msg.key)
           /\ q # p => wire[q][i].msg.key.root # k.root
    <3>1. \A q \in Party : q # p => q = Peer(p)
      BY <1>3, Peers
    <3> QED
      BY <1>3, <2>5, <3>1, KeysTyped DEF Fresh, SendsAhead, Apart
  <2>9. SendsAhead'
    <3>1. ASSUME NEW i \in DOMAIN wire'[p]
          PROVE  ~Derives(a, wire'[p][i].msg.key)
      <4>1. CASE wire'[p][i] = e
        BY <2>3, <2>4, <4>1 DEF Derives
      <4>2. CASE i \in DOMAIN wire[p] /\ wire'[p][i] = wire[p][i]
        BY <1>3, <2>3, <2>8, <4>2 DEF Derives
      <4> QED
        BY <1>3, <2>6, <4>1, <4>2
    <3>2. ASSUME NEW q \in Party, q # p, NEW x \in Sends(q), NEW i \in DOMAIN wire'[q]
          PROVE  ~Derives(x, wire'[q][i].msg.key)
      BY <2>6, <3>2 DEF Fresh, SendsAhead
    <3> QED
      BY <2>7, <3>1, <3>2 DEF SendsAhead
  <2>10. Apart'
    <3> DEFINE q == Peer(p)
    <3>1. q \in Party /\ q # p /\ Peer(q) = p /\ \A r \in Party : r = p \/ r = q
      BY <1>3, Peers
    <3> HIDE DEF q
    <3>2. /\ \A i \in DOMAIN wire'[q] : wire'[q][i].msg.key.root # a.root
          /\ \A d \in Sends(q)' : d.root # a.root
      <4>1. /\ \A i \in DOMAIN wire[q] : wire[q][i].msg.key.root # k.root
            /\ \A d \in Sends(q) : d.root # k.root
        BY <1>3, <2>5 DEF Fresh, Apart, q
      <4>2. \A d \in Sends(q)' : d \in Sends(q)
        BY <2>7, <3>1
      <4>3. \A i \in DOMAIN wire'[q] : i \in DOMAIN wire[q] /\ wire'[q][i] = wire[q][i]
        BY <2>6, <3>1
      <4> QED
        BY <2>3, <4>1, <4>2, <4>3
    <3>3. ASSUME NEW d \in Sends(q)
          PROVE  \A i \in DOMAIN wire'[p] : wire'[p][i].msg.key.root # d.root
      <4>1. \A i \in DOMAIN wire[p] : wire[p][i].msg.key.root # d.root
        BY <3>1, <3>3 DEF Fresh, Apart
      <4>2. k.root # d.root
        BY <2>5, <3>1, <3>3 DEF Fresh, Apart
      <4> QED
        BY <1>3, <2>4, <2>6, <4>1, <4>2
    <3>4. ASSUME NEW x \in Sends(p)'
          PROVE  /\ \A i \in DOMAIN wire'[q] : wire'[q][i].msg.key.root # x.root
                 /\ \A d \in Sends(q)' : d.root # x.root
      <4>1. x = a
        BY <1>3, <2>7, <3>4
      <4> QED
        BY <3>2, <4>1
    <3>5. ASSUME NEW x \in Sends(q)'
          PROVE  /\ \A i \in DOMAIN wire'[p] : wire'[p][i].msg.key.root # x.root
                 /\ \A d \in Sends(p)' : d.root # x.root
      <4>1. x \in Sends(q)
        BY <2>7, <3>1, <3>5
      <4>2. \A d \in Sends(p)' : d = a
        BY <1>3, <2>7
      <4> QED
        BY <3>2, <3>3, <3>5, <4>1, <4>2
    <3> QED
      BY <3>1, <3>4, <3>5 DEF Apart, q
  <2>11. NoKeyReuse'
    <3>1. ASSUME NEW q \in Party, NEW i \in DOMAIN wire[q]
          PROVE  wire[q][i].msg.key # k
      <4>1. k.n <= k.n
        BY <2>3
      <4> QED
        BY <2>8, <3>1, <4>1 DEF Derives
    <3>2. ASSUME NEW q \in Party, NEW i \in DOMAIN wire'[q],
                 NEW r \in Party, NEW j \in DOMAIN wire'[r],
                 wire'[q][i].msg.key = wire'[r][j].msg.key
          PROVE  q = r /\ i = j
      <4>1. CASE i \in DOMAIN wire[q] /\ wire'[q][i] = wire[q][i]
                 /\ j \in DOMAIN wire[r] /\ wire'[r][j] = wire[r][j]
        BY <3>2, <4>1 DEF Fresh, NoKeyReuse
      <4> QED
        BY <2>4, <2>6, <3>1, <3>2, <4>1
    <3> QED
      BY <3>2 DEF NoKeyReuse
  <2> QED
    BY <2>9, <2>10, <2>11 DEF Fresh
<1> QED
  BY <1>4, <1>5

(***************************************************************************)
(* Every other step seals nothing.                                         *)
(***************************************************************************)
LEMMA BootstrapFresh ==
    ASSUME Typed, Fresh, NEW c \in Context, Bootstrap(c)
    PROVE  Fresh'
<1> DEFINE q == Peer(Dev(c))
<1>1. PICK s, dhSelf :
         /\ rec' = [rec EXCEPT ![Dev(c)] = {s}]
         /\ job' = [job EXCEPT ![c] = [at |-> "seal", got |-> {s}, msg |-> job[c].msg]]
         /\ dhSelf \notin Made /\ dhSelf \in Made'
         /\ \E root \in Root(Made') :
               s.ratchet.sendChain = {FirstChainKey(Append(root, {dhSelf, SpkOf(q)}))}
  BY BootstrapTyped
<1>2. PICK root \in Root(Made') :
         s.ratchet.sendChain = {FirstChainKey(Append(root, {dhSelf, SpkOf(q)}))}
  BY <1>1
<1>3. {dhSelf, SpkOf(q)} \in SUBSET Made'
  <2>1. q \in Party /\ Made \subseteq Made'
    BY JobOf, BootstrapTyped
  <2>2. SpkOf(q) \in Made
    BY <2>1, MadeHolds DEF Typed
  <2> QED
    BY <1>1, <2>1, <2>2
<1>4. Append(root, {dhSelf, SpkOf(q)}) \notin Root(Made)
  BY <1>1, <1>2, <1>3, FreshRoot
<1>5. \A k \in s.ratchet.sendChain : k.root \notin Root(Made)
  <2> DEFINE r == Append(root, {dhSelf, SpkOf(q)})
  <2>1. s.ratchet.sendChain = {FirstChainKey(r)} /\ r \notin Root(Made)
    BY <1>2, <1>4
  <2> HIDE DEF r
  <2>2. FirstChainKey(r).root = r
    BY DEF FirstChainKey
  <2> QED
    BY <2>1, <2>2
<1> DEFINE R == {s}
           j == [at |-> "seal", got |-> R, msg |-> job[c].msg]
<1>6. wire' = wire /\ rec' = [rec EXCEPT ![Dev(c)] = R] /\ job' = [job EXCEPT ![c] = j]
  BY <1>1 DEF Bootstrap
<1>7. \A u \in j.got \union R : \A k \in u.ratchet.sendChain :
         k \in Sends(Dev(c)) \/ k.root \notin Root(Made)
  BY <1>5
<1> HIDE DEF R, j
<1> QED
  BY <1>6, <1>7, NothingSealedIn

LEMMA OpenFresh ==
    ASSUME Typed, Fresh, NEW c \in Context, Open(c)
    PROVE  Fresh'
<1> DEFINE none == {}
<1>1. wire' = wire /\ job' = [job EXCEPT ![c] = Idle] /\ Idle.got = none
  BY DEF Open, Finish, Idle
<1>2. CASE rec' = rec
  <2>1. \A u \in Idle.got \union none : \A k \in u.ratchet.sendChain :
           k \in Sends(Dev(c)) \/ k.root \notin Root(Made)
    BY <1>1
  <2> HIDE DEF none
  <2> QED
    BY <1>1, <1>2, <2>1, NothingSealedIn
<1>3. ASSUME NEW s \in job[c].got, NEW t,
             rec' = [rec EXCEPT ![Dev(c)] = {t}],
             \/ t.ratchet.sendChain = s.ratchet.sendChain
             \/ \A k \in t.ratchet.sendChain : k.root \notin Root(Made)
      PROVE  Fresh'
  <2> DEFINE R == {t}
  <2>1. \A k \in s.ratchet.sendChain : k \in Sends(Dev(c))
    BY SendsAre
  <2>2. \A u \in Idle.got \union R : \A k \in u.ratchet.sendChain :
           k \in Sends(Dev(c)) \/ k.root \notin Root(Made)
    BY <1>1, <1>3, <2>1
  <2>3. rec' = [rec EXCEPT ![Dev(c)] = R]
    BY <1>3
  <2> HIDE DEF R
  <2> QED
    BY <1>1, <2>2, <2>3, NothingSealedIn
<1> QED
  BY <1>2, <1>3, OpenTyped

LEMMA AcceptFresh ==
    ASSUME Typed, Fresh, NEW c \in Context, Accept(c)
    PROVE  Fresh'
<1> DEFINE none == {}
<1>1. PICK phase : job' = [job EXCEPT ![c] = [at |-> phase, got |-> {}, msg |-> job[c].msg]]
  BY AcceptTyped
<1> DEFINE j == [at |-> phase, got |-> none, msg |-> job[c].msg]
<1>2. wire' = wire /\ job' = [job EXCEPT ![c] = j] /\ j.got = none
  BY <1>1 DEF Accept
<1> HIDE DEF j
<1>3. CASE rec' = rec
  <2>1. \A u \in j.got \union none : \A k \in u.ratchet.sendChain :
           k \in Sends(Dev(c)) \/ k.root \notin Root(Made)
    BY <1>2
  <2> HIDE DEF none
  <2> QED
    BY <1>2, <1>3, <2>1, NothingSealedIn
<1>4. ASSUME NEW t, rec' = [rec EXCEPT ![Dev(c)] = {t}], t.ratchet.sendChain = {}
      PROVE  Fresh'
  <2> DEFINE R == {t}
  <2>1. \A u \in j.got \union R : \A k \in u.ratchet.sendChain :
           k \in Sends(Dev(c)) \/ k.root \notin Root(Made)
    BY <1>2, <1>4
  <2>2. rec' = [rec EXCEPT ![Dev(c)] = R]
    BY <1>4
  <2> HIDE DEF R
  <2> QED
    BY <1>2, <2>1, <2>2, NothingSealedIn
<1> QED
  BY <1>3, <1>4, AcceptTyped

\* A call that loads the record, or gives up what it has loaded.
LEMMA LoadedFresh ==
    ASSUME Typed, Fresh, wire' = wire, rec' = rec, NEW c \in Context,
           NEW j, job' = [job EXCEPT ![c] = j], j.got = {} \/ j.got = rec[Dev(c)]
    PROVE  Fresh'
<1> DEFINE R == {}
<1>1. \A s \in rec[Dev(c)] : \A k \in s.ratchet.sendChain : k \in Sends(Dev(c))
  BY SendsAre
<1>2. \A u \in j.got \union R : \A k \in u.ratchet.sendChain :
         k \in Sends(Dev(c)) \/ k.root \notin Root(Made)
  BY <1>1
<1> HIDE DEF R
<1> QED
  BY <1>2, NothingSealedIn

\* The phases of a call that write neither the record nor the traffic.
Passes(c, i) ==
    StartSend(c) \/ StartReceive(c, i) \/ Burn(c) \/ Load(c) \/ FetchFails(c) \/ Abandon(c)

LEMMA CallLoads ==
    ASSUME NEW c \in Context, NEW i, Passes(c, i)
    PROVE  /\ UNCHANGED <<wire, past, rec>>
           /\ \E j : job' = [job EXCEPT ![c] = j] /\ (j.got = {} \/ j.got = rec[Dev(c)])
<1> DEFINE none == {}
           Got(phase, got, msg) == [at |-> phase, got |-> got, msg |-> msg]
<1>1. UNCHANGED <<wire, past, rec>>
  BY DEF Passes, StartSend, StartReceive, Burn, Load, FetchFails, Abandon
<1>2. \A phase, got, msg : Got(phase, got, msg).got = got
  OBVIOUS
<1>3. Idle.got = none
  BY DEF Idle
<1>4. \E j : job' = [job EXCEPT ![c] = j] /\ (j.got = none \/ j.got = rec[Dev(c)])
  <2>1. CASE StartSend(c)
    <3>1. PICK phase : job' = [job EXCEPT ![c] = Got(phase, rec[Dev(c)], job[c].msg)]
      BY <2>1 DEF StartSend, Goto
    <3> DEFINE j == Got(phase, rec[Dev(c)], job[c].msg)
    <3>2. job' = [job EXCEPT ![c] = j] /\ j.got = rec[Dev(c)]
      BY <3>1
    <3> HIDE DEF j
    <3> QED
      BY <3>2
  <2>2. CASE StartReceive(c, i)
    <3> DEFINE plain == wire[Peer(Dev(c))][i].init = {}
    <3> DEFINE got == IF plain THEN none ELSE rec[Dev(c)]
               j == Got(IF plain THEN "load" ELSE "accept", got, i)
    <3>1. job' = [job EXCEPT ![c] = j] /\ j.got = got
      BY <2>2 DEF StartReceive
    <3>2. got = none \/ got = rec[Dev(c)]
      OBVIOUS
    <3> HIDE DEF j, got
    <3> QED
      BY <3>1, <3>2
  <2>3. CASE Burn(c) \/ FetchFails(c)
    <3>1. job' = [job EXCEPT ![c] = Got("load", none, job[c].msg)]
      BY <2>3 DEF Burn, FetchFails, Goto
    <3> HIDE DEF Got
    <3> QED
      BY <1>2, <3>1
  <2>4. CASE Load(c)
    <3>1. \/ job' = [job EXCEPT ![c] = Idle]
          \/ job' = [job EXCEPT ![c] = Got("open", rec[Dev(c)], job[c].msg)]
      BY <2>4 DEF Load, Goto, Finish
    <3> HIDE DEF Got
    <3> QED
      BY <1>2, <1>3, <3>1
  <2>5. CASE Abandon(c)
    BY <1>3, <2>5 DEF Abandon, Finish
  <2> QED
    BY <2>1, <2>2, <2>3, <2>4, <2>5 DEF Passes
<1> QED
  BY <1>1, <1>4

LEMMA CallFresh ==
    ASSUME Typed, Fresh, NEW c \in Context, NEW i, Passes(c, i)
    PROVE  Fresh'
BY CallLoads, LoadedFresh

\* What does not touch the copies, and a reset, which removes one.
LEMMA ClearFresh ==
    ASSUME Typed, Fresh, wire' = wire, job' = job,
           rec' = rec \/ \E p \in Party : rec' = [rec EXCEPT ![p] = {}]
    PROVE  Fresh'
<1>1. \A q \in Party : rec'[q] = rec[q] \/ rec'[q] = {}
  BY DEF Typed, RecordsOK
<1>2. \A q \in Party : \A k \in Sends(q)' : k \in Sends(q)
  <2>1. \A q, k : k \in Sends(q)'
           <=> \/ \E s \in rec'[q] : k \in s.ratchet.sendChain
               \/ \E d \in Context : Dev(d) = q /\ \E s \in job'[d].got : k \in s.ratchet.sendChain
    BY DEF Sends, Sess
  <2> QED
    BY <1>1, <2>1, SendsAre
<1>3. PICK p : p \in Party
  BY SessionAssumption
<1> QED
  BY <1>2, <1>3, NothingSealed

LEMMA InitFresh == Init => Fresh
<1> SUFFICES ASSUME Init PROVE Fresh
  OBVIOUS
<1>1. \A p \in Party : Peer(p) \in Party /\ DOMAIN wire[p] = {}
  BY Peers DEF Init
<1>2. \A p \in Party : Sends(p) = {}
  BY SendsAre DEF Init, Idle
<1> QED
  BY <1>1, <1>2 DEF Fresh, SendsAhead, Apart, NoKeyReuse

LEMMA StepFresh ==
    ASSUME OneTab
    PROVE  Typed /\ Fresh /\ [Next]_vars => Fresh'
<1> SUFFICES ASSUME Typed, Fresh, [Next]_vars PROVE Fresh'
  OBVIOUS
<1>1. ASSUME NEW c \in Context, Step(c) PROVE Fresh'
  BY <1>1, CallFresh, BootstrapFresh, SealFresh, AcceptFresh, OpenFresh DEF Step, Passes
<1>2. ASSUME NEW c \in Context, FetchFails(c) \/ Abandon(c) PROVE Fresh'
  BY <1>2, CallFresh DEF Passes
<1>3. ASSUME NEW c \in Context, NEW i \in 1..MaxMsgs, StartReceive(c, i) PROVE Fresh'
  BY <1>3, CallFresh DEF Passes
<1>4. ASSUME NEW p \in Party, NEW i, Clear(p) \/ Lose(p, i) PROVE Fresh'
  <2>1. wire' = wire /\ job' = job /\ (rec' = rec \/ rec' = [rec EXCEPT ![p] = {}])
    BY <1>4 DEF Clear, Lose
  <2> QED
    BY <2>1, ClearFresh
<1>5. CASE UNCHANGED vars
  BY <1>5, ClearFresh DEF vars
<1> QED
  BY <1>1, <1>2, <1>3, <1>4, <1>5 DEF Next

\* encryptForPeer never seals two messages with one key, across handshakes, resets
\* that run beside a call, superseded sessions and glare, whatever the network does,
\* while a device runs one tab.
THEOREM KeysNotReused == ASSUME OneTab PROVE Spec => []NoKeyReuse
<1>1. Typed /\ Fresh /\ [Next]_vars => Fresh'
  BY StepFresh
<1>2. Fresh => NoKeyReuse
  BY DEF Fresh
<1> QED
  BY <1>1, <1>2, InitFresh, TypedHolds, PTL DEF Spec

----------------------------------------------------------------------------
(* A one-time prekey seeds one session.                                     *)

\* The one-time prekeys an accepted handshake used are in the ledger, or the call
\* that accepted it is about to put them there.
Burning(p, k) ==
    \E c \in Context : Dev(c) = p /\ At(c, "burn") /\ \E i \in Incoming(c).init : k \in i.otp

SeedsSpent ==
    faults = 0 =>
        \A p \in Party : \A j \in DOMAIN accepted[p] : \A k \in 1..Otps :
            OtpOf(p, k) \in accepted[p][j] => k \in consumed[p] \/ Burning(p, k)

Seeded == faults \in Nat /\ SeedsSpent /\ OtpOnce

(***************************************************************************)
(* What x3dh mixes in of the responder's one-time prekeys.                 *)
(***************************************************************************)
LEMMA OtpsOf ==
    ASSUME NEW p, NEW eph, eph[1] # p, NEW otp, NEW k \in Nat \ {0}, NEW responder
    PROVE  /\ OtpOf(p, k) \in x3dh(eph, p, otp) => k \in otp
BY DEF x3dh, SpkOf, OtpOf

(***************************************************************************)
(* No handshake is accepted: what a call was about to burn is burnt, or    *)
(* still to be burnt, or the call was cut short.                           *)
(***************************************************************************)
LEMMA NoneAccepted ==
    ASSUME Seeded, accepted' = accepted, faults' \in Nat,
           faults' = 0 => faults = 0,
           \A p \in Party : consumed[p] \subseteq consumed'[p],
           faults' = 0 => \A p \in Party : \A k : Burning(p, k) =>
                             k \in consumed'[p] \/ Burning(p, k)'
    PROVE  Seeded'
<1>1. SeedsSpent'
  <2> SUFFICES ASSUME faults' = 0, NEW p \in Party, NEW j \in DOMAIN accepted[p],
                      NEW k \in 1..Otps, OtpOf(p, k) \in accepted[p][j]
               PROVE  k \in consumed'[p] \/ Burning(p, k)'
    BY DEF SeedsSpent
  <2>1. k \in consumed[p] \/ Burning(p, k)
    BY DEF Seeded, SeedsSpent
  <2> QED
    BY <2>1
<1>2. OtpOnce'
  BY DEF Seeded, OtpOnce
<1> QED
  BY <1>1, <1>2 DEF Seeded

\* A job that is not burning before the step or not touched by it keeps burning.
LEMMA KeepsBurning ==
    ASSUME Typed, Seeded, accepted' = accepted, consumed' = consumed, faults' = faults,
           \A c \in Context : At(c, "burn") => job'[c] = job[c] /\ Incoming(c)' = Incoming(c)
    PROVE  Seeded'
<1>1. \A p \in Party : \A k : Burning(p, k) => Burning(p, k)'
  BY DEF Burning, At
<1> QED
  BY <1>1, NoneAccepted DEF Seeded

(***************************************************************************)
(* acceptIncomingInit: the ledger has none of the handshake's prekeys, and *)
(* no other call is about to burn them.                                    *)
(***************************************************************************)
LEMMA AcceptSeeded ==
    ASSUME OneTab, Typed, Seeded, NEW c \in Context, Accept(c)
    PROVE  Seeded'
<1> DEFINE p == Dev(c)
           existing == job[c].got
<1>1. PICK init \in Incoming(c).init :
         IF KeepsExisting(existing, init) \/ ~OtpUsable(p, init.otp)
         THEN /\ Goto(c, "load", {})
              /\ UNCHANGED <<rec, accepted>>
         ELSE /\ rec' = [rec EXCEPT ![p] = {Accepted(p, init, existing)}]
              /\ accepted' = [accepted EXCEPT ![p] =
                                Append(@, x3dh(init.eph, p, init.otp))]
              /\ Goto(c, IF init.otp = {} THEN "load" ELSE "burn", {})
  BY DEF Accept
<1>2. /\ UNCHANGED <<keys, nextKey, wire, lost, clears, faults, opened>>
      /\ job[c].at = "accept"
  BY DEF Accept, At
<1>3. DOMAIN job = Context
  BY DEF Typed, JobsOK
<1>4. \A d \in Context : d # c => job'[d] = job[d] /\ Incoming(d)' = Incoming(d)
  BY <1>1, <1>2, <1>3 DEF Goto, Incoming
<1>5. CASE KeepsExisting(existing, init) \/ ~OtpUsable(p, init.otp)
  <2>1. accepted' = accepted
    BY <1>1, <1>5
  <2>2. \A d \in Context : At(d, "burn") => d # c
    BY <1>2 DEF At
  <2> QED
    BY <1>2, <1>4, <2>1, <2>2, KeepsBurning DEF keys
<1>6. CASE ~KeepsExisting(existing, init) /\ OtpUsable(p, init.otp)
  <2> DEFINE secret == x3dh(init.eph, p, init.otp)
             n == Len(accepted[p]) + 1
  <2>1. accepted' = [accepted EXCEPT ![p] = Append(accepted[p], secret)]
    BY <1>1, <1>6
  <2>2. p \in Party /\ init.eph[1] # p /\ init.otp \subseteq 1..Otps
    <3>1. p \in Party /\ Peer(p) # p /\ Incoming(c) \in Envelopes(Peer(p), Made)
      BY <1>2, JobOf DEF Receiving
    <3>2. init \in InitPayloads(Made) /\ init.eph[1] = Peer(p)
      BY <3>1 DEF Envelopes, Ephemeral
    <3> QED
      BY <3>1, <3>2 DEF InitPayloads
  <2>3. \A k \in 1..Otps : OtpOf(p, k) \in secret => k \in init.otp
    <3>1. \A k \in 1..Otps : k \in Nat \ {0}
      BY Bounds
    <3> QED
      BY <2>2, <3>1, OtpsOf
  <2> HIDE DEF secret
  <2>4. /\ \A q \in Party : \A j \in DOMAIN accepted'[q] :
              \/ j \in DOMAIN accepted[q] /\ accepted'[q][j] = accepted[q][j]
              \/ q = p /\ j = n /\ accepted'[q][j] = secret
    <3>1. accepted \in [Party -> Seq(SUBSET Made)]
      BY DEF Typed
    <3>2. /\ accepted[p] \in Seq(SUBSET Made) /\ accepted'[p] = Append(accepted[p], secret)
          /\ \A q \in Party : q # p => accepted'[q] = accepted[q]
      BY <2>1, <2>2, <3>1
    <3>3. \A j \in DOMAIN accepted'[p] :
             \/ j \in DOMAIN accepted[p] /\ accepted'[p][j] = accepted[p][j]
             \/ j = n /\ accepted'[p][j] = secret
      BY <3>2
    <3> QED
      BY <3>2, <3>3
  <2> HIDE DEF n
  <2>5. \A k : ~Burning(p, k)
    <3>1. \A d \in Context : Dev(d) = p => d = c
      BY OneContext
    <3> QED
      BY <1>2, <3>1 DEF Burning, At
  <2>6. ASSUME faults = 0, NEW j \in DOMAIN accepted[p], NEW k \in 1..Otps,
               OtpOf(p, k) \in accepted[p][j], OtpOf(p, k) \in secret
        PROVE  FALSE
    <3>1. k \in consumed[p]
      BY <2>2, <2>5, <2>6 DEF Seeded, SeedsSpent
    <3>2. k \in init.otp
      BY <2>3, <2>6
    <3> QED
      BY <1>6, <3>1, <3>2 DEF OtpUsable
  <2>7. \A k \in init.otp : Burning(p, k)'
    <3> SUFFICES ASSUME NEW k \in init.otp PROVE Burning(p, k)'
      OBVIOUS
    <3>1. job'[c].at = "burn" /\ job'[c].msg = job[c].msg
      <4>1. job' = [job EXCEPT ![c] = [at |-> "burn", got |-> {}, msg |-> job[c].msg]]
        BY <1>1, <1>6 DEF Goto
      <4> QED
        BY <1>3, <4>1
    <3>2. Incoming(c)' = Incoming(c)
      BY <1>2, <3>1 DEF Incoming
    <3> QED
      BY <3>1, <3>2 DEF Burning, At
  <2>8. SeedsSpent'
    <3>0. faults' = faults /\ consumed' = consumed
      BY <1>2 DEF keys
    <3> SUFFICES ASSUME faults = 0, NEW q \in Party, NEW j \in DOMAIN accepted'[q],
                        NEW k \in 1..Otps, OtpOf(q, k) \in accepted'[q][j]
                 PROVE  k \in consumed[q] \/ Burning(q, k)'
      BY <3>0 DEF SeedsSpent
    <3>1. CASE j \in DOMAIN accepted[q] /\ accepted'[q][j] = accepted[q][j]
      <4>1. k \in consumed[q] \/ Burning(q, k)
        BY <3>1 DEF Seeded, SeedsSpent
      <4>2. CASE q = p
        BY <2>5, <4>1, <4>2
      <4>3. CASE q # p
        <5>1. \A d \in Context : Dev(d) = q => job'[d] = job[d] /\ Incoming(d)' = Incoming(d)
          BY <1>4, <4>3
        <5> QED
          BY <4>1, <5>1 DEF Burning, At
      <4> QED
        BY <4>2, <4>3
    <3>2. CASE q = p /\ accepted'[q][j] = secret
      BY <2>3, <2>7, <3>2
    <3> QED
      BY <2>4, <3>1, <3>2
  <2>9. OtpOnce'
    <3>0. faults' = faults
      BY <1>2
    <3> SUFFICES ASSUME NEW q \in Party, NEW i \in DOMAIN accepted'[q],
                        NEW j \in DOMAIN accepted'[q], accepted'[q][i] = accepted'[q][j],
                        NEW k \in 1..Otps, OtpOf(q, k) \in accepted'[q][i], faults = 0
                 PROVE  i = j
      BY <3>0 DEF OtpOnce
    <3>1. CASE /\ i \in DOMAIN accepted[q] /\ accepted'[q][i] = accepted[q][i]
               /\ j \in DOMAIN accepted[q] /\ accepted'[q][j] = accepted[q][j]
      <4>1. accepted[q][i] \intersect {OtpOf(q, x) : x \in 1..Otps} # {}
        BY <3>1
      <4> QED
        BY <3>1, <4>1 DEF Seeded, OtpOnce
    <3> QED
      BY <2>4, <2>6, <3>1
  <2> QED
    BY <1>2, <2>8, <2>9 DEF Seeded
<1> QED
  BY <1>5, <1>6

(***************************************************************************)
(* markOtpConsumed: what was to be burnt is in the ledger.                 *)
(***************************************************************************)
LEMMA BurnSeeded ==
    ASSUME Typed, Seeded, NEW c \in Context, Burn(c)
    PROVE  Seeded'
<1> DEFINE p == Dev(c)
<1>1. PICK init \in Incoming(c).init :
         /\ consumed' = [consumed EXCEPT ![p] = @ \union init.otp]
         /\ otpPriv' = [otpPriv EXCEPT ![p] = @ \ init.otp]
  BY DEF Burn
<1>2. /\ job[c].at = "burn"
      /\ job' = [job EXCEPT ![c] = [at |-> "load", got |-> {}, msg |-> job[c].msg]]
      /\ UNCHANGED <<rec, pool, nextKey, wire, lost, clears, faults, past>>
  BY DEF Burn, At, Goto
<1>3. p \in Party /\ \A i \in Incoming(c).init : i = init
  <2>1. p \in Party /\ Incoming(c) \in Envelopes(Peer(p), Made)
    BY <1>2, JobOf DEF Receiving
  <2> QED
    BY <2>1 DEF Envelopes, OneOf
<1>4. /\ \A q \in Party : consumed[q] \subseteq consumed'[q]
      /\ init.otp \subseteq consumed'[p]
  BY <1>1, <1>3 DEF Typed, PrekeysOK
<1>5. \A d \in Context : d # c => job'[d] = job[d] /\ Incoming(d)' = Incoming(d)
  BY <1>2 DEF Typed, JobsOK, Incoming
<1>6. ASSUME NEW q \in Party, NEW k, Burning(q, k)
      PROVE  k \in consumed'[q] \/ Burning(q, k)'
  <2>1. PICK d \in Context : Dev(d) = q /\ At(d, "burn") /\ \E i \in Incoming(d).init : k \in i.otp
    BY <1>6 DEF Burning
  <2>2. CASE d = c
    BY <1>3, <1>4, <2>1, <2>2
  <2>3. CASE d # c
    BY <1>5, <2>1, <2>3 DEF Burning, At
  <2> QED
    BY <2>2, <2>3
<1>7. accepted' = accepted /\ faults' = faults
  BY <1>2 DEF past
<1> QED
  BY <1>4, <1>6, <1>7, NoneAccepted DEF Seeded

\* Calls that are cut short count as faults.
LEMMA FaultSeeded ==
    ASSUME Typed, Seeded, NEW c \in Context, FetchFails(c) \/ Abandon(c)
    PROVE  Seeded'
<1>1. accepted' = accepted /\ consumed' = consumed /\ faults' = faults + 1
  BY DEF FetchFails, Abandon, keys, past
<1>2. faults' \in Nat /\ faults' # 0
  BY <1>1 DEF Seeded
<1> QED
  BY <1>1, <1>2, NoneAccepted

\* Every other step of a call leaves what is burning alone.
LEMMA CallSeeded ==
    ASSUME Typed, Seeded, NEW c \in Context, NEW i,
           \/ StartSend(c) \/ StartReceive(c, i) \/ Bootstrap(c)
           \/ Seal(c) \/ Load(c) \/ Open(c)
    PROVE  Seeded'
<1>1. accepted' = accepted /\ consumed' = consumed /\ faults' = faults
  BY DEF StartSend, StartReceive, Bootstrap, Seal, Load, Open, keys, past
<1>2. job[c].at # "burn" /\ \E j : job' = [job EXCEPT ![c] = j]
  BY DEF StartSend, StartReceive, Bootstrap, Seal, Load, Open, At, Goto, Finish
<1>3. \A d \in Context : At(d, "burn") => job'[d] = job[d]
  BY <1>2 DEF Typed, JobsOK, At
<1>4. ASSUME NEW d \in Context, At(d, "burn")
      PROVE  Incoming(d)' = Incoming(d)
  <2> DEFINE q == Peer(Dev(d))
  <2>1. q \in Party /\ job[d].msg \in DOMAIN wire[q]
    BY <1>4, JobOf DEF At, Receiving
  <2> HIDE DEF q
  <2>2. CASE wire' = wire
    BY <1>3, <1>4, <2>2 DEF Incoming
  <2>3. CASE wire' # wire
    <3>1. \E e : wire' = [wire EXCEPT ![Dev(c)] = Append(wire[Dev(c)], e)]
      BY <2>3 DEF StartSend, StartReceive, Bootstrap, Seal, Load, Open
    <3>2. wire[q] \in Seq(Envelopes(q, Made)) /\ DOMAIN wire = Party
      BY <2>1 DEF Typed, TrafficOK
    <3>3. wire'[q][job[d].msg] = wire[q][job[d].msg]
      BY <2>1, <3>1, <3>2
    <3> QED
      BY <1>3, <1>4, <3>3 DEF Incoming, q
  <2> QED
    BY <2>2, <2>3
<1> QED
  BY <1>1, <1>3, <1>4, KeepsBurning

LEMMA InitSeeded == Init => Seeded
<1> SUFFICES ASSUME Init PROVE Seeded
  OBVIOUS
<1>1. faults = 0 /\ \A p \in Party : DOMAIN accepted[p] = {}
  BY DEF Init
<1> QED
  BY <1>1 DEF Seeded, SeedsSpent, OtpOnce

LEMMA StepSeeded ==
    ASSUME OneTab
    PROVE  Typed /\ Seeded /\ [Next]_vars => Seeded'
<1> SUFFICES ASSUME Typed, Seeded, [Next]_vars PROVE Seeded'
  OBVIOUS
<1>1. ASSUME NEW c \in Context, Step(c) PROVE Seeded'
  BY <1>1, CallSeeded, AcceptSeeded, BurnSeeded DEF Step
<1>2. ASSUME NEW c \in Context, FetchFails(c) \/ Abandon(c) PROVE Seeded'
  BY <1>2, FaultSeeded
<1>3. ASSUME NEW c \in Context, NEW i \in 1..MaxMsgs, StartReceive(c, i) PROVE Seeded'
  BY <1>3, CallSeeded
<1>4. CASE UNCHANGED <<job, wire, accepted, consumed, faults>>
  BY <1>4, KeepsBurning DEF Incoming
<1>5. ASSUME NEW p \in Party, NEW i, Clear(p) \/ Lose(p, i) PROVE Seeded'
  BY <1>4, <1>5 DEF Clear, Lose, keys, past
<1>6. CASE UNCHANGED vars
  BY <1>4, <1>6 DEF vars, keys, past
<1> QED
  BY <1>1, <1>2, <1>3, <1>5, <1>6 DEF Next

\* acceptIncomingInit seeds one session with a one-time prekey: the ledger is asked
\* before a handshake is run and written before the lock is let go, so with one tab
\* a device only a call cut short in between can let a prekey serve again.
THEOREM OtpSeedsOnce == ASSUME OneTab PROVE Spec => []OtpOnce
<1>1. Typed /\ Seeded /\ [Next]_vars => Seeded'
  BY StepSeeded
<1>2. Seeded => OtpOnce
  BY DEF Seeded
<1> QED
  BY <1>1, <1>2, InitSeeded, TypedHolds, PTL DEF Spec

----------------------------------------------------------------------------
(***************************************************************************)
(* A ratchet and its handshake.                                            *)
(***************************************************************************)
(* One ratchet, one handshake: every root a ratchet holds goes back to the  *)
(* secret it was set up with.                                               *)
Under(root, h) == root # <<>> /\ root[1] = h

Rooted(s, h) ==
    /\ Under(s.rootKey, h)
    /\ \A c \in s.recvChain : Under(c.root, h)
    /\ \A c \in s.sendChain : c.root = s.rootKey
    /\ \A r \in DOMAIN s.skipped : \A c \in DOMAIN s.skipped[r] : Under(s.skipped[r][c].root, h)

LEMMA UnderAppend ==
    ASSUME NEW S, NEW root \in Seq(S), NEW h, Under(root, h), NEW x
    PROVE  Under(Append(root, x), h)
<1>1. Len(root) \in Nat /\ Len(root) > 0
  BY DEF Under
<1>2. Append(root, x) # <<>> /\ Append(root, x)[1] = root[1]
  BY <1>1
<1> QED
  BY <1>2 DEF Under

LEMMA CacheRooted ==
    ASSUME NEW K, NEW s, IsRatchetState(s, K), NEW remote \in K, NEW upTo \in Nat,
           NEW h, Rooted(s, h)
    PROVE  Rooted(cacheSkipped(s, remote, upTo), h)
<1> DEFINE t == cacheSkipped(s, remote, upTo)
<1>1. SameOtherwise(s, t) /\ (t = s \/ \E k \in s.recvChain : CachedTo(s, t, remote, upTo, k))
  BY CacheStep
<1> HIDE DEF t
<1>2. CASE t = s
  BY <1>2 DEF t
<1>3. ASSUME NEW k \in s.recvChain, CachedTo(s, t, remote, upTo, k)
      PROVE  Rooted(t, h)
  <2>1. k \in ChainKey(K) /\ s.recvCounter \in Nat
    BY DEF IsRatchetState, Fields
  <2>2. \A n \in Nat : Advance(k, n).root = k.root
    BY <2>1, AdvanceShape
  <2>3. \A c \in s.recvCounter .. (upTo - 1) : c - s.recvCounter \in Nat
    BY <2>1
  <2>4. upTo - s.recvCounter \in Nat
    BY <1>3, <2>1 DEF CachedTo
  <2>5. Under(k.root, h)
    BY DEF Rooted
  <2>6. \A c \in t.recvChain : Under(c.root, h)
    BY <1>3, <2>2, <2>4, <2>5 DEF CachedTo
  <2>7. ASSUME NEW r \in DOMAIN t.skipped, NEW c \in DOMAIN t.skipped[r]
        PROVE  Under(t.skipped[r][c].root, h)
    <3>1. \/ /\ r \in DOMAIN s.skipped /\ c \in DOMAIN s.skipped[r]
             /\ t.skipped[r][c] = s.skipped[r][c]
          \/ /\ c \in s.recvCounter .. (upTo - 1)
             /\ t.skipped[r][c] = Advance(k, c - s.recvCounter)
      BY <1>3 DEF CachedTo
    <3> QED
      BY <2>2, <2>3, <2>5, <3>1 DEF Rooted
  <2> QED
    BY <1>1, <2>6, <2>7 DEF Rooted, SameOtherwise
<1> QED
  BY <1>1, <1>2, <1>3 DEF t

LEMMA TakeRooted ==
    ASSUME NEW K, NEW s, IsRatchetState(s, K), NEW h, Rooted(s, h)
    PROVE  Rooted(HeadTaken(s), h)
<1> DEFINE t == HeadTaken(s)
           next == {Advance(c, 1) : c \in s.recvChain}
<1>1. /\ t.recvChain = next /\ t.rootKey = s.rootKey
      /\ t.sendChain = s.sendChain /\ t.skipped = s.skipped
  BY DEF HeadTaken, IsRatchetState, Fields
<1>2. \A c \in next : Under(c.root, h)
  <2>1. \A c \in s.recvChain : c \in ChainKey(K)
    BY DEF IsRatchetState, Fields
  <2>2. \A c \in s.recvChain : Advance(c, 1).root = c.root
    BY <2>1, AdvanceShape
  <2> QED
    BY <2>2 DEF Rooted
<1> HIDE DEF t, next
<1>3. Rooted(t, h)
  BY <1>1, <1>2 DEF Rooted
<1> QED
  BY <1>3 DEF t

LEMMA DhRooted ==
    ASSUME NEW K, NEW s, IsRatchetState(s, K), NEW newRemote \in K, NEW fresh \in K,
           NEW h, Rooted(s, h)
    PROVE  Rooted(dhRatchetStep(s, newRemote, fresh), h)
<1> DEFINE t == dhRatchetStep(s, newRemote, fresh)
           recv == RecvRoot(s, newRemote)
           send == Append(recv, {fresh, newRemote})
<1>1. Stepped(s, t, newRemote, fresh)
  BY DhStep
<1>2. s.rootKey \in Seq(SUBSET K) /\ s.dhSelf \in K
  BY DEF IsRatchetState, Fields, Root
<1>3. recv \in Seq(SUBSET K) /\ Under(recv, h)
  <2>1. Under(s.rootKey, h)
    BY DEF Rooted
  <2> QED
    BY <1>2, <2>1, UnderAppend DEF RecvRoot
<1>4. Under(send, h)
  <2> HIDE DEF recv
  <2> QED
    BY <1>3, UnderAppend
<1> HIDE DEF t, recv
<1>5. FirstChainKey(recv).root = recv /\ FirstChainKey(send).root = send
  BY DEF FirstChainKey
<1>6. /\ t.recvChain = {FirstChainKey(recv)} /\ t.rootKey = send
      /\ t.sendChain = {FirstChainKey(send)} /\ t.skipped = s.skipped
  BY <1>1 DEF Stepped, recv
<1> HIDE DEF send
<1>7. Rooted(t, h)
  BY <1>3, <1>4, <1>5, <1>6 DEF Rooted
<1> QED
  BY <1>7 DEF t

(***************************************************************************)
(* A ratchet opens messages of its own handshake and stays with it.        *)
(***************************************************************************)
LEMMA DecryptRooted ==
    ASSUME NEW K, NEW s, IsRatchetState(s, K), NEW h, Rooted(s, h),
           NEW m \in Message(K), NEW fresh \in K, Opens(s, m, fresh)
    PROVE  Under(m.key.root, h) /\ Rooted(AfterDecrypt(s, m, fresh), h)
<1> DEFINE hd == m.header
           c == IF s.dhRemote = NoPub THEN s ELSE cacheSkipped(s, s.dhRemote, hd.prevN)
           v == Turned(s, hd, fresh)
           u == cacheSkipped(v, hd.dhPub, hd.counter)
           t == AfterDecrypt(s, m, fresh)
<1>0. hd.dhPub \in K /\ hd.counter \in Nat /\ hd.prevN \in Nat
  BY DEF Message
<1>1. CASE HasSkipped(s, hd)
  <2>1. t = DropSkipped(s, hd) /\ s.skipped[hd.dhPub][hd.counter] = m.key
    BY <1>1 DEF AfterDecrypt, Opens
  <2>2. Under(m.key.root, h)
    BY <1>1, <2>1 DEF HasSkipped, Rooted
  <2>3. /\ SameOtherwise(s, t) /\ t.recvChain = s.recvChain
        /\ \A r \in DOMAIN t.skipped : \A n \in DOMAIN t.skipped[r] :
              /\ r \in DOMAIN s.skipped /\ n \in DOMAIN s.skipped[r]
              /\ t.skipped[r][n] = s.skipped[r][n]
    BY <1>1, <2>1, DropStep
  <2> HIDE DEF t
  <2>4. Rooted(t, h)
    BY <2>3 DEF Rooted, SameOtherwise
  <2> QED
    BY <2>2, <2>4 DEF t
<1>2. CASE ~HasSkipped(s, hd)
  <2>1. t = HeadTaken(u) /\ m.key \in u.recvChain
    BY <1>2 DEF AfterDecrypt, Opens, MessageKey
  <2>2. IsRatchetState(v, K) /\ Rooted(v, h)
    <3>1. CASE hd.dhPub = s.dhRemote
      BY <3>1 DEF Turned
    <3>2. CASE hd.dhPub # s.dhRemote
      <4>1. IsRatchetState(c, K) /\ Rooted(c, h)
        <5>1. CASE s.dhRemote = NoPub
          BY <5>1
        <5>2. CASE s.dhRemote # NoPub
          <6>1. s.dhRemote \in K
            BY <5>2 DEF IsRatchetState, Fields
          <6>2. c = cacheSkipped(s, s.dhRemote, hd.prevN)
            BY <5>2
          <6> HIDE DEF c
          <6> QED
            BY <1>0, <6>1, <6>2, CacheStep, CacheRooted
        <5> QED
          BY <5>1, <5>2
      <4>2. v = dhRatchetStep(c, hd.dhPub, fresh)
        BY <3>2 DEF Turned
      <4> HIDE DEF c, v
      <4> QED
        BY <1>0, <4>1, <4>2, DhStep, DhRooted
    <3> QED
      BY <3>1, <3>2
  <2> HIDE DEF v
  <2>3. IsRatchetState(u, K) /\ Rooted(u, h)
    BY <1>0, <2>2, CacheStep, CacheRooted
  <2> HIDE DEF u
  <2>4. Under(m.key.root, h)
    BY <2>1, <2>3 DEF Rooted
  <2> QED
    BY <2>1, <2>3, <2>4, TakeRooted
<1> QED
  BY <1>1, <1>2

\* The same with the pair that generateX25519KeyPair() returns, if it is used.
LEMMA DecryptRootedFresh ==
    ASSUME NEW K, NEW s, IsRatchetState(s, K), NEW h, Rooted(s, h),
           NEW m \in Message(K), NEW f, Opens(s, m, f)
    PROVE  Under(m.key.root, h) /\ Rooted(AfterDecrypt(s, m, f), h)
<1> DEFINE L == K \union {f}
<1>1. IsRatchetState(s, L) /\ m \in Message(L) /\ f \in L
  BY StateGrows, RootGrows
<1> HIDE DEF L
<1> QED
  BY <1>1, DecryptRooted

LEMMA EncryptRooted ==
    ASSUME NEW K, NEW s, IsRatchetState(s, K), NEW h, Rooted(s, h), CanEncrypt(s)
    PROVE  Under(Sealed(s).key.root, h) /\ Rooted(AfterEncrypt(s), h)
<1> DEFINE t == AfterEncrypt(s)
           k == Sealed(s).key
<1>1. /\ k \in s.sendChain /\ s.sendChain = {k}
      /\ t.sendChain = {Advance(k, 1)} /\ Advance(k, 1).root = k.root
  BY EncryptShape, EncryptStep
<1>2. t.rootKey = s.rootKey /\ t.recvChain = s.recvChain /\ t.skipped = s.skipped
  BY DEF AfterEncrypt, IsRatchetState, Fields
<1> HIDE DEF t, k
<1>3. Under(k.root, h) /\ Rooted(t, h)
  BY <1>1, <1>2 DEF Rooted
<1> QED
  BY <1>3 DEF t, k

LEMMA InitsRooted ==
    ASSUME NEW h, NEW dhSelf, NEW remote
    PROVE  /\ Rooted(initRatchetAsAlice(<<h>>, dhSelf, remote), h)
           /\ Rooted(initRatchetAsBob(<<h>>, dhSelf), h)
<1> DEFINE a == initRatchetAsAlice(<<h>>, dhSelf, remote)
           b == initRatchetAsBob(<<h>>, dhSelf)
           root == Append(<<h>>, {dhSelf, remote})
<1>1. root # <<>> /\ root[1] = h
  OBVIOUS
<1>2. /\ a.rootKey = root /\ a.sendChain = {FirstChainKey(root)} /\ a.recvChain = {}
      /\ DOMAIN a.skipped = {}
  BY DEF initRatchetAsAlice, rootKdf, dh, NoChain
<1>3. b.rootKey = <<h>> /\ b.sendChain = {} /\ b.recvChain = {} /\ DOMAIN b.skipped = {}
  BY DEF initRatchetAsBob, NoChain
<1> HIDE DEF a, b, root
<1>4. Rooted(a, h)
  BY <1>1, <1>2 DEF Rooted, Under, FirstChainKey
<1>5. Rooted(b, h)
  BY <1>3 DEF Rooted, Under
<1> QED
  BY <1>4, <1>5 DEF a, b

----------------------------------------------------------------------------
(* The ratchets of a record, each with the handshake it belongs to: the    *)
(* live one with the last of the log, the archived ones with those before. *)

RatchetAt(s, k) == IF k = 0 THEN s.ratchet ELSE s.archived[k]
Strand(s, k) == <<s.log[Len(s.log) - k], RatchetAt(s, k)>>
Strands(s) == {Strand(s, k) : k \in 0..Len(s.archived)}

LEMMA StrandsAre ==
    ASSUME NEW p, NEW s, NEW K, Sound(p, s, K)
    PROVE  /\ Len(s.archived) \in Nat /\ Len(s.log) \in Nat /\ 0 \in 0..Len(s.archived)
           /\ DOMAIN s.archived = 1..Len(s.archived)
           /\ \A k \in 0..Len(s.archived) :
                 /\ Len(s.log) - k \in DOMAIN s.log
                 /\ k # 0 => k \in DOMAIN s.archived
                 /\ IsRatchetState(RatchetAt(s, k), K) /\ Tidy(p, RatchetAt(s, k))
           /\ \A i, j \in 0..Len(s.archived) :
                 s.log[Len(s.log) - i] = s.log[Len(s.log) - j] => i = j
<1>1. /\ Len(s.archived) \in Nat /\ Len(s.log) \in Nat /\ DOMAIN s.log = 1..Len(s.log)
      /\ DOMAIN s.archived = 1..Len(s.archived) /\ Len(s.archived) < Len(s.log)
      /\ Len(s.archived) <= MAX_ARCHIVED_RATCHETS /\ MAX_ARCHIVED_RATCHETS \in Nat
  BY Bounds DEF Sound, IsSession, Stacked
<1>2. \A k \in 0..Len(s.archived) :
         Len(s.log) - k \in DOMAIN s.log /\ (k # 0 => k \in DOMAIN s.archived)
  BY <1>1
<1>3. \A k \in 0..Len(s.archived) :
         IsRatchetState(RatchetAt(s, k), K) /\ Tidy(p, RatchetAt(s, k))
  BY <1>2 DEF RatchetAt, Sound, IsSession
<1>4. ASSUME NEW i \in 0..Len(s.archived), NEW j \in 0..Len(s.archived), i < j
      PROVE  s.log[Len(s.log) - i] # s.log[Len(s.log) - j]
  <2> DEFINE a == Len(s.log) - j
             b == Len(s.log) - i
  <2>1. a \in DOMAIN s.log /\ b \in DOMAIN s.log
    BY <1>2
  <2>2. a < b /\ b - a <= MAX_ARCHIVED_RATCHETS + 1
    <3> DEFINE l == Len(s.log)
               r == Len(s.archived)
    <3>1. l \in Nat /\ r \in Nat /\ r <= MAX_ARCHIVED_RATCHETS /\ MAX_ARCHIVED_RATCHETS \in Nat
          /\ i \in 0..r /\ j \in 0..r
      BY <1>1
    <3> HIDE DEF l, r
    <3>2. l - j < l - i /\ (l - i) - (l - j) <= MAX_ARCHIVED_RATCHETS + 1
      BY <1>4, <3>1
    <3> QED
      BY <3>2 DEF l
  <2>3. \A x, y \in DOMAIN s.log :
           x < y /\ y - x <= MAX_ARCHIVED_RATCHETS + 1 => s.log[x] # s.log[y]
    BY DEF Sound, Remembers
  <2>4. s.log[a] # s.log[b]
    <3> HIDE DEF a, b
    <3> QED
      BY <2>1, <2>2, <2>3
  <2> QED
    BY <2>4
<1>5. \A i, j \in 0..Len(s.archived) : i < j \/ j < i \/ i = j
  BY <1>1
<1>6. ASSUME NEW i \in 0..Len(s.archived), NEW j \in 0..Len(s.archived),
             s.log[Len(s.log) - i] = s.log[Len(s.log) - j]
      PROVE  i = j
  BY <1>4, <1>5, <1>6
<1> QED
  BY <1>1, <1>2, <1>3, <1>6

LEMMA SealStrands ==
    ASSUME NEW K, NEW p, NEW s, Sound(p, s, K), CanEncrypt(s.ratchet)
    PROVE  \E y \in Strands(s) :
              /\ y[2] = s.ratchet
              /\ \A x \in Strands(AfterSeal(s)) :
                    \/ x = <<y[1], AfterEncrypt(y[2])>>
                    \/ x \in Strands(s) /\ x[1] # y[1]
<1> DEFINE t == AfterSeal(s)
           n == Len(s.log)
<1>1. t.ratchet = AfterEncrypt(s.ratchet) /\ t.archived = s.archived /\ t.log = s.log
  BY SealShape
<1>2. 0 \in 0..Len(s.archived)
      /\ \A i, j \in 0..Len(s.archived) : s.log[n - i] = s.log[n - j] => i = j
  BY StrandsAre
<1> DEFINE y == Strand(s, 0)
<1>3. y \in Strands(s) /\ y = <<s.log[n - 0], s.ratchet>>
  BY <1>2 DEF Strands, Strand, RatchetAt
<1> HIDE DEF t, y, n
<1>4. ASSUME NEW k \in 0..Len(t.archived)
      PROVE  \/ Strand(t, k) = <<y[1], AfterEncrypt(y[2])>>
             \/ Strand(t, k) \in Strands(s) /\ Strand(t, k)[1] # y[1]
  <2>1. k \in 0..Len(s.archived) /\ Strand(t, k) = <<s.log[n - k], RatchetAt(t, k)>>
    BY <1>1 DEF Strand, n
  <2>2. CASE k = 0
    BY <1>1, <1>3, <2>1, <2>2 DEF RatchetAt
  <2>3. CASE k # 0
    <3>1. Strand(t, k) = Strand(s, k)
      BY <1>1, <2>1, <2>3 DEF Strand, RatchetAt, n
    <3>2. s.log[n - k] # s.log[n - 0]
      BY <1>2, <2>1, <2>3
    <3> QED
      BY <1>3, <2>1, <3>1, <3>2 DEF Strands
  <2> QED
    BY <2>2, <2>3
<1>5. y[2] = s.ratchet
  BY <1>3
<1> QED
  BY <1>3, <1>4, <1>5 DEF t, Strands

LEMMA OpenStrands ==
    ASSUME NEW K, NEW p, NEW s, Sound(p, s, K), NEW m, NEW f, CanOpen(s, m, f)
    PROVE  \E y \in Strands(s) :
              /\ Opens(y[2], m, f)
              /\ UsesFresh(s, m, f) <=> StepsRatchet(y[2], m.header)
              /\ \A x \in Strands(AfterOpen(s, m, f)) :
                    \/ x = <<y[1], AfterDecrypt(y[2], m, f)>>
                    \/ x \in Strands(s) /\ x[1] # y[1]
<1> DEFINE t == AfterOpen(s, m, f)
           n == Len(s.log)
           a == Min(ArchivedOpening(s, m, f))
           live == Opens(s.ratchet, m, f)
           at == IF live THEN 0 ELSE a
<1>1. t.log = s.log /\ Len(t.archived) = Len(s.archived)
  BY OpenShape
<1>2. \/ /\ live /\ t.ratchet = AfterDecrypt(s.ratchet, m, f) /\ t.archived = s.archived
      \/ /\ ~live /\ a \in DOMAIN s.archived
         /\ Opens(s.archived[a], m, f) /\ t.ratchet = s.ratchet
         /\ \A k \in DOMAIN s.archived :
               t.archived[k] = IF k = a THEN AfterDecrypt(s.archived[a], m, f)
                                        ELSE s.archived[k]
  BY OpenShape
<1>3. /\ 0 \in 0..Len(s.archived) /\ DOMAIN s.archived = 1..Len(s.archived)
      /\ \A k \in 0..Len(s.archived) : k # 0 => k \in DOMAIN s.archived
      /\ \A i, j \in 0..Len(s.archived) : s.log[n - i] = s.log[n - j] => i = j
  BY StrandsAre
<1>4. UsesFresh(s, m, f) <=> StepsRatchet(RatchetAt(s, at), m.header)
  BY <1>2, <1>3 DEF UsesFresh, RatchetAt
<1> HIDE DEF t, a, live, n
<1>5. at \in 0..Len(s.archived) /\ Opens(RatchetAt(s, at), m, f)
  BY <1>2, <1>3 DEF RatchetAt, live
<1>6. \A k \in 0..Len(s.archived) :
         RatchetAt(t, k) = IF k = at THEN AfterDecrypt(RatchetAt(s, at), m, f)
                                     ELSE RatchetAt(s, k)
  BY <1>2, <1>3 DEF RatchetAt
<1> HIDE DEF at
<1> DEFINE y == Strand(s, at)
<1>7. y \in Strands(s) /\ y = <<s.log[n - at], RatchetAt(s, at)>>
  BY <1>5 DEF Strands, Strand, n
<1> HIDE DEF y
<1>8. ASSUME NEW k \in 0..Len(t.archived)
      PROVE  \/ Strand(t, k) = <<y[1], AfterDecrypt(y[2], m, f)>>
             \/ Strand(t, k) \in Strands(s) /\ Strand(t, k)[1] # y[1]
  <2>1. k \in 0..Len(s.archived) /\ Strand(t, k) = <<s.log[n - k], RatchetAt(t, k)>>
    BY <1>1 DEF Strand, n
  <2>2. CASE k = at
    BY <1>6, <1>7, <2>1, <2>2
  <2>3. CASE k # at
    <3>1. Strand(t, k) = Strand(s, k)
      BY <1>6, <2>1, <2>3 DEF Strand, n
    <3>2. s.log[n - k] # s.log[n - at]
      BY <1>3, <1>5, <2>1, <2>3
    <3> QED
      BY <1>7, <2>1, <3>1, <3>2 DEF Strands
  <2> QED
    BY <2>2, <2>3
<1>9. Opens(y[2], m, f) /\ (UsesFresh(s, m, f) <=> StepsRatchet(y[2], m.header))
  BY <1>4, <1>5, <1>7
<1> QED
  BY <1>7, <1>8, <1>9 DEF t, Strands

LEMMA InitiatedStrands ==
    ASSUME NEW p, NEW eph, NEW dhSelf, NEW otp
    PROVE  LET h == x3dh(eph, Peer(p), otp)
           IN  \A x \in Strands(Initiated(p, eph, dhSelf, otp)) :
                  x = <<h, initRatchetAsAlice(<<h>>, dhSelf, SpkOf(Peer(p)))>>
<1> DEFINE h == x3dh(eph, Peer(p), otp)
           r == initRatchetAsAlice(<<h>>, dhSelf, SpkOf(Peer(p)))
           t == Initiated(p, eph, dhSelf, otp)
<1>1. t = [NewSession(r, h) EXCEPT !.pendingInit = {[eph |-> eph, otp |-> otp]}]
  BY DEF Initiated
<1> HIDE DEF r, t, h
<1>2. t.ratchet = r /\ t.archived = <<>> /\ t.log = <<h>>
  BY <1>1 DEF NewSession
<1>3. \A k \in 0..Len(t.archived) : Strand(t, k) = <<h, r>>
  BY <1>2 DEF Strand, RatchetAt
<1> QED
  BY <1>3 DEF r, t, h, Strands

LEMMA AcceptedStrands ==
    ASSUME NEW K, NEW p \in Party, NEW init,
           NEW existing, \A s \in existing : Sound(p, s, K)
    PROVE  LET h == x3dh(init.eph, p, init.otp)
           IN  \A x \in Strands(Accepted(p, init, existing)) :
                  \/ x = <<h, initRatchetAsBob(<<h>>, SpkOf(p))>>
                  \/ \E s \in existing : x \in Strands(s)
<1> DEFINE h == x3dh(init.eph, p, init.otp)
           r == initRatchetAsBob(<<h>>, SpkOf(p))
           t == Accepted(p, init, existing)
           new == [NewSession(r, h) EXCEPT !.acceptedInit = {init.eph}]
<1> HIDE DEF h, r
<1>1. new = [ ratchet |-> r, pendingInit |-> {}, pendingInitSends |-> 0,
              acceptedInit |-> {init.eph}, archived |-> <<>>,
              superseded |-> <<>>, log |-> <<h>> ]
  BY NewAccepted
<1>2. CASE existing = {}
  <2>1. t = new
    BY <1>2 DEF Accepted, h, r
  <2> HIDE DEF new, t
  <2>2. t.ratchet = r /\ t.archived = <<>> /\ t.log = <<h>>
    BY <1>1, <2>1
  <2>3. \A k \in 0..Len(t.archived) : Strand(t, k) = <<h, r>>
    BY <2>2 DEF Strand, RatchetAt
  <2> QED
    BY <2>3 DEF h, r, t, Strands
<1>3. CASE existing # {}
  <2> DEFINE old == CHOOSE s \in existing : TRUE
             ar == Newest(<<old.ratchet>> \o old.archived)
             su == Newest(SetToSeq(old.acceptedInit) \o old.superseded)
             lg == Append(old.log, h)
             n == Len(old.log)
  <2>1. old \in existing
    BY <1>3
  <2>2. t = [new EXCEPT !.archived = ar, !.superseded = su, !.log = lg]
    BY <1>3 DEF Accepted, h, r
  <2> HIDE DEF old
  <2>3. Sound(p, old, K)
    BY <2>1
  <2>4. n \in Nat /\ Len(old.archived) \in Nat /\ Len(old.archived) < n
    BY <2>3, StrandsAre DEF Sound, Stacked
  <2>5. old.archived \in Seq(ToSet(old.archived)) /\ old.log \in Seq(SUBSET K)
    BY <2>3 DEF Sound, IsSession
  <2>6. /\ Len(ar) \in Nat /\ Len(ar) <= Len(old.archived) + 1
        /\ \A k \in 1..Len(ar) : \/ k = 1 /\ ar[k] = old.ratchet
                                 \/ k - 1 \in 1..Len(old.archived) /\ ar[k] = old.archived[k - 1]
    <3> DEFINE S == ToSet(old.archived) \union {old.ratchet}
    <3>1. old.archived \in Seq(S) /\ old.ratchet \in S
      BY <2>5
    <3> HIDE DEF S
    <3>2. /\ ar \in Seq(S)
          /\ Len(ar) = Len(old.archived) + 1
             \/ (Len(ar) = MAX_ARCHIVED_RATCHETS /\ Len(ar) <= Len(old.archived) + 1)
          /\ \A k \in DOMAIN ar : \/ k = 1 /\ ar[k] = old.ratchet
                                  \/ k - 1 \in DOMAIN old.archived /\ ar[k] = old.archived[k - 1]
      BY <3>1, NewestOf
    <3> HIDE DEF ar
    <3> QED
      BY <2>4, <2>5, <3>2
  <2>7. Len(lg) = n + 1 /\ lg[n + 1] = h /\ \A i \in 1..n : lg[i] = old.log[i]
    BY <2>5
  <2> HIDE DEF ar, su, lg, new, t
  <2>8. t.ratchet = r /\ t.archived = ar /\ t.log = lg
    BY <1>1, <2>2
  <2>9. ASSUME NEW k \in 0..Len(t.archived)
        PROVE  Strand(t, k) = <<h, r>> \/ Strand(t, k) \in Strands(old)
    <3>1. CASE k = 0
      <4>1. n + 1 - k = n + 1
        BY <2>4, <3>1
      <4> QED
        BY <2>7, <2>8, <3>1, <4>1 DEF Strand, RatchetAt
    <3>2. CASE k # 0
      <4>1. k \in 1..Len(ar) /\ k - 1 \in 0..Len(old.archived)
        BY <2>4, <2>6, <2>8, <3>2
      <4>2. ar[k] = RatchetAt(old, k - 1)
        BY <2>6, <4>1 DEF RatchetAt
      <4>3. n + 1 - k = n - (k - 1) /\ n + 1 - k \in 1..n
        BY <2>4, <2>6, <4>1
      <4>4. lg[n + 1 - k] = old.log[n - (k - 1)]
        BY <2>7, <4>3
      <4>5. Strand(t, k) = Strand(old, k - 1)
        BY <2>7, <2>8, <3>2, <4>2, <4>4 DEF Strand, RatchetAt
      <4> QED
        BY <4>1, <4>5 DEF Strands
    <3> QED
      BY <3>1, <3>2
  <2> QED
    BY <2>1, <2>9 DEF h, r, t, Strands
<1> QED
  BY <1>2, <1>3

\* The strands of a device: those of every copy of its record.
StrandsOf(p) == UNION {Strands(s) : s \in Sess(p)}

LEMMA StrandsOfAre ==
    ASSUME Typed, NEW p \in Party
    PROVE  /\ \A s \in Sess(p) : Sound(p, s, Made)
           /\ \A x \in StrandsOf(p) : IsRatchetState(x[2], Made) /\ Tidy(p, x[2])
<1>1. \A s \in Sess(p) : Sound(p, s, Made)
  BY DEF Sess, Typed, RecordsOK, JobsOK, JobOK
<1>2. ASSUME NEW s \in Sess(p), NEW k \in 0..Len(s.archived)
      PROVE  IsRatchetState(RatchetAt(s, k), Made) /\ Tidy(p, RatchetAt(s, k))
  BY <1>1, StrandsAre
<1> QED
  BY <1>1, <1>2 DEF StrandsOf, Strands, Strand

(* What a step does, in terms of strands.                                   *)

\* The strand x of p has moved on to the ratchet t, in every copy there is.
Becomes(p, x, t) ==
    \A q \in Party : \A y \in StrandsOf(q)' :
        \/ y \in StrandsOf(q) /\ (q = p => y[1] # x[1])
        \/ q = p /\ y = <<x[1], t>>

Adds(p, x) ==
    \A q \in Party : \A y \in StrandsOf(q)' : y \in StrandsOf(q) \/ (q = p /\ y = x)

Keeps ==
    /\ UNCHANGED <<wire, past>>
    /\ \A q \in Party : StrandsOf(q)' \subseteq StrandsOf(q)

\* encryptForPeer seals with the strand x.
SealsWith(p, x) ==
    /\ x \in StrandsOf(p) /\ CanEncrypt(x[2])
    /\ \E e : e.msg = Sealed(x[2]) /\ wire' = [wire EXCEPT ![p] = Append(wire[p], e)]
    /\ opened' = [opened EXCEPT ![p] = Append(opened[p], 0)]
    /\ accepted' = accepted
    /\ Becomes(p, x, AfterEncrypt(x[2]))

\* decryptFromPeer opens message i with the strand x.
OpensWith(p, x, i) ==
    LET m == wire[Peer(p)][i].msg
        f == FreshKey(p)
    IN  /\ x \in StrandsOf(p) /\ i \in DOMAIN wire[Peer(p)]
        /\ Opens(x[2], m, f) /\ (StepsRatchet(x[2], m.header) => f \in Made')
        /\ opened' = [opened EXCEPT ![Peer(p)][i] = opened[Peer(p)][i] + 1]
        /\ UNCHANGED <<wire, accepted>>
        /\ Becomes(p, x, AfterDecrypt(x[2], m, f))

\* acceptSession answers the handshake h.
Answers(p, h) ==
    /\ \E eph, otp : h = x3dh(eph, p, otp) /\ Ephemeral(Peer(p), eph)
    /\ accepted' = [accepted EXCEPT ![p] = Append(accepted[p], h)]
    /\ UNCHANGED <<wire, opened>>
    /\ Adds(p, <<h, initRatchetAsBob(<<h>>, SpkOf(p))>>)

\* bootstrapSession starts the handshake h.
Starts(p, h) ==
    LET d == <<p, nextKey[p] + 1>>
    IN  /\ \E otp : h = x3dh(FreshKey(p), Peer(p), otp)
        /\ UNCHANGED <<wire, past>>
        /\ d \in Made'
        /\ Adds(p, <<h, initRatchetAsAlice(<<h>>, d, SpkOf(Peer(p)))>>)

----------------------------------------------------------------------------
(* Every step is one of these, and the copies of the record with it.        *)

LEMMA SessAre ==
    \A p, s : /\ s \in Sess(p) <=> \/ s \in rec[p]
                                  \/ \E c \in Context : Dev(c) = p /\ s \in job[c].got
              /\ s \in Sess(p)' <=> \/ s \in rec'[p]
                                   \/ \E c \in Context : Dev(c) = p /\ s \in job'[c].got
BY DEF Sess

LEMMA SessNext ==
    ASSUME Typed, NEW c \in Context,
           NEW j, job' = job \/ job' = [job EXCEPT ![c] = j],
           NEW R, rec' = rec \/ rec' = [rec EXCEPT ![Dev(c)] = R]
    PROVE  \A q \in Party : \A s \in Sess(q)' :
              s \in Sess(q) \/ (q = Dev(c) /\ s \in j.got \union R)
<1>1. Dev(c) \in Party
  BY Contexts
<1>2. \A d \in Context : job'[d] = job[d] \/ (d = c /\ job'[d] = j)
  BY DEF Typed, JobsOK
<1>3. \A q \in Party : rec'[q] = rec[q] \/ (q = Dev(c) /\ rec'[q] = R)
  BY DEF Typed, RecordsOK
<1>4. ASSUME NEW q \in Party, NEW s \in Sess(q)'
      PROVE  s \in Sess(q) \/ (q = Dev(c) /\ s \in j.got \union R)
  <2>1. CASE s \in rec'[q]
    BY <1>3, <2>1, SessAre
  <2>2. CASE \E d \in Context : Dev(d) = q /\ s \in job'[d].got
    BY <1>2, <2>2, SessAre
  <2> QED
    BY <1>4, <2>1, <2>2, SessAre
<1> QED
  BY <1>4

\* A call that writes the record and ends leaves no other copy.
LEMMA SessOnly ==
    ASSUME OneTab, Typed, NEW c \in Context,
           NEW j, job' = [job EXCEPT ![c] = j], j.got = {},
           NEW t, rec' = [rec EXCEPT ![Dev(c)] = {t}]
    PROVE  \A q \in Party : \A s \in Sess(q)' :
              (q # Dev(c) /\ s \in Sess(q)) \/ (q = Dev(c) /\ s = t)
<1>1. Dev(c) \in Party
  BY Contexts
<1>2. /\ job'[c].got = {} /\ \A d \in Context : d # c => job'[d] = job[d]
      /\ rec'[Dev(c)] = {t} /\ \A q \in Party : q # Dev(c) => rec'[q] = rec[q]
  BY <1>1 DEF Typed, JobsOK, RecordsOK
<1>3. \A d \in Context : Dev(d) = Dev(c) => d = c
  BY OneContext
<1>4. ASSUME NEW q \in Party, NEW s \in Sess(q)'
      PROVE  (q # Dev(c) /\ s \in Sess(q)) \/ (q = Dev(c) /\ s = t)
  <2>1. \/ s \in rec'[q]
        \/ \E d \in Context : Dev(d) = q /\ s \in job'[d].got
    BY <1>4, SessAre
  <2>2. CASE q = Dev(c)
    BY <1>2, <1>3, <2>1, <2>2
  <2>3. CASE q # Dev(c)
    BY <1>2, <2>1, <2>3, SessAre
  <2> QED
    BY <2>2, <2>3
<1> QED
  BY <1>4

LEMMA StrandsKept ==
    ASSUME Typed, NEW c \in Context,
           NEW j, job' = job \/ job' = [job EXCEPT ![c] = j],
           NEW R, rec' = rec \/ rec' = [rec EXCEPT ![Dev(c)] = R],
           NEW x, \A s \in j.got \union R :
                     \A y \in Strands(s) : y \in StrandsOf(Dev(c)) \/ y = x
    PROVE  Adds(Dev(c), x)
<1>1. \A q \in Party : \A s \in Sess(q)' :
         s \in Sess(q) \/ (q = Dev(c) /\ s \in j.got \union R)
  BY SessNext
<1> QED
  BY <1>1 DEF Adds, StrandsOf

LEMMA StrandBecomes ==
    ASSUME OneTab, Typed, NEW c \in Context,
           NEW j, job' = [job EXCEPT ![c] = j], j.got = {},
           NEW t, rec' = [rec EXCEPT ![Dev(c)] = {t}],
           NEW s \in Sess(Dev(c)), NEW x, NEW r,
           \A y \in Strands(t) : y = <<x[1], r>> \/ (y \in Strands(s) /\ y[1] # x[1])
    PROVE  Becomes(Dev(c), x, r)
<1>1. \A q \in Party : \A u \in Sess(q)' :
         (q # Dev(c) /\ u \in Sess(q)) \/ (q = Dev(c) /\ u = t)
  BY SessOnly
<1>2. ASSUME NEW q \in Party, NEW y \in StrandsOf(q)'
      PROVE  \/ y \in StrandsOf(q) /\ (q = Dev(c) => y[1] # x[1])
             \/ q = Dev(c) /\ y = <<x[1], r>>
  <2>1. PICK u \in Sess(q)' : y \in Strands(u)
    BY <1>2 DEF StrandsOf
  <2>2. CASE q # Dev(c)
    BY <1>1, <2>1, <2>2 DEF StrandsOf
  <2>3. CASE q = Dev(c)
    BY <1>1, <2>1, <2>3 DEF StrandsOf
  <2> QED
    BY <2>2, <2>3
<1> QED
  BY <1>2 DEF Becomes

(***************************************************************************)
(* One lemma per action: which kind of step it is.                         *)
(***************************************************************************)
LEMMA SealKind ==
    ASSUME OneTab, Typed, NEW c \in Context, Seal(c)
    PROVE  Keeps \/ \E x : SealsWith(Dev(c), x)
<1> DEFINE p == Dev(c)
           none == {}
<1>1. PICK s \in job[c].got :
         IF CanEncrypt(s.ratchet)
         THEN /\ wire' = [wire EXCEPT ![p] = Append(@, Envelope(s))]
              /\ opened' = [opened EXCEPT ![p] = Append(@, 0)]
              /\ rec' = [rec EXCEPT ![p] = {AfterSeal(s)}]
         ELSE UNCHANGED <<wire, opened, rec>>
  BY DEF Seal
<1>2. job' = [job EXCEPT ![c] = Idle] /\ Idle.got = {} /\ accepted' = accepted
  BY DEF Seal, Finish, Idle
<1>3. p \in Party /\ Sound(p, s, Made) /\ s \in Sess(p)
  BY JobOf, SessAre
<1>4. CASE ~CanEncrypt(s.ratchet)
  <2>1. UNCHANGED <<wire, past, rec>>
    BY <1>1, <1>2, <1>4 DEF past
  <2>2. \A q \in Party : \A u \in Sess(q)' : u \in Sess(q)
    <3>1. \A q \in Party : \A u \in Sess(q)' : u \in Sess(q) \/ (q = Dev(c) /\ u \in Idle.got \union none)
      BY <1>2, <2>1, SessNext
    <3> QED
      BY <1>2, <3>1
  <2> QED
    BY <2>1, <2>2 DEF Keeps, StrandsOf
<1>5. CASE CanEncrypt(s.ratchet)
  <2> DEFINE t == AfterSeal(s)
             e == Envelope(s)
  <2>1. PICK x \in Strands(s) :
           /\ x[2] = s.ratchet
           /\ \A y \in Strands(t) : \/ y = <<x[1], AfterEncrypt(x[2])>>
                                    \/ y \in Strands(s) /\ y[1] # x[1]
    BY <1>3, <1>5, SealStrands
  <2>2. e.msg = Sealed(x[2])
    BY <2>1 DEF Envelope
  <2>3. rec' = [rec EXCEPT ![p] = {t}]
    BY <1>1, <1>5
  <2>4. /\ wire' = [wire EXCEPT ![p] = Append(wire[p], e)]
        /\ opened' = [opened EXCEPT ![p] = Append(opened[p], 0)]
    BY <1>1, <1>5
  <2> HIDE DEF t, e, p
  <2>5. Becomes(Dev(c), x, AfterEncrypt(x[2]))
    BY <1>2, <1>3, <2>1, <2>3, StrandBecomes DEF p
  <2>6. x \in StrandsOf(p)
    BY <1>3 DEF StrandsOf
  <2> QED
    BY <1>2, <1>5, <2>1, <2>2, <2>4, <2>5, <2>6 DEF SealsWith, p
<1> QED
  BY <1>4, <1>5

LEMMA OpenKind ==
    ASSUME OneTab, Typed, NEW c \in Context, Open(c)
    PROVE  Keeps \/ \E x, i : OpensWith(Dev(c), x, i)
<1> DEFINE p == Dev(c)
           i == job[c].msg
           m == Incoming(c).msg
           f == FreshKey(p)
           none == {}
<1>1. PICK s \in job[c].got :
         IF CanOpen(s, m, f)
         THEN /\ rec' = [rec EXCEPT ![p] = {AfterOpen(s, m, f)}]
              /\ opened' = [opened EXCEPT ![Peer(p)][i] = @ + 1]
              /\ nextKey' = [nextKey EXCEPT ![p] = IF UsesFresh(s, m, f) THEN @ + 1 ELSE @]
         ELSE UNCHANGED <<rec, opened, nextKey>>
  BY DEF Open
<1>2. /\ job[c].at = "open" /\ job' = [job EXCEPT ![c] = Idle] /\ Idle.got = {}
      /\ wire' = wire /\ accepted' = accepted
  BY DEF Open, At, Finish, Idle
<1>3. /\ p \in Party /\ Sound(p, s, Made) /\ s \in Sess(p)
      /\ i \in DOMAIN wire[Peer(p)] /\ m = wire[Peer(p)][i].msg
  BY <1>2, JobOf, SessAre DEF Receiving, Incoming
<1>4. CASE ~CanOpen(s, m, f)
  <2>1. UNCHANGED <<wire, past, rec>>
    BY <1>1, <1>2, <1>4 DEF past
  <2>2. \A q \in Party : \A u \in Sess(q)' : u \in Sess(q)
    <3>1. \A q \in Party : \A u \in Sess(q)' : u \in Sess(q) \/ (q = Dev(c) /\ u \in Idle.got \union none)
      BY <1>2, <2>1, SessNext
    <3> QED
      BY <1>2, <3>1
  <2> QED
    BY <2>1, <2>2 DEF Keeps, StrandsOf
<1>5. CASE CanOpen(s, m, f)
  <2> DEFINE t == AfterOpen(s, m, f)
             uses == UsesFresh(s, m, f)
  <2>1. PICK x \in Strands(s) :
           /\ Opens(x[2], m, f)
           /\ uses <=> StepsRatchet(x[2], m.header)
           /\ \A y \in Strands(t) : \/ y = <<x[1], AfterDecrypt(x[2], m, f)>>
                                    \/ y \in Strands(s) /\ y[1] # x[1]
    <3> HIDE DEF p, i, m, f
    <3>1. \E y \in Strands(s) :
             /\ Opens(y[2], m, f)
             /\ UsesFresh(s, m, f) <=> StepsRatchet(y[2], m.header)
             /\ \A x \in Strands(AfterOpen(s, m, f)) :
                   \/ x = <<y[1], AfterDecrypt(y[2], m, f)>>
                   \/ x \in Strands(s) /\ x[1] # y[1]
      BY <1>3, <1>5, OpenStrands
    <3> QED
      BY <3>1
  <2>2. rec' = [rec EXCEPT ![p] = {t}]
    BY <1>1, <1>5
  <2>3. /\ opened' = [opened EXCEPT ![Peer(p)][i] = opened[Peer(p)][i] + 1]
        /\ nextKey' = [nextKey EXCEPT ![p] = IF uses THEN nextKey[p] + 1 ELSE nextKey[p]]
    BY <1>1, <1>5
  <2> HIDE DEF t, uses
  <2>4. uses => f \in Made'
    <3>1. nextKey \in [Party -> Nat] /\ nextKey[p] \in Nat /\ KeysOK
      BY <1>3 DEF Typed, KeysOK
    <3>2. ASSUME uses
          PROVE  f \in Made'
      <4>1. /\ nextKey' \in [Party -> Nat] /\ \A r \in Party : nextKey[r] <= nextKey'[r]
            /\ nextKey'[p] = nextKey[p] + 1
        BY <1>3, <2>3, <3>1, <3>2
      <4>2. \A r \in Party : \A n \in 0..(nextKey'[r] - 1) : <<r, n>> \in Made'
        BY <3>1, <4>1, MadeGrows
      <4>3. nextKey[p] \in 0..(nextKey'[p] - 1)
        BY <3>1, <4>1
      <4> QED
        BY <1>3, <4>2, <4>3 DEF FreshKey
    <3> QED
      BY <3>2
  <2> HIDE DEF p
  <2>5. Becomes(Dev(c), x, AfterDecrypt(x[2], m, f))
    BY <1>2, <1>3, <2>1, <2>2, StrandBecomes DEF p
  <2>6. x \in StrandsOf(p)
    BY <1>3 DEF StrandsOf
  <2> QED
    BY <1>2, <1>3, <2>1, <2>3, <2>4, <2>5, <2>6 DEF OpensWith, p
<1> QED
  BY <1>4, <1>5

LEMMA AcceptKind ==
    ASSUME Typed, NEW c \in Context, Accept(c)
    PROVE  Keeps \/ \E h : Answers(Dev(c), h)
<1> DEFINE p == Dev(c)
           existing == job[c].got
           none == {}
<1>1. PICK init \in Incoming(c).init :
         IF KeepsExisting(existing, init) \/ ~OtpUsable(p, init.otp)
         THEN /\ Goto(c, "load", {})
              /\ UNCHANGED <<rec, accepted>>
         ELSE /\ rec' = [rec EXCEPT ![p] = {Accepted(p, init, existing)}]
              /\ accepted' = [accepted EXCEPT ![p] =
                                Append(@, x3dh(init.eph, p, init.otp))]
              /\ Goto(c, IF init.otp = {} THEN "load" ELSE "burn", {})
  BY DEF Accept
<1>2. wire' = wire /\ opened' = opened /\ job[c].at = "accept"
  BY DEF Accept, At
<1>3. PICK j : job' = [job EXCEPT ![c] = j] /\ j.got = {}
  <2> DEFINE Got(phase) == [at |-> phase, got |-> none, msg |-> job[c].msg]
  <2>1. \E phase : job' = [job EXCEPT ![c] = Got(phase)]
    BY <1>1 DEF Goto
  <2>2. \A phase : Got(phase).got = {}
    OBVIOUS
  <2> HIDE DEF Got
  <2> QED
    BY <2>1, <2>2
<1>4. CASE KeepsExisting(existing, init) \/ ~OtpUsable(p, init.otp)
  <2>1. UNCHANGED <<wire, past, rec>>
    BY <1>1, <1>2, <1>4 DEF past
  <2>2. \A q \in Party : \A u \in Sess(q)' : u \in Sess(q)
    <3>1. \A q \in Party : \A u \in Sess(q)' : u \in Sess(q) \/ (q = Dev(c) /\ u \in j.got \union none)
      BY <1>3, <2>1, SessNext
    <3> QED
      BY <1>3, <3>1
  <2> QED
    BY <2>1, <2>2 DEF Keeps, StrandsOf
<1>5. CASE ~(KeepsExisting(existing, init) \/ ~OtpUsable(p, init.otp))
  <2> DEFINE t == Accepted(p, init, existing)
             h == x3dh(init.eph, p, init.otp)
             x == <<h, initRatchetAsBob(<<h>>, SpkOf(p))>>
             R == {t}
  <2>1. /\ rec' = [rec EXCEPT ![p] = R]
        /\ accepted' = [accepted EXCEPT ![p] = Append(accepted[p], h)]
    BY <1>1, <1>5
  <2>2. p \in Party /\ \A s \in existing : Sound(p, s, Made) /\ s \in Sess(p)
    BY JobOf, SessAre
  <2>3. Ephemeral(Peer(p), init.eph)
    <3>1. Incoming(c) \in Envelopes(Peer(p), Made)
      BY <1>2, JobOf DEF Receiving
    <3> QED
      BY <3>1 DEF Envelopes
  <2>4. \A y \in Strands(t) : y = x \/ \E s \in existing : y \in Strands(s)
    <3> HIDE DEF existing
    <3> QED
      BY <2>2, AcceptedStrands
  <2> HIDE DEF t, x
  <2>5. \A s \in j.got \union R : \A y \in Strands(s) : y \in StrandsOf(p) \/ y = x
    BY <1>3, <2>2, <2>4 DEF StrandsOf
  <2>6. Adds(p, x)
    <3> HIDE DEF p, R
    <3> QED
      BY <1>3, <2>1, <2>5, StrandsKept DEF p
  <2> HIDE DEF h
  <2>7. \E eph, otp : h = x3dh(eph, p, otp) /\ Ephemeral(Peer(p), eph)
    BY <2>3 DEF h
  <2> QED
    BY <1>2, <2>1, <2>6, <2>7 DEF Answers, x
<1> QED
  BY <1>4, <1>5

LEMMA BootstrapKind ==
    ASSUME Typed, NEW c \in Context, Bootstrap(c)
    PROVE  \E h : Starts(Dev(c), h)
<1> DEFINE p == Dev(c)
           q == Peer(p)
           otp == IF pool[q] = {} THEN {} ELSE {Min(pool[q])}
           d == <<p, nextKey[p] + 1>>
           s == Initiated(p, FreshKey(p), d, otp)
           h == x3dh(FreshKey(p), q, otp)
           x == <<h, initRatchetAsAlice(<<h>>, d, SpkOf(q))>>
           R == {s}
           j == [at |-> "seal", got |-> R, msg |-> job[c].msg]
<1>1. /\ rec' = [rec EXCEPT ![p] = R] /\ job' = [job EXCEPT ![c] = j]
      /\ nextKey' = [nextKey EXCEPT ![p] = nextKey[p] + 2]
      /\ UNCHANGED <<wire, past>>
  BY DEF Bootstrap, Goto
<1>2. p \in Party /\ nextKey \in [Party -> Nat] /\ nextKey[p] \in Nat /\ KeysOK
  BY JobOf DEF Typed, KeysOK
<1>3. d \in Made'
  <2>1. /\ nextKey' \in [Party -> Nat] /\ \A r \in Party : nextKey[r] <= nextKey'[r]
        /\ nextKey'[p] = nextKey[p] + 2
    BY <1>1, <1>2
  <2>2. \A r \in Party : \A n \in 0..(nextKey'[r] - 1) : <<r, n>> \in Made'
    BY <1>2, <2>1, MadeGrows
  <2>3. nextKey[p] + 1 \in 0..(nextKey'[p] - 1)
    BY <1>2, <2>1
  <2> QED
    BY <1>2, <2>2, <2>3
<1>4. \A y \in Strands(s) : y = x
  BY InitiatedStrands
<1>5. j.got = R
  OBVIOUS
<1> HIDE DEF otp, s, x, d, j
<1>6. \A u \in j.got \union R : \A y \in Strands(u) : y \in StrandsOf(p) \/ y = x
  BY <1>4, <1>5
<1>7. Adds(p, x)
  <2> HIDE DEF p, R
  <2> QED
    BY <1>1, <1>6, StrandsKept DEF p
<1> HIDE DEF h
<1>8. \E o : h = x3dh(FreshKey(p), Peer(p), o)
  BY DEF h
<1> QED
  BY <1>1, <1>3, <1>7, <1>8 DEF Starts, x, d

LEMMA CallKind ==
    ASSUME Typed, NEW c \in Context, NEW i, Passes(c, i)
    PROVE  Keeps
<1> DEFINE none == {}
<1>1. UNCHANGED <<wire, past, rec>>
  BY CallLoads
<1>2. PICK j : job' = [job EXCEPT ![c] = j] /\ (j.got = {} \/ j.got = rec[Dev(c)])
  BY CallLoads
<1>3. \A q \in Party : \A s \in Sess(q)' : s \in Sess(q) \/ (q = Dev(c) /\ s \in j.got \union none)
  BY <1>1, <1>2, SessNext
<1>4. \A q \in Party : \A s \in Sess(q)' : s \in Sess(q)
  BY <1>2, <1>3, SessAre
<1> QED
  BY <1>1, <1>4 DEF Keeps, StrandsOf

LEMMA ClearKind ==
    ASSUME Typed, UNCHANGED <<wire, past>>, job' = job,
           rec' = rec \/ \E p \in Party : rec' = [rec EXCEPT ![p] = {}]
    PROVE  Keeps
<1>1. \A q \in Party : rec'[q] = rec[q] \/ rec'[q] = {}
  BY DEF Typed, RecordsOK
<1>2. \A q \in Party : \A s \in Sess(q)' : s \in Sess(q)
  BY <1>1, SessAre
<1> QED
  BY <1>2 DEF Keeps, StrandsOf

LEMMA StepKinds ==
    ASSUME OneTab, Typed, [Next]_vars
    PROVE  \/ Keeps
           \/ \E p \in Party :
                 \/ \E x : SealsWith(p, x) \/ \E i : OpensWith(p, x, i)
                 \/ \E h : Answers(p, h) \/ Starts(p, h)
<1>1. ASSUME NEW c \in Context
      PROVE  Dev(c) \in Party
  BY Contexts
<1>2. ASSUME NEW c \in Context, Step(c)
      PROVE  \/ Keeps
             \/ \E x : SealsWith(Dev(c), x) \/ \E i : OpensWith(Dev(c), x, i)
             \/ \E h : Answers(Dev(c), h) \/ Starts(Dev(c), h)
  <2>1. CASE Bootstrap(c)
    BY <2>1, BootstrapKind
  <2>2. CASE Seal(c)
    BY <2>2, SealKind
  <2>3. CASE Accept(c)
    BY <2>3, AcceptKind
  <2>4. CASE Open(c)
    BY <2>4, OpenKind
  <2>5. CASE StartSend(c) \/ Burn(c) \/ Load(c)
    BY <2>5, CallKind DEF Passes
  <2> QED
    BY <1>2, <2>1, <2>2, <2>3, <2>4, <2>5 DEF Step
<1>3. ASSUME NEW c \in Context, NEW i, FetchFails(c) \/ Abandon(c) \/ StartReceive(c, i)
      PROVE  Keeps
  BY <1>3, CallKind DEF Passes
<1>4. ASSUME NEW p \in Party, NEW i, Clear(p) \/ Lose(p, i)
      PROVE  Keeps
  <2>1. UNCHANGED <<wire, past>> /\ job' = job /\ (rec' = rec \/ rec' = [rec EXCEPT ![p] = {}])
    BY <1>4 DEF Clear, Lose
  <2> QED
    BY <2>1, ClearKind
<1>5. CASE UNCHANGED vars
  BY <1>5, ClearKind DEF vars
<1> QED
  BY <1>1, <1>2, <1>3, <1>4, <1>5 DEF Next

----------------------------------------------------------------------------
(* How often a message is opened.                                           *)

LEMMA TimesOf ==
    ASSUME NEW S, NEW s \in Seq(S), NEW y, NEW x
    PROVE  /\ Times(s, x) \in Nat
           /\ Times(Append(s, y), x) = IF y = x THEN Times(s, x) + 1 ELSE Times(s, x)
<1> DEFINE n == Len(s)
           A == {k \in DOMAIN s : s[k] = x}
           t == Append(s, y)
           B == {k \in DOMAIN t : t[k] = x}
<1>1. /\ n \in Nat /\ DOMAIN s = 1..n /\ DOMAIN t = 1..(n + 1)
      /\ t[n + 1] = y /\ \A k \in 1..n : t[k] = s[k]
  OBVIOUS
<1>2. IsFiniteSet(A) /\ n + 1 \notin A
  <2>1. A \subseteq 1..n /\ n + 1 \notin 1..n
    BY <1>1
  <2>2. IsFiniteSet(1..n)
    BY <1>1, FS_Interval
  <2> HIDE DEF A
  <2> QED
    BY <2>1, <2>2, FS_Subset
<1>3. B = IF y = x THEN A \union {n + 1} ELSE A
  <2> HIDE DEF t
  <2>1. \A k : k \in 1..(n + 1) <=> k \in 1..n \/ k = n + 1
    BY <1>1
  <2>2. n + 1 \notin 1..n
    BY <1>1
  <2> HIDE DEF n
  <2> QED
    BY <1>1, <2>1, <2>2
<1> HIDE DEF A, B, n
<1>4. Cardinality(A) \in Nat /\ Cardinality(A \union {n + 1}) = Cardinality(A) + 1
  BY <1>2, FS_CardinalityType, FS_AddElement
<1> QED
  BY <1>3, <1>4 DEF Times, A, B

\* How often the reader q may open a message of handshake h.
Runs(q, h) == Max({1, Times(accepted[q], h)})

LEMMA MaxOne ==
    ASSUME NEW n \in Nat
    PROVE  Max({1, n}) = IF n = 0 THEN 1 ELSE n
<1> DEFINE m == IF n = 0 THEN 1 ELSE n
<1>1. m \in {1, n} /\ \A y \in {1, n} : m >= y
  OBVIOUS
<1>2. \A x \in {1, n} : (\A y \in {1, n} : x >= y) => x = m
  OBVIOUS
<1> HIDE DEF m
<1>3. Max({1, n}) \in {1, n} /\ \A y \in {1, n} : Max({1, n}) >= y
  BY <1>1 DEF Max
<1>4. Max({1, n}) = m
  BY <1>2, <1>3
<1> QED
  BY <1>4 DEF m

LEMMA RunsAre ==
    ASSUME Typed, NEW q \in Party, NEW h
    PROVE  /\ Times(accepted[q], h) \in Nat
           /\ Runs(q, h) = IF Times(accepted[q], h) = 0 THEN 1 ELSE Times(accepted[q], h)
<1>1. accepted[q] \in Seq(SUBSET Made)
  BY DEF Typed
<1> QED
  BY <1>1, TimesOf, MaxOne DEF Runs

(* The invariant.  A ratchet is bound to its handshake; a device that runs *)
(* as responder answers each run of a handshake it reads under, so before  *)
(* the first run nothing of it was read; and a message is opened no more   *)
(* often than its handshake was run, less often while a ratchet of that    *)
(* handshake can still yield its key.                                      *)
Bound ==
    \A p \in Party :
        /\ \A x \in StrandsOf(p) : Rooted(x[2], x[1])
        /\ \A i \in DOMAIN wire[p] : wire[p][i].msg.key.root # <<>>

Answered ==
    \A q \in Party :
        /\ \A x \in StrandsOf(q) : SpkOf(q) \in x[1] => Times(accepted[q], x[1]) > 0
        /\ \A i \in DOMAIN wire[Peer(q)] :
              LET h == Handshake(wire[Peer(q)][i].msg)
              IN  SpkOf(q) \in h /\ Times(accepted[q], h) = 0 => opened[Peer(q)][i] = 0

OpenedEnough ==
    \A q \in Party : \A i \in DOMAIN wire[Peer(q)] :
        LET m == wire[Peer(q)][i].msg
        IN  /\ opened[Peer(q)][i] <= Runs(q, Handshake(m))
            /\ \A x \in StrandsOf(q) :
                  x[1] = Handshake(m) /\ ~Spent(x[2], m.key)
                     => opened[Peer(q)][i] < Runs(q, Handshake(m))

Counted == Bound /\ Answered /\ OpenedEnough

LEMMA KeepsCounted ==
    ASSUME Counted, Keeps
    PROVE  Counted'
<1>1. /\ wire' = wire /\ opened' = opened /\ accepted' = accepted
      /\ \A q \in Party : \A x \in StrandsOf(q)' : x \in StrandsOf(q)
  BY DEF Keeps, past
<1>2. Bound'
  BY <1>1 DEF Counted, Bound
<1>3. Answered'
  BY <1>1 DEF Counted, Answered
<1>4. OpenedEnough'
  BY <1>1 DEF Counted, OpenedEnough, Runs
<1> QED
  BY <1>2, <1>3, <1>4 DEF Counted

\* The traffic, element by element.
LEMMA TrafficOf ==
    ASSUME Typed, NEW p \in Party
    PROVE  /\ DOMAIN wire = Party /\ DOMAIN opened = Party
           /\ wire[p] \in Seq(Envelopes(p, Made)) /\ opened[p] \in Seq(Nat)
           /\ DOMAIN wire[p] = 1..Len(wire[p]) /\ DOMAIN opened[p] = DOMAIN wire[p]
           /\ Len(wire[p]) \in Nat /\ Len(opened[p]) = Len(wire[p])
           /\ \A i \in DOMAIN wire[p] :
                 /\ wire[p][i].msg \in Message(Made) /\ wire[p][i].msg.key \in ChainKey(Made)
                 /\ wire[p][i].msg.header.dhPub[1] = p
                 /\ wire[p][i].msg.header.dhPub # NoPub
                 /\ opened[p][i] \in Nat
<1>1. /\ DOMAIN wire = Party /\ DOMAIN opened = Party
      /\ wire[p] \in Seq(Envelopes(p, Made)) /\ opened[p] \in Seq(Nat)
      /\ Len(opened[p]) = Len(wire[p])
  BY DEF Typed, TrafficOK
<1>2. /\ DOMAIN wire[p] = 1..Len(wire[p]) /\ DOMAIN opened[p] = DOMAIN wire[p]
      /\ Len(wire[p]) \in Nat
  BY <1>1
<1>3. ASSUME NEW i \in DOMAIN wire[p]
      PROVE  /\ wire[p][i].msg \in Message(Made) /\ wire[p][i].msg.key \in ChainKey(Made)
             /\ wire[p][i].msg.header.dhPub[1] = p
             /\ wire[p][i].msg.header.dhPub # NoPub
             /\ opened[p][i] \in Nat
  <2>1. wire[p][i] \in Envelopes(p, Made) /\ opened[p][i] \in Nat
    BY <1>1, <1>2
  <2>2. wire[p][i].msg \in Message(Made) /\ wire[p][i].msg.header.dhPub[1] = p
    BY <2>1 DEF Envelopes
  <2>3. wire[p][i].msg.header.dhPub \in Made /\ wire[p][i].msg.key \in ChainKey(Made)
    BY <2>2 DEF Message
  <2>4. wire[p][i].msg.header.dhPub # NoPub
    BY <2>3, MadeHolds DEF Typed
  <2> QED
    BY <2>1, <2>2, <2>3, <2>4
<1> QED
  BY <1>1, <1>2, <1>3

\* Sealing adds one message, not opened yet.
LEMMA SealTraffic ==
    ASSUME Typed, NEW p \in Party, NEW x, SealsWith(p, x)
    PROVE  LET n == Len(wire[p]) + 1
           IN  /\ n \notin DOMAIN wire[p] /\ n \in DOMAIN wire'[p]
               /\ wire'[p][n].msg = Sealed(x[2]) /\ opened'[p][n] = 0
               /\ \A i \in DOMAIN wire[p] : i \in DOMAIN wire'[p] /\ wire'[p][i] = wire[p][i]
                                            /\ opened'[p][i] = opened[p][i]
               /\ \A i \in DOMAIN wire'[p] : i \in DOMAIN wire[p] \/ i = n
               /\ wire'[Peer(p)] = wire[Peer(p)] /\ opened'[Peer(p)] = opened[Peer(p)]
               /\ Len(wire'[p]) = n
<1>1. PICK e : e.msg = Sealed(x[2]) /\ wire' = [wire EXCEPT ![p] = Append(wire[p], e)]
  BY DEF SealsWith
<1>2. opened' = [opened EXCEPT ![p] = Append(opened[p], 0)]
  BY DEF SealsWith
<1>3. Peer(p) \in Party /\ Peer(p) # p /\ DOMAIN wire = Party /\ DOMAIN opened = Party
  BY Peers, TrafficOf
<1>4. /\ wire'[p] = Append(wire[p], e) /\ opened'[p] = Append(opened[p], 0)
      /\ wire'[Peer(p)] = wire[Peer(p)] /\ opened'[Peer(p)] = opened[Peer(p)]
  BY <1>1, <1>2, <1>3
<1>5. /\ wire[p] \in Seq(Envelopes(p, Made)) /\ opened[p] \in Seq(Nat)
      /\ Len(opened[p]) = Len(wire[p])
  BY TrafficOf
<1> DEFINE n == Len(wire[p]) + 1
<1>6. /\ DOMAIN wire[p] = 1..Len(wire[p]) /\ Len(wire[p]) \in Nat
      /\ Len(wire'[p]) = n /\ DOMAIN wire'[p] = 1..n
      /\ wire'[p][n] = e /\ opened'[p][n] = 0
  BY <1>4, <1>5
<1>7. \A i \in DOMAIN wire[p] : wire'[p][i] = wire[p][i] /\ opened'[p][i] = opened[p][i]
  BY <1>4, <1>5
<1>8. /\ n \notin DOMAIN wire[p] /\ n \in DOMAIN wire'[p]
      /\ \A i \in DOMAIN wire[p] : i \in DOMAIN wire'[p]
      /\ \A i \in DOMAIN wire'[p] : i \in DOMAIN wire[p] \/ i = n
  BY <1>6
<1> QED
  BY <1>1, <1>4, <1>6, <1>7, <1>8

LEMMA OpenTraffic ==
    ASSUME Typed, NEW p \in Party, NEW x, NEW i, OpensWith(p, x, i)
    PROVE  /\ wire' = wire /\ opened'[Peer(p)][i] = opened[Peer(p)][i] + 1
           /\ i \in DOMAIN wire[Peer(p)]
           /\ \A j \in DOMAIN wire[Peer(p)] : j # i => opened'[Peer(p)][j] = opened[Peer(p)][j]
           /\ opened'[p] = opened[p]
<1>1. Peer(p) \in Party /\ Peer(p) # p /\ DOMAIN opened = Party
  BY Peers, TrafficOf
<1>2. opened' = [opened EXCEPT ![Peer(p)][i] = opened[Peer(p)][i] + 1]
      /\ wire' = wire /\ i \in DOMAIN wire[Peer(p)]
  BY DEF OpensWith
<1>3. opened[Peer(p)] \in Seq(Nat) /\ DOMAIN opened[Peer(p)] = DOMAIN wire[Peer(p)]
  BY <1>1, TrafficOf
<1>4. opened'[Peer(p)] = [opened[Peer(p)] EXCEPT ![i] = opened[Peer(p)][i] + 1]
      /\ opened'[p] = opened[p]
  BY <1>1, <1>2
<1> QED
  BY <1>2, <1>3, <1>4

LEMMA SealCounted ==
    ASSUME Typed, Counted, NEW p \in Party, NEW x, SealsWith(p, x)
    PROVE  Counted'
<1> DEFINE n == Len(wire[p]) + 1
           m == Sealed(x[2])
           t == AfterEncrypt(x[2])
           r == Peer(p)
<1>1. /\ x \in StrandsOf(p) /\ CanEncrypt(x[2]) /\ accepted' = accepted
      /\ \A q \in Party : \A y \in StrandsOf(q)' :
            y \in StrandsOf(q) \/ (q = p /\ y = <<x[1], t>>)
  BY DEF SealsWith, Becomes
<1>2. /\ n \notin DOMAIN wire[p] /\ n \in DOMAIN wire'[p]
      /\ wire'[p][n].msg = m /\ opened'[p][n] = 0
      /\ \A i \in DOMAIN wire[p] : wire'[p][i] = wire[p][i] /\ opened'[p][i] = opened[p][i]
      /\ \A i \in DOMAIN wire'[p] : i \in DOMAIN wire[p] \/ i = n
      /\ wire'[r] = wire[r] /\ opened'[r] = opened[r]
  BY SealTraffic
<1>3. r \in Party /\ r # p /\ Peer(r) = p /\ \A q \in Party : q = p \/ q = r
  BY Peers
<1>4. IsRatchetState(x[2], Made) /\ Rooted(x[2], x[1])
  BY <1>1, StrandsOfAre DEF Counted, Bound
<1>5. Under(m.key.root, x[1]) /\ Rooted(t, x[1]) /\ \A key : Spent(t, key) <=> Spent(x[2], key)
  BY <1>1, <1>4, EncryptRooted, EncryptStep
<1> HIDE DEF t, m, n
<1>6. Bound'
  <2>1. \A q \in Party : \A y \in StrandsOf(q)' : Rooted(y[2], y[1])
    BY <1>1, <1>5 DEF Counted, Bound
  <2>2. \A i \in DOMAIN wire'[p] : wire'[p][i].msg.key.root # <<>>
    BY <1>2, <1>5 DEF Counted, Bound, Under
  <2>3. \A i \in DOMAIN wire'[r] : wire'[r][i].msg.key.root # <<>>
    BY <1>2, <1>3 DEF Counted, Bound
  <2> QED
    BY <1>3, <2>1, <2>2, <2>3 DEF Bound
<1> HIDE DEF r
<1>7. Answered'
  <2>1. \A q \in Party : \A y \in StrandsOf(q)' :
           SpkOf(q) \in y[1] => Times(accepted[q], y[1]) > 0
    BY <1>1 DEF Counted, Answered
  <2>2. \A i \in DOMAIN wire'[p] :
           LET h == Handshake(wire'[p][i].msg)
           IN  SpkOf(r) \in h /\ Times(accepted[r], h) = 0 => opened'[p][i] = 0
    BY <1>2, <1>3 DEF Counted, Answered
  <2>3. \A i \in DOMAIN wire'[r] :
           LET h == Handshake(wire'[r][i].msg)
           IN  SpkOf(p) \in h /\ Times(accepted[p], h) = 0 => opened'[r][i] = 0
    BY <1>2, <1>3 DEF Counted, Answered, r
  <2> QED
    BY <1>1, <1>3, <2>1, <2>2, <2>3 DEF Answered, r
<1>8. OpenedEnough'
  <2>1. \A q \in Party : \A h : Runs(q, h)' = Runs(q, h)
    BY <1>1 DEF Runs
  <2>2. \A h : 0 < Runs(r, h) /\ 0 <= Runs(r, h)
    BY <1>3, RunsAre
  <2>3. \A i \in DOMAIN wire'[p] :
           LET k == wire'[p][i].msg
           IN  /\ opened'[p][i] <= Runs(r, Handshake(k))
               /\ \A y \in StrandsOf(r)' :
                     y[1] = Handshake(k) /\ ~Spent(y[2], k.key)
                        => opened'[p][i] < Runs(r, Handshake(k))
    <3>1. \A y \in StrandsOf(r)' : y \in StrandsOf(r)
      BY <1>1, <1>3
    <3> QED
      BY <1>2, <1>3, <2>2, <3>1 DEF Counted, OpenedEnough
  <2>4. \A i \in DOMAIN wire'[r] :
           LET k == wire'[r][i].msg
           IN  /\ opened'[r][i] <= Runs(p, Handshake(k))
               /\ \A y \in StrandsOf(p)' :
                     y[1] = Handshake(k) /\ ~Spent(y[2], k.key)
                        => opened'[r][i] < Runs(p, Handshake(k))
    <3>1. ASSUME NEW i \in DOMAIN wire[r]
          PROVE  LET k == wire[r][i].msg
                 IN  /\ opened[r][i] <= Runs(p, Handshake(k))
                     /\ \A y \in StrandsOf(p)' :
                           y[1] = Handshake(k) /\ ~Spent(y[2], k.key)
                              => opened[r][i] < Runs(p, Handshake(k))
      <4> DEFINE k == wire[r][i].msg
      <4>1. /\ opened[r][i] <= Runs(p, Handshake(k))
            /\ \A y \in StrandsOf(p) :
                  y[1] = Handshake(k) /\ ~Spent(y[2], k.key) => opened[r][i] < Runs(p, Handshake(k))
        BY DEF Counted, OpenedEnough, r
      <4> HIDE DEF k
      <4>2. ASSUME NEW y \in StrandsOf(p)', y[1] = Handshake(k), ~Spent(y[2], k.key)
            PROVE  opened[r][i] < Runs(p, Handshake(k))
        <5>1. CASE y \in StrandsOf(p)
          BY <4>1, <4>2, <5>1
        <5>2. CASE y = <<x[1], t>>
          BY <1>1, <1>5, <4>1, <4>2, <5>2
        <5> QED
          BY <1>1, <5>1, <5>2
      <4> QED
        BY <4>1, <4>2 DEF k
    <3> QED
      BY <1>2, <3>1
  <2> QED
    BY <1>3, <2>1, <2>3, <2>4 DEF OpenedEnough, r
<1> QED
  BY <1>6, <1>7, <1>8 DEF Counted

LEMMA OpenCounted ==
    ASSUME Typed, Counted, NEW p \in Party, NEW x, NEW i, OpensWith(p, x, i)
    PROVE  Counted'
<1> DEFINE r == Peer(p)
           m == wire[r][i].msg
           f == FreshKey(p)
           t == AfterDecrypt(x[2], m, f)
           L == Made \union {f}
<1>1. /\ x \in StrandsOf(p) /\ i \in DOMAIN wire[r] /\ Opens(x[2], m, f)
      /\ wire' = wire /\ accepted' = accepted
      /\ \A q \in Party : \A y \in StrandsOf(q)' :
            \/ y \in StrandsOf(q) /\ (q = p => y[1] # x[1])
            \/ q = p /\ y = <<x[1], t>>
  BY DEF OpensWith, Becomes
<1>2. /\ opened'[r][i] = opened[r][i] + 1 /\ opened'[p] = opened[p]
      /\ \A j \in DOMAIN wire[r] : j # i => opened'[r][j] = opened[r][j]
  BY OpenTraffic
<1>3. r \in Party /\ r # p /\ Peer(r) = p /\ \A q \in Party : q = p \/ q = r
  BY Peers
<1>4. IsRatchetState(x[2], Made) /\ Tidy(p, x[2]) /\ Rooted(x[2], x[1])
  BY <1>1, StrandsOfAre DEF Counted, Bound
<1>5. /\ m \in Message(Made) /\ m.header.dhPub[1] # p /\ m.header.dhPub # NoPub
      /\ \A j \in DOMAIN wire[r] : wire[r][j].msg.key \in ChainKey(Made) /\ opened[r][j] \in Nat
  BY <1>1, <1>3, TrafficOf
<1>6. Handshake(m) = x[1] /\ Rooted(t, x[1])
  BY <1>1, <1>4, <1>5, DecryptRootedFresh DEF Under, Handshake
<1>7. /\ ~Spent(x[2], m.key) /\ Spent(t, m.key)
      /\ \A j \in DOMAIN wire[r] :
            Spent(x[2], wire[r][j].msg.key) => Spent(t, wire[r][j].msg.key)
  <2>1. f[1] = p /\ f \in L /\ Made \subseteq L
    BY DEF FreshKey
  <2>2. ChainKey(Made) \subseteq ChainKey(L)
    BY <2>1, RootGrows
  <2>a. Opens(x[2], m, f) /\ m \in Message(Made) /\ m.header.dhPub[1] # p /\ m.header.dhPub # NoPub
    BY <1>1, <1>5
  <2> HIDE DEF m, f, L
  <2> DEFINE s == x[2]
  <2>b. IsRatchetState(s, Made) /\ Tidy(p, s) /\ Opens(s, m, f)
    BY <1>4, <2>a
  <2> HIDE DEF s
  <2>c. /\ NoneReturns(s, AfterDecrypt(s, m, f), L) /\ ~Spent(s, m.key)
        /\ Spent(AfterDecrypt(s, m, f), m.key)
    BY <2>1, <2>a, <2>b, DecryptFresh
  <2>3. NoneReturns(x[2], t, L) /\ ~Spent(x[2], m.key) /\ Spent(t, m.key)
    BY <2>c DEF s
  <2> HIDE DEF t
  <2> QED
    BY <1>5, <2>2, <2>3 DEF NoneReturns
<1> HIDE DEF m, f, t, L
<1>8. Bound'
  <2>1. \A q \in Party : \A y \in StrandsOf(q)' : Rooted(y[2], y[1])
    BY <1>1, <1>6 DEF Counted, Bound
  <2> QED
    BY <1>1, <2>1 DEF Counted, Bound
<1>9. Answered'
  <2>1. \A q \in Party : \A y \in StrandsOf(q)' :
           SpkOf(q) \in y[1] => Times(accepted[q], y[1]) > 0
    BY <1>1 DEF Counted, Answered
  <2>2. \A j \in DOMAIN wire[r] :
           LET h == Handshake(wire[r][j].msg)
           IN  SpkOf(p) \in h /\ Times(accepted[p], h) = 0 => opened'[r][j] = 0
    <3>1. SpkOf(p) \in x[1] => Times(accepted[p], x[1]) # 0
      BY <1>1 DEF Counted, Answered
    <3> QED
      BY <1>2, <1>6, <3>1 DEF Counted, Answered, r, m
  <2>3. \A j \in DOMAIN wire[p] :
           LET h == Handshake(wire[p][j].msg)
           IN  SpkOf(r) \in h /\ Times(accepted[r], h) = 0 => opened'[p][j] = 0
    BY <1>2, <1>3 DEF Counted, Answered
  <2> QED
    BY <1>1, <1>3, <2>1, <2>2, <2>3 DEF Answered
<1>10. OpenedEnough'
  <2>1. \A q \in Party : \A h : Runs(q, h)' = Runs(q, h)
    BY <1>1 DEF Runs
  <2>2. ASSUME NEW j \in DOMAIN wire[r]
        PROVE  LET k == wire[r][j].msg
               IN  /\ opened'[r][j] <= Runs(p, Handshake(k))
                   /\ \A y \in StrandsOf(p)' :
                         y[1] = Handshake(k) /\ ~Spent(y[2], k.key)
                            => opened'[r][j] < Runs(p, Handshake(k))
    <3> DEFINE k == wire[r][j].msg
               n == Runs(p, Handshake(k))
    <3>1. /\ opened[r][j] <= n
          /\ \A y \in StrandsOf(p) : y[1] = Handshake(k) /\ ~Spent(y[2], k.key) => opened[r][j] < n
      BY DEF Counted, OpenedEnough, r
    <3>2. n \in Nat /\ opened[r][j] \in Nat
      BY <1>5, RunsAre
    <3>3. Spent(x[2], k.key) => Spent(t, k.key)
      BY <1>7
    <3>4. j = i => k = m
      BY DEF m
    <3> HIDE DEF k, n
    <3>5. CASE j = i
      <4>1. k = m /\ opened[r][j] < n
        BY <1>1, <1>6, <1>7, <3>1, <3>4, <3>5
      <4>2. opened'[r][j] <= n
        BY <1>2, <3>2, <3>5, <4>1
      <4>3. \A y \in StrandsOf(p)' : y[1] = Handshake(k) => Spent(y[2], k.key)
        BY <1>1, <1>6, <1>7, <4>1
      <4> QED
        BY <4>2, <4>3 DEF k, n
    <3>6. CASE j # i
      <4>1. opened'[r][j] = opened[r][j]
        BY <1>2, <3>6
      <4>2. ASSUME NEW y \in StrandsOf(p)', y[1] = Handshake(k), ~Spent(y[2], k.key)
            PROVE  opened[r][j] < n
        <5>1. CASE y \in StrandsOf(p)
          BY <3>1, <4>2, <5>1
        <5>2. CASE y = <<x[1], t>>
          BY <1>1, <3>1, <3>3, <4>2, <5>2
        <5> QED
          BY <1>1, <5>1, <5>2
      <4> QED
        BY <3>1, <4>1, <4>2 DEF k, n
    <3> QED
      BY <3>5, <3>6
  <2>3. ASSUME NEW j \in DOMAIN wire[p]
        PROVE  LET k == wire[p][j].msg
               IN  /\ opened'[p][j] <= Runs(r, Handshake(k))
                   /\ \A y \in StrandsOf(r)' :
                         y[1] = Handshake(k) /\ ~Spent(y[2], k.key)
                            => opened'[p][j] < Runs(r, Handshake(k))
    <3>1. \A y \in StrandsOf(r)' : y \in StrandsOf(r)
      BY <1>1, <1>3
    <3> QED
      BY <1>2, <1>3, <3>1 DEF Counted, OpenedEnough
  <2> QED
    BY <1>1, <1>3, <2>1, <2>2, <2>3 DEF OpenedEnough
<1> QED
  BY <1>8, <1>9, <1>10 DEF Counted

LEMMA AnswerCounted ==
    ASSUME Typed, Counted, NEW p \in Party, NEW h, Answers(p, h)
    PROVE  Counted'
<1> DEFINE r == Peer(p)
           b == initRatchetAsBob(<<h>>, SpkOf(p))
           n == Times(accepted[p], h)
<1>1. /\ wire' = wire /\ opened' = opened
      /\ accepted' = [accepted EXCEPT ![p] = Append(accepted[p], h)]
      /\ \A q \in Party : \A y \in StrandsOf(q)' : y \in StrandsOf(q) \/ (q = p /\ y = <<h, b>>)
  BY DEF Answers, Adds
<1>2. SpkOf(p) \in h
  BY DEF Answers, x3dh
<1>3. r \in Party /\ r # p /\ Peer(r) = p /\ \A q \in Party : q = p \/ q = r
  BY Peers
<1>4. /\ accepted \in [Party -> Seq(SUBSET Made)]
      /\ accepted'[p] = Append(accepted[p], h) /\ accepted'[r] = accepted[r]
  BY <1>1, <1>3 DEF Typed
<1>5. /\ n \in Nat
      /\ \A g : /\ Times(accepted[p], g) \in Nat
                /\ Times(accepted'[p], g) = IF g = h THEN n + 1 ELSE Times(accepted[p], g)
  <2>1. accepted[p] \in Seq(SUBSET Made)
    BY <1>4
  <2>2. ASSUME NEW g
        PROVE  /\ Times(accepted[p], g) \in Nat
               /\ Times(accepted'[p], g) = IF h = g THEN Times(accepted[p], g) + 1
                                                   ELSE Times(accepted[p], g)
    BY <1>4, <2>1, TimesOf
  <2> QED
    BY <2>2
<1>6. \A g : /\ Times(accepted'[p], g) >= Times(accepted[p], g)
             /\ Times(accepted'[p], g) \in Nat /\ Times(accepted'[r], g) = Times(accepted[r], g)
  <2>1. \A g : Times(accepted'[r], g) = Times(accepted[r], g)
    BY <1>4
  <2> HIDE DEF n
  <2>2. ASSUME NEW g
        PROVE  Times(accepted'[p], g) >= Times(accepted[p], g) /\ Times(accepted'[p], g) \in Nat
    <3>1. g = h => n = Times(accepted[p], g)
      BY DEF n
    <3> QED
      BY <1>5, <3>1
  <2> QED
    BY <2>1, <2>2
<1>7. Rooted(b, h)
  BY InitsRooted
<1> HIDE DEF b
<1>8. Bound'
  <2>1. \A q \in Party : \A y \in StrandsOf(q)' : Rooted(y[2], y[1])
    BY <1>1, <1>7 DEF Counted, Bound
  <2> QED
    BY <1>1, <2>1 DEF Counted, Bound
<1>9. Answered'
  <2>1. \A y \in StrandsOf(p)' : SpkOf(p) \in y[1] => Times(accepted'[p], y[1]) > 0
    BY <1>1, <1>5, <1>6 DEF Counted, Answered
  <2>2. \A y \in StrandsOf(r)' : SpkOf(r) \in y[1] => Times(accepted'[r], y[1]) > 0
    BY <1>1, <1>3, <1>6 DEF Counted, Answered
  <2>3. \A j \in DOMAIN wire[r] :
           LET g == Handshake(wire[r][j].msg)
           IN  SpkOf(p) \in g /\ Times(accepted'[p], g) = 0 => opened[r][j] = 0
    BY <1>5 DEF Counted, Answered
  <2>4. \A j \in DOMAIN wire[p] :
           LET g == Handshake(wire[p][j].msg)
           IN  SpkOf(r) \in g /\ Times(accepted'[r], g) = 0 => opened[p][j] = 0
    BY <1>3, <1>6 DEF Counted, Answered
  <2> QED
    BY <1>1, <1>3, <2>1, <2>2, <2>3, <2>4 DEF Answered
<1>10. OpenedEnough'
  <2> DEFINE N(q, g) == Max({1, Times(accepted'[q], g)})
  <2>1. ASSUME NEW g
        PROVE  /\ Runs(p, g) \in Nat /\ N(r, g) = Runs(r, g)
               /\ N(p, g) = IF g = h /\ n > 0 THEN Runs(p, g) + 1 ELSE Runs(p, g)
               /\ Runs(p, g) > 0
    <3>1. Runs(p, g) = IF Times(accepted[p], g) = 0 THEN 1 ELSE Times(accepted[p], g)
      BY RunsAre
    <3>2. N(p, g) = IF Times(accepted'[p], g) = 0 THEN 1 ELSE Times(accepted'[p], g)
      BY <1>6, MaxOne
    <3>3. N(r, g) = Runs(r, g)
      BY <1>4 DEF Runs
    <3> HIDE DEF n
    <3>4. g = h => Times(accepted[p], g) = n
      BY DEF n
    <3> QED
      BY <1>5, <3>1, <3>2, <3>3, <3>4
  <2>2. ASSUME NEW j \in DOMAIN wire[r]
        PROVE  LET k == wire[r][j].msg
               IN  /\ opened[r][j] <= N(p, Handshake(k))
                   /\ \A y \in StrandsOf(p)' :
                         y[1] = Handshake(k) /\ ~Spent(y[2], k.key)
                            => opened[r][j] < N(p, Handshake(k))
    <3> DEFINE k == wire[r][j].msg
               g == Handshake(k)
               o == opened[r][j]
    <3>1. /\ o <= Runs(p, g) /\ o \in Nat
          /\ \A y \in StrandsOf(p) : y[1] = g /\ ~Spent(y[2], k.key) => o < Runs(p, g)
      BY <1>3, TrafficOf DEF Counted, OpenedEnough, r
    <3>2. g = h /\ n = 0 => o = 0
      BY <1>2 DEF Counted, Answered, r
    <3> HIDE DEF k, g, o, n, N
    <3>3. o <= N(p, g)
      BY <2>1, <3>1
    <3>4. g = h => o < N(p, g)
      BY <1>5, <2>1, <3>1, <3>2
    <3>5. ASSUME NEW y \in StrandsOf(p)', y[1] = g, ~Spent(y[2], k.key)
          PROVE  o < N(p, g)
      <4>1. CASE g = h
        BY <3>4, <4>1
      <4>2. CASE g # h
        <5>1. y \in StrandsOf(p)
          BY <1>1, <3>5, <4>2
        <5> QED
          BY <2>1, <3>1, <3>5, <4>2, <5>1
      <4> QED
        BY <4>1, <4>2
    <3> QED
      BY <3>3, <3>5 DEF k, g, o
  <2>3. ASSUME NEW j \in DOMAIN wire[p]
        PROVE  LET k == wire[p][j].msg
               IN  /\ opened[p][j] <= N(r, Handshake(k))
                   /\ \A y \in StrandsOf(r)' :
                         y[1] = Handshake(k) /\ ~Spent(y[2], k.key)
                            => opened[p][j] < N(r, Handshake(k))
    <3>1. \A y \in StrandsOf(r)' : y \in StrandsOf(r)
      BY <1>1, <1>3
    <3>2. LET k == wire[p][j].msg
          IN  /\ opened[p][j] <= Runs(r, Handshake(k))
              /\ \A y \in StrandsOf(r) :
                    y[1] = Handshake(k) /\ ~Spent(y[2], k.key)
                       => opened[p][j] < Runs(r, Handshake(k))
      BY <1>3 DEF Counted, OpenedEnough
    <3> HIDE DEF N, r
    <3> QED
      BY <2>1, <3>1, <3>2
  <2>4. \A q \in Party : \A j \in DOMAIN wire[Peer(q)] :
           LET k == wire[Peer(q)][j].msg
           IN  /\ opened[Peer(q)][j] <= N(q, Handshake(k))
               /\ \A y \in StrandsOf(q)' :
                     y[1] = Handshake(k) /\ ~Spent(y[2], k.key)
                        => opened[Peer(q)][j] < N(q, Handshake(k))
    <3> HIDE DEF N
    <3> QED
      BY <1>3, <2>2, <2>3
  <2> QED
    BY <1>1, <2>4 DEF OpenedEnough, Runs
<1> QED
  BY <1>8, <1>9, <1>10 DEF Counted

LEMMA StartCounted ==
    ASSUME Typed, Counted, NEW p \in Party, NEW h, Starts(p, h)
    PROVE  Counted'
<1> DEFINE r == Peer(p)
           a == initRatchetAsAlice(<<h>>, <<p, nextKey[p] + 1>>, SpkOf(r))
<1>1. /\ wire' = wire /\ opened' = opened /\ accepted' = accepted
      /\ \A q \in Party : \A y \in StrandsOf(q)' : y \in StrandsOf(q) \/ (q = p /\ y = <<h, a>>)
  BY DEF Starts, Adds, past
<1>2. PICK otp : h = x3dh(FreshKey(p), r, otp)
  BY DEF Starts
<1>3. r \in Party /\ r # p /\ Peer(r) = p /\ \A q \in Party : q = p \/ q = r
  BY Peers
<1>4. Rooted(a, h)
  BY InitsRooted
<1> HIDE DEF a
<1>5. SpkOf(p) \notin h
  <2>1. SpkOf(p) # SpkOf(r) /\ \A k : SpkOf(p) # OtpOf(r, k)
    BY <1>3 DEF SpkOf, OtpOf
  <2>2. SpkOf(p) # FreshKey(p)
    <3>1. nextKey[p] # 0
      BY Bounds DEF Typed, KeysOK
    <3> QED
      BY <3>1 DEF SpkOf, FreshKey
  <2> QED
    BY <1>2, <2>1, <2>2 DEF x3dh
<1>6. FreshKey(p) \notin Made /\ FreshKey(p) \in h
  <2>1. nextKey[p] \in Nat
    BY DEF Typed, KeysOK
  <2> QED
    BY <1>2, <2>1, MadeHolds DEF Typed, FreshKey, x3dh
<1>7. ASSUME NEW q \in Party, NEW j \in DOMAIN wire[q]
      PROVE  Handshake(wire[q][j].msg) # h
  <2> DEFINE root == wire[q][j].msg.key.root
  <2>1. wire[q][j].msg.key \in ChainKey(Made) /\ root # <<>>
    BY TrafficOf DEF Counted, Bound
  <2>2. root \in Seq(SUBSET Made)
    BY <2>1 DEF ChainKey, Root
  <2>3. root[1] \in SUBSET Made
    BY <2>1, <2>2
  <2> QED
    BY <1>6, <2>3 DEF Handshake
<1>8. Bound'
  <2>1. \A q \in Party : \A y \in StrandsOf(q)' : Rooted(y[2], y[1])
    BY <1>1, <1>4 DEF Counted, Bound
  <2> QED
    BY <1>1, <2>1 DEF Counted, Bound
<1>9. Answered'
  <2>1. \A q \in Party : \A y \in StrandsOf(q)' :
           SpkOf(q) \in y[1] => Times(accepted[q], y[1]) > 0
    BY <1>1, <1>5 DEF Counted, Answered
  <2> QED
    BY <1>1, <2>1 DEF Counted, Answered
<1>10. OpenedEnough'
  <2>1. \A q \in Party : \A g : Runs(q, g)' = Runs(q, g)
    BY <1>1 DEF Runs
  <2>2. \A q \in Party : \A j \in DOMAIN wire[Peer(q)] : \A y \in StrandsOf(q)' :
           y[1] = Handshake(wire[Peer(q)][j].msg) => y \in StrandsOf(q)
    BY <1>1, <1>3, <1>7
  <2> HIDE DEF r
  <2> QED
    BY <1>1, <2>1, <2>2 DEF Counted, OpenedEnough, Runs
<1> QED
  BY <1>8, <1>9, <1>10 DEF Counted

LEMMA InitCounted == Init => Counted
<1> SUFFICES ASSUME Init PROVE Counted
  OBVIOUS
<1>1. \A p \in Party : Peer(p) \in Party
  BY Peers
<1>2. \A p \in Party : StrandsOf(p) = {} /\ DOMAIN wire[p] = {} /\ DOMAIN wire[Peer(p)] = {}
  <2>1. \A p \in Party : Sess(p) = {}
    BY SessAre DEF Init, Idle
  <2>2. \A p \in Party : wire[p] = <<>>
    BY DEF Init
  <2>3. \A p \in Party : DOMAIN wire[p] = {}
    BY <2>2
  <2> QED
    BY <1>1, <2>1, <2>3 DEF StrandsOf
<1> QED
  BY <1>2 DEF Counted, Bound, Answered, OpenedEnough

LEMMA StepCounted == OneTab /\ Typed /\ Counted /\ [Next]_vars => Counted'
<1> SUFFICES ASSUME OneTab, Typed, Counted, [Next]_vars PROVE Counted'
  OBVIOUS
<1>1. CASE Keeps
  BY <1>1, KeepsCounted
<1>2. ASSUME NEW p \in Party, NEW x, SealsWith(p, x)
      PROVE  Counted'
  BY <1>2, SealCounted
<1>3. ASSUME NEW p \in Party, NEW x, NEW i, OpensWith(p, x, i)
      PROVE  Counted'
  BY <1>3, OpenCounted
<1>4. ASSUME NEW p \in Party, NEW h, Answers(p, h)
      PROVE  Counted'
  BY <1>4, AnswerCounted
<1>5. ASSUME NEW p \in Party, NEW h, Starts(p, h)
      PROVE  Counted'
  BY <1>5, StartCounted
<1> QED
  BY <1>1, <1>2, <1>3, <1>4, <1>5, StepKinds

\* decryptFromPeer: with one tab a device, a message is read once for each time
\* its reader ran its handshake, once if it did so once or, as the initiator,
\* never.  A message that comes again is not read again, whichever ratchet of
\* the record could hold its key, and whatever was superseded or reset since.
THEOREM OpenedOncePerRun == ASSUME OneTab PROVE Spec => []OpenedOncePerHandshake
<1>1. Counted => OpenedOncePerHandshake
  BY Peers DEF Counted, OpenedEnough, OpenedOncePerHandshake, Runs
<1> QED
  BY <1>1, TypedHolds, InitCounted, StepCounted, PTL DEF Spec

----------------------------------------------------------------------------
(***************************************************************************)
(* The two ratchets of one handshake.  S has what one side has sealed, U   *)
(* the part of it the other side has not opened; the length of a root is   *)
(* the turn of the chain that hangs on it, and the sides seal in turns.    *)
(***************************************************************************)
Turn(m) == Len(m.key.root)
Sent(S, l, c) == \E m \in S : Turn(m) = l /\ m.header.counter = c

\* What was sealed: a pair a turn, a root a turn, each chain without gaps, and
\* previousChainLength is the length of the chain before.
Written(S) ==
    /\ \A m, n \in S :
          /\ Turn(m) = Turn(n) <=> m.header.dhPub = n.header.dhPub
          /\ Turn(m) = Turn(n) => m.key.root = n.key.root
    /\ \A m \in S :
          /\ m.key.n = m.header.counter
          /\ \A c \in Nat : /\ c < m.header.counter => Sent(S, Turn(m), c)
                            /\ c < m.header.prevN <=> Sent(S, Turn(m) - 2, c)

\* Where the side that seals stands.
Seals(S, t) ==
    LET l == Len(t.rootKey)
    IN  /\ t.sendChain \subseteq {KeyOf(t.rootKey, t.sendCounter)}
        /\ \A m \in S : /\ Turn(m) <= l
                        /\ Turn(m) = l <=> m.header.dhPub = t.dhSelf
                        /\ Turn(m) = l => m.key.root = t.rootKey
        /\ \A c \in Nat : /\ c < t.sendCounter <=> Sent(S, l, c)
                          /\ c < t.prevSendCounter <=> Sent(S, l - 2, c)

\* The message is on the chain after the one at hand, it is on the one at hand
\* and still to come, its key is in the cache.
IsNext(r, m) == Turn(m) = Len(r.rootKey) + 1
ToCome(r, m) == Turn(m) = Len(r.rootKey) - 1 /\ m.header.counter >= r.recvCounter
InCache(r, m) == HasSlot(r, m.header.dhPub, m.header.counter)

\* Where the side that reads stands.
Reads(S, U, r) ==
    LET l == Len(r.rootKey)
    IN  /\ \A m \in S :
              /\ Turn(m) < l \/ (IsNext(r, m) /\ m.key.root = RecvRoot(r, m.header.dhPub))
              /\ Turn(m) = l - 1 <=> m.header.dhPub = r.dhRemote
              /\ Turn(m) < l => r.recvChain # {}
              /\ Turn(m) = l - 1 => r.recvChain = {KeyOf(m.key.root, r.recvCounter)}
              /\ m \in U => IsNext(r, m) \/ ToCome(r, m) \/ InCache(r, m)
              /\ InCache(r, m) => ~IsNext(r, m) /\ ~ToCome(r, m)
        /\ \A x, c : HasSlot(r, x, c) =>
              \E m \in S : /\ m.header.dhPub = x /\ m.header.counter = c
                           /\ m.key = r.skipped[x][c]
        /\ \A c \in Nat : c < r.recvCounter => Sent(S, l - 1, c)

\* One of the two is a turn ahead.
Ahead(t, r) ==
    /\ t.rootKey = Append(r.rootKey, {r.dhSelf, t.dhSelf})
    /\ t.dhRemote = r.dhSelf /\ t.dhSelf # r.dhRemote
    /\ t.recvChain \subseteq {KeyOf(r.rootKey, t.recvCounter)}
    /\ t.recvChain = {} => r.sendChain = {}

\* The sizes these are about.
LEMMA TurnsAre ==
    ASSUME NEW K
    PROVE  /\ \A m \in Message(K) :
                 /\ Turn(m) \in Nat /\ m.header.counter \in Nat /\ m.header.prevN \in Nat
                 /\ m.key = KeyOf(m.key.root, m.key.n) /\ m.key.root \in Root(K)
                 /\ m.header.dhPub \in K
           /\ \A s : IsRatchetState(s, K) =>
                 /\ Len(s.rootKey) \in Nat /\ s.rootKey \in Root(K)
                 /\ s.recvCounter \in Nat /\ s.sendCounter \in Nat
                 /\ s.prevSendCounter \in Nat /\ s.dhSelf \in K
<1>1. \A root \in Root(K) : Len(root) \in Nat
  BY DEF Root
<1>2. ASSUME NEW m \in Message(K)
      PROVE  /\ Turn(m) \in Nat /\ m.header.counter \in Nat /\ m.header.prevN \in Nat
             /\ m.key = KeyOf(m.key.root, m.key.n) /\ m.key.root \in Root(K)
             /\ m.header.dhPub \in K
  <2>1. m.key \in ChainKey(K) /\ m.header \in [dhPub : K, prevN : Nat, counter : Nat]
    BY DEF Message
  <2>2. m.key = KeyOf(m.key.root, m.key.n) /\ m.key.root \in Root(K)
    BY <2>1 DEF ChainKey, KeyOf
  <2> QED
    BY <1>1, <2>1, <2>2 DEF Turn
<1>3. ASSUME NEW s, IsRatchetState(s, K)
      PROVE  /\ Len(s.rootKey) \in Nat /\ s.rootKey \in Root(K)
             /\ s.recvCounter \in Nat /\ s.sendCounter \in Nat
             /\ s.prevSendCounter \in Nat /\ s.dhSelf \in K
  BY <1>1, <1>3 DEF IsRatchetState, Fields
<1> QED
  BY <1>2, <1>3

(***************************************************************************)
(* encryptRatchet.                                                         *)
(***************************************************************************)
LEMMA SealedShape ==
    ASSUME NEW K, NEW t, IsRatchetState(t, K), CanEncrypt(t), NEW S, Seals(S, t)
    PROVE  LET m == Sealed(t)
               t2 == AfterEncrypt(t)
           IN  /\ Turn(m) = Len(t.rootKey) /\ m.key = KeyOf(t.rootKey, t.sendCounter)
               /\ m.key.root = t.rootKey /\ m.key.n = m.header.counter
               /\ m.header.dhPub = t.dhSelf /\ m.header.counter = t.sendCounter
               /\ m.header.prevN = t.prevSendCounter
               /\ t2.sendChain = {KeyOf(t.rootKey, t.sendCounter + 1)}
               /\ t2.sendCounter = t.sendCounter + 1 /\ t2.prevSendCounter = t.prevSendCounter
               /\ t2.dhSelf = t.dhSelf /\ t2.dhRemote = t.dhRemote /\ t2.rootKey = t.rootKey
               /\ t2.recvChain = t.recvChain /\ t2.recvCounter = t.recvCounter
               /\ t2.skipped = t.skipped
<1>1. t.sendChain \subseteq {KeyOf(t.rootKey, t.sendCounter)}
  BY DEF Seals
<1> DEFINE m == Sealed(t)
           t2 == AfterEncrypt(t)
<1>2. /\ m.header.dhPub = t.dhSelf /\ m.header.counter = t.sendCounter
      /\ m.header.prevN = t.prevSendCounter /\ m.key = KeyOf(t.rootKey, t.sendCounter)
      /\ t2.sendChain = {KeyOf(t.rootKey, t.sendCounter + 1)}
      /\ t2.sendCounter = t.sendCounter + 1 /\ t2.prevSendCounter = t.prevSendCounter
      /\ t2.dhSelf = t.dhSelf /\ t2.dhRemote = t.dhRemote /\ t2.rootKey = t.rootKey
      /\ t2.recvChain = t.recvChain /\ t2.recvCounter = t.recvCounter
      /\ t2.skipped = t.skipped
  BY <1>1, EncryptFull
<1> HIDE DEF m, t2
<1>3. m.key.root = t.rootKey /\ m.key.n = t.sendCounter
  BY <1>2 DEF KeyOf
<1> QED
  BY <1>2, <1>3 DEF Turn, m, t2

LEMMA SealWritten ==
    ASSUME NEW K, NEW t, IsRatchetState(t, K), CanEncrypt(t),
           NEW S \in SUBSET Message(K), Written(S), Seals(S, t)
    PROVE  LET T == S \union {Sealed(t)}
           IN  /\ Written(T) /\ Seals(T, AfterEncrypt(t))
               /\ ~Sent(S, Turn(Sealed(t)), Sealed(t).header.counter)
<1> DEFINE e == Sealed(t)
           t2 == AfterEncrypt(t)
           T == S \union {e}
           l == Len(t.rootKey)
           n == t.sendCounter
<1>1. /\ Turn(e) = l /\ e.key.root = t.rootKey /\ e.key.n = e.header.counter
      /\ e.header.dhPub = t.dhSelf /\ e.header.counter = n
      /\ e.header.prevN = t.prevSendCounter
      /\ t2.sendChain = {KeyOf(t.rootKey, n + 1)}
      /\ t2.sendCounter = n + 1 /\ t2.prevSendCounter = t.prevSendCounter
      /\ t2.dhSelf = t.dhSelf /\ t2.rootKey = t.rootKey
  BY SealedShape
<1>2. /\ l \in Nat /\ n \in Nat
      /\ \A m \in S : Turn(m) \in Nat /\ m.header.counter \in Nat /\ m.header.prevN \in Nat
  BY TurnsAre
<1>3. /\ \A m \in S : /\ Turn(m) <= l
                      /\ Turn(m) = l <=> m.header.dhPub = t.dhSelf
                      /\ Turn(m) = l => m.key.root = t.rootKey
      /\ \A c \in Nat : /\ c < n <=> Sent(S, l, c)
                        /\ c < t.prevSendCounter <=> Sent(S, l - 2, c)
  BY DEF Seals
<1> HIDE DEF e, t2, l, n
<1>4. \A k, c : Sent(T, k, c) <=> Sent(S, k, c) \/ (k = l /\ c = n)
  BY <1>1 DEF Sent
<1>5. \A c \in Nat : Sent(T, l - 2, c) <=> Sent(S, l - 2, c)
  <2>1. l - 2 # l
    BY <1>2
  <2> QED
    BY <1>4, <2>1
<1> HIDE DEF T
<1>6. \A m : m \in T <=> m \in S \/ m = e
  BY DEF T
<1>7. ASSUME NEW m \in T, NEW k \in T
      PROVE  /\ Turn(m) = Turn(k) <=> m.header.dhPub = k.header.dhPub
             /\ Turn(m) = Turn(k) => m.key.root = k.key.root
  <2>1. CASE m \in S /\ k \in S
    BY <2>1 DEF Written
  <2>2. CASE m = e \/ k = e
    <3>1. \A x \in T : /\ Turn(x) = l <=> x.header.dhPub = t.dhSelf
                       /\ Turn(x) = l => x.key.root = t.rootKey
      BY <1>1, <1>3, <1>6
    <3> QED
      BY <1>1, <2>2, <3>1
  <2> QED
    BY <1>6, <2>1, <2>2
<1>8. ASSUME NEW m \in T
      PROVE  /\ m.key.n = m.header.counter
             /\ \A c \in Nat : /\ c < m.header.counter => Sent(T, Turn(m), c)
                               /\ c < m.header.prevN <=> Sent(T, Turn(m) - 2, c)
  <2>1. CASE m \in S
    <3>1. /\ m.key.n = m.header.counter
          /\ \A c \in Nat : /\ c < m.header.counter => Sent(S, Turn(m), c)
                            /\ c < m.header.prevN <=> Sent(S, Turn(m) - 2, c)
      BY <2>1 DEF Written
    <3>2. Turn(m) - 2 # l
      BY <1>2, <1>3, <2>1
    <3> QED
      BY <1>4, <3>1, <3>2
  <2>2. CASE m = e
    BY <1>1, <1>3, <1>4, <1>5, <2>2
  <2> QED
    BY <1>6, <2>1, <2>2
<1>9. Written(T)
  BY <1>7, <1>8 DEF Written
<1>10. \A m \in T : /\ Turn(m) <= l
                    /\ Turn(m) = l <=> m.header.dhPub = t.dhSelf
                    /\ Turn(m) = l => m.key.root = t.rootKey
  BY <1>1, <1>2, <1>3, <1>6
<1>11. \A c \in Nat : /\ c < n + 1 <=> Sent(T, l, c)
                      /\ c < t.prevSendCounter <=> Sent(T, l - 2, c)
  <2>1. ASSUME NEW c \in Nat
        PROVE  c < n + 1 <=> c < n \/ c = n
    BY <1>2
  <2> QED
    BY <1>3, <1>4, <1>5, <2>1
<1>12. Seals(T, t2)
  BY <1>1, <1>10, <1>11 DEF Seals, l
<1>13. ~Sent(S, Turn(e), e.header.counter)
  BY <1>1, <1>2, <1>3
<1> QED
  BY <1>9, <1>12, <1>13 DEF T, e, t2

\* The other side, one turn behind or one ahead, can place what was sealed.
LEMMA SealReads ==
    ASSUME NEW K, NEW t, IsRatchetState(t, K), CanEncrypt(t),
           NEW r, IsRatchetState(r, K), Ahead(t, r) \/ Ahead(r, t),
           NEW S \in SUBSET Message(K), Seals(S, t), NEW U, Reads(S, U, r)
    PROVE  Reads(S \union {Sealed(t)}, U \union {Sealed(t)}, r)
<1> DEFINE e == Sealed(t)
           T == S \union {e}
           V == U \union {e}
           l == Len(r.rootKey)
           k == Len(t.rootKey)
           n == t.sendCounter
<1>1. /\ Turn(e) = k /\ e.key.root = t.rootKey
      /\ e.header.dhPub = t.dhSelf /\ e.header.counter = n
  BY SealedShape
<1>2. k \in Nat /\ l \in Nat /\ n \in Nat /\ r.recvCounter \in Nat
  BY TurnsAre
<1>3. /\ \A m \in S : Turn(m) = k <=> m.header.dhPub = t.dhSelf
      /\ ~Sent(S, k, n)
  BY <1>2 DEF Seals
<1>4. \A m \in S :
              /\ Turn(m) < l \/ (IsNext(r, m) /\ m.key.root = RecvRoot(r, m.header.dhPub))
              /\ Turn(m) = l - 1 <=> m.header.dhPub = r.dhRemote
              /\ Turn(m) < l => r.recvChain # {}
              /\ Turn(m) = l - 1 => r.recvChain = {KeyOf(m.key.root, r.recvCounter)}
              /\ m \in U => IsNext(r, m) \/ ToCome(r, m) \/ InCache(r, m)
              /\ InCache(r, m) => ~IsNext(r, m) /\ ~ToCome(r, m)
  BY DEF Reads
<1>5. /\ \A x, c : HasSlot(r, x, c) =>
              \E m \in S : /\ m.header.dhPub = x /\ m.header.counter = c
                           /\ m.key = r.skipped[x][c]
      /\ \A c \in Nat : c < r.recvCounter => Sent(S, l - 1, c)
  BY DEF Reads
<1> HIDE DEF e, n
<1>6. ~InCache(r, e)
  <2>1. ASSUME InCache(r, e)
        PROVE  FALSE
    <3>1. PICK m \in S : m.header.dhPub = t.dhSelf /\ m.header.counter = n
      BY <1>1, <1>5, <2>1 DEF InCache
    <3> QED
      BY <1>3, <3>1 DEF Sent
  <2> QED
    BY <2>1
<1>7. CASE Ahead(t, r)
  <2>1. t.rootKey = Append(r.rootKey, {r.dhSelf, t.dhSelf}) /\ t.dhSelf # r.dhRemote
    BY <1>7 DEF Ahead
  <2>2. k = l + 1
    <3>1. r.rootKey \in Seq(SUBSET K)
      BY TurnsAre DEF Root
    <3> QED
      BY <2>1, <3>1
  <2>3. t.rootKey = RecvRoot(r, t.dhSelf)
    BY <2>1 DEF RecvRoot
  <2> HIDE DEF k, l
  <2>4. /\ IsNext(r, e) /\ e.key.root = RecvRoot(r, e.header.dhPub)
        /\ Turn(e) # l - 1 /\ e.header.dhPub # r.dhRemote /\ ~(Turn(e) < l)
    BY <1>1, <1>2, <2>1, <2>2, <2>3 DEF IsNext, l
  <2>5. \A m \in T :
              /\ Turn(m) < l \/ (IsNext(r, m) /\ m.key.root = RecvRoot(r, m.header.dhPub))
              /\ Turn(m) = l - 1 <=> m.header.dhPub = r.dhRemote
              /\ Turn(m) < l => r.recvChain # {}
              /\ Turn(m) = l - 1 => r.recvChain = {KeyOf(m.key.root, r.recvCounter)}
              /\ m \in V => IsNext(r, m) \/ ToCome(r, m) \/ InCache(r, m)
              /\ InCache(r, m) => ~IsNext(r, m) /\ ~ToCome(r, m)
    BY <1>4, <1>6, <2>4
  <2> QED
    BY <1>5, <2>5 DEF Reads, Sent, l, e
<1>8. CASE Ahead(r, t)
  <2>1. /\ r.rootKey = Append(t.rootKey, {t.dhSelf, r.dhSelf}) /\ r.dhRemote = t.dhSelf
        /\ r.recvChain \subseteq {KeyOf(t.rootKey, r.recvCounter)}
        /\ r.recvChain # {}
    BY <1>8 DEF Ahead, CanEncrypt, NoChain
  <2>2. l = k + 1
    <3>1. t.rootKey \in Seq(SUBSET K)
      BY TurnsAre DEF Root
    <3> QED
      BY <2>1, <3>1
  <2>3. r.recvChain = {KeyOf(t.rootKey, r.recvCounter)}
    BY <2>1
  <2> HIDE DEF k, l
  <2>4. n >= r.recvCounter
    <3>1. l - 1 = k
      BY <1>2, <2>2
    <3> QED
      BY <1>2, <1>3, <1>5, <3>1
  <2>5. /\ Turn(e) < l /\ Turn(e) = l - 1 /\ e.header.dhPub = r.dhRemote
        /\ ToCome(r, e) /\ r.recvChain = {KeyOf(e.key.root, r.recvCounter)}
    BY <1>1, <1>2, <2>1, <2>2, <2>3, <2>4 DEF ToCome, l
  <2>6. \A m \in T :
              /\ Turn(m) < l \/ (IsNext(r, m) /\ m.key.root = RecvRoot(r, m.header.dhPub))
              /\ Turn(m) = l - 1 <=> m.header.dhPub = r.dhRemote
              /\ Turn(m) < l => r.recvChain # {}
              /\ Turn(m) = l - 1 => r.recvChain = {KeyOf(m.key.root, r.recvCounter)}
              /\ m \in V => IsNext(r, m) \/ ToCome(r, m) \/ InCache(r, m)
              /\ InCache(r, m) => ~IsNext(r, m) /\ ~ToCome(r, m)
    BY <1>4, <1>6, <2>1, <2>5
  <2> QED
    BY <1>5, <2>6 DEF Reads, Sent, l, e
<1> QED
  BY <1>7, <1>8

LEMMA SealAhead ==
    ASSUME NEW K, NEW t, IsRatchetState(t, K), CanEncrypt(t), NEW S, Seals(S, t),
           NEW r, Ahead(t, r) \/ Ahead(r, t)
    PROVE  Ahead(AfterEncrypt(t), r) \/ Ahead(r, AfterEncrypt(t))
<1> DEFINE u == AfterEncrypt(t)
<1>1. /\ u.rootKey = t.rootKey /\ u.dhSelf = t.dhSelf /\ u.dhRemote = t.dhRemote
      /\ u.recvChain = t.recvChain /\ u.recvCounter = t.recvCounter
  BY SealedShape
<1>2. t.sendChain # {}
  BY DEF CanEncrypt, NoChain
<1> HIDE DEF u
<1>3. Ahead(t, r) => Ahead(u, r)
  BY <1>1 DEF Ahead
<1>4. Ahead(r, t) => Ahead(r, u)
  BY <1>1, <1>2 DEF Ahead
<1> QED
  BY <1>3, <1>4 DEF u

(***************************************************************************)
(* decryptRatchet: a message of S is opened, V is what is left.            *)
(***************************************************************************)
LEMMA SameKey ==
    ASSUME NEW K, NEW S \in SUBSET Message(K), Written(S), NEW m \in S, NEW x \in S,
           m.header.dhPub = x.header.dhPub \/ Turn(m) = Turn(x)
    PROVE  /\ Turn(m) = Turn(x) /\ m.header.dhPub = x.header.dhPub
           /\ m.key.root = x.key.root /\ x.key = KeyOf(m.key.root, x.header.counter)
           /\ m.header.counter = x.header.counter => m.key = x.key
<1>1. /\ Turn(m) = Turn(x) /\ m.header.dhPub = x.header.dhPub /\ m.key.root = x.key.root
      /\ m.key.n = m.header.counter /\ x.key.n = x.header.counter
  BY DEF Written
<1>2. m.key = KeyOf(m.key.root, m.key.n) /\ x.key = KeyOf(x.key.root, x.key.n)
  BY TurnsAre
<1> QED
  BY <1>1, <1>2

\* The parts of Reads, and what each says of a message.
LEMMA ReadsOf ==
    ASSUME NEW S, NEW U, NEW r, Reads(S, U, r), NEW x \in S
    PROVE  /\ \/ Turn(x) < Len(r.rootKey)
              \/ IsNext(r, x) /\ x.key.root = RecvRoot(r, x.header.dhPub)
           /\ Turn(x) = Len(r.rootKey) - 1 <=> x.header.dhPub = r.dhRemote
           /\ Turn(x) < Len(r.rootKey) => r.recvChain # {}
           /\ Turn(x) = Len(r.rootKey) - 1 => r.recvChain = {KeyOf(x.key.root, r.recvCounter)}
           /\ x \in U => IsNext(r, x) \/ ToCome(r, x) \/ InCache(r, x)
           /\ InCache(r, x) => ~IsNext(r, x) /\ ~ToCome(r, x)
BY DEF Reads

LEMMA OpenCachedReads ==
    ASSUME NEW K, NEW r, IsRatchetState(r, K), NEW S \in SUBSET Message(K), Written(S),
           NEW U, Reads(S, U, r), NEW m \in S, NEW f, HasSkipped(r, m.header),
           NEW V \in SUBSET U, \A x \in V : x.key # m.key
    PROVE  LET t == AfterDecrypt(r, m, f)
           IN  /\ Reads(S, V, t) /\ SealsAlike(r, t)
               /\ t.recvChain = r.recvChain /\ t.recvCounter = r.recvCounter
<1> DEFINE t == AfterDecrypt(r, m, f)
           h == m.header
<1>1. t = DropSkipped(r, h)
  BY DEF AfterDecrypt
<1>2. /\ SealsAlike(r, t)
      /\ t.recvChain = r.recvChain /\ t.recvCounter = r.recvCounter
      /\ \A q, c : HasSlot(t, q, c) <=> HasSlot(r, q, c) /\ ~(q = h.dhPub /\ c = h.counter)
      /\ \A q, c : HasSlot(t, q, c) => t.skipped[q][c] = r.skipped[q][c]
  BY <1>1, DropLoses
<1> HIDE DEF t, h
<1>3. t.rootKey = r.rootKey /\ t.dhRemote = r.dhRemote /\ t.dhSelf = r.dhSelf
  BY <1>2 DEF SealsAlike, SameOtherwise
<1>4. ASSUME NEW x \in S
      PROVE  /\ IsNext(t, x) <=> IsNext(r, x)
             /\ ToCome(t, x) <=> ToCome(r, x)
             /\ InCache(t, x) => InCache(r, x)
             /\ x \in V /\ InCache(r, x) => InCache(t, x)
             /\ RecvRoot(t, x.header.dhPub) = RecvRoot(r, x.header.dhPub)
  <2>1. x \in V => ~(x.header.dhPub = h.dhPub /\ x.header.counter = h.counter)
    <3>1. x.header.dhPub = h.dhPub /\ x.header.counter = h.counter => x.key = m.key
      BY SameKey DEF h
    <3> QED
      BY <3>1
  <2> QED
    BY <1>2, <1>3, <2>1 DEF IsNext, ToCome, InCache, RecvRoot
<1>5. ASSUME NEW x \in S
      PROVE  /\ \/ Turn(x) < Len(t.rootKey)
                \/ IsNext(t, x) /\ x.key.root = RecvRoot(t, x.header.dhPub)
             /\ Turn(x) = Len(t.rootKey) - 1 <=> x.header.dhPub = t.dhRemote
             /\ Turn(x) < Len(t.rootKey) => t.recvChain # {}
             /\ Turn(x) = Len(t.rootKey) - 1 => t.recvChain = {KeyOf(x.key.root, t.recvCounter)}
             /\ x \in V => IsNext(t, x) \/ ToCome(t, x) \/ InCache(t, x)
             /\ InCache(t, x) => ~IsNext(t, x) /\ ~ToCome(t, x)
  BY <1>2, <1>3, <1>4, ReadsOf
<1>6. \A q, c : HasSlot(t, q, c) =>
         \E x \in S : x.header.dhPub = q /\ x.header.counter = c /\ x.key = t.skipped[q][c]
  BY <1>2 DEF Reads
<1>7. \A c \in Nat : c < t.recvCounter => Sent(S, Len(t.rootKey) - 1, c)
  BY <1>2, <1>3 DEF Reads
<1> QED
  BY <1>2, <1>5, <1>6, <1>7 DEF Reads, t

LEMMA OpenAtHandReads ==
    ASSUME NEW K, NEW r, IsRatchetState(r, K), NEW S \in SUBSET Message(K), Written(S),
           NEW U, Reads(S, U, r), NEW m \in S, NEW f, ~HasSkipped(r, m.header),
           m.header.dhPub = r.dhRemote, Opens(r, m, f),
           NEW V \in SUBSET U, \A x \in V : x.key # m.key
    PROVE  LET t == AfterDecrypt(r, m, f)
               n == m.header.counter
           IN  /\ Reads(S, V, t) /\ SealsAlike(r, t)
               /\ r.recvChain = {KeyOf(m.key.root, r.recvCounter)}
               /\ t.recvChain = {KeyOf(m.key.root, n + 1)} /\ t.recvCounter = n + 1
<1> DEFINE t == AfterDecrypt(r, m, f)
           n == m.header.counter
           remote == m.header.dhPub
           root == m.key.root
           l == Len(r.rootKey)
           a == r.recvCounter
<1>1. Turn(m) = l - 1 /\ r.recvChain = {KeyOf(root, a)}
  BY ReadsOf
<1>2. /\ n \in Nat /\ a \in Nat /\ l \in Nat
      /\ \A x \in S : Turn(x) \in Nat /\ x.header.counter \in Nat
  BY TurnsAre
<1>3. /\ a <= n /\ SealsAlike(r, t)
      /\ t.recvCounter = n + 1 /\ t.recvChain = {KeyOf(root, n + 1)}
      /\ Gains(r, t, remote, a .. (n - 1), root)
  <2>1. m.key.n = n /\ m \in Message(K) /\ Stands(r, root)
    BY <1>1 DEF Written, Stands
  <2> QED
    BY <2>1, TakesNext
<1> HIDE DEF t, n, root, a, l
<1>4. t.rootKey = r.rootKey /\ t.dhRemote = r.dhRemote /\ t.dhSelf = r.dhSelf
  BY <1>3 DEF SealsAlike, SameOtherwise
<1>5. /\ \A q, c : HasSlot(t, q, c) <=> HasSlot(r, q, c) \/ (q = remote /\ c \in a .. (n - 1))
      /\ \A q, c : HasSlot(r, q, c) /\ ~(q = remote /\ c \in a .. (n - 1))
                      => t.skipped[q][c] = r.skipped[q][c]
      /\ \A c \in a .. (n - 1) : t.skipped[remote][c] = KeyOf(root, c)
  BY <1>3 DEF Gains
<1>6. ASSUME NEW x \in S
      PROVE  /\ Turn(x) = l - 1 <=> x.header.dhPub = remote
             /\ Turn(x) = l - 1 => x.key = KeyOf(root, x.header.counter) /\ x.key.root = root
             /\ Turn(x) = l - 1 /\ x \in V => x.header.counter # n
  BY <1>1, SameKey DEF root, n
<1>7. ASSUME NEW x \in S
      PROVE  /\ \/ Turn(x) < l
                \/ IsNext(t, x) /\ x.key.root = RecvRoot(t, x.header.dhPub)
             /\ Turn(x) = l - 1 <=> x.header.dhPub = t.dhRemote
             /\ t.recvChain # {}
             /\ Turn(x) = l - 1 => t.recvChain = {KeyOf(x.key.root, t.recvCounter)}
             /\ x \in V => IsNext(t, x) \/ ToCome(t, x) \/ InCache(t, x)
             /\ InCache(t, x) => ~IsNext(t, x) /\ ~ToCome(t, x)
  <2>1. /\ Turn(x) < l \/ (IsNext(r, x) /\ x.key.root = RecvRoot(r, x.header.dhPub))
        /\ x \in V => IsNext(r, x) \/ ToCome(r, x) \/ InCache(r, x)
        /\ InCache(r, x) => ~IsNext(r, x) /\ ~ToCome(r, x)
    BY ReadsOf DEF l
  <2>2. /\ IsNext(t, x) <=> IsNext(r, x)
        /\ RecvRoot(t, x.header.dhPub) = RecvRoot(r, x.header.dhPub)
        /\ IsNext(r, x) <=> Turn(x) = l + 1
        /\ ToCome(r, x) <=> Turn(x) = l - 1 /\ x.header.counter >= a
        /\ ToCome(t, x) <=> Turn(x) = l - 1 /\ x.header.counter >= n + 1
        /\ InCache(t, x) <=> \/ InCache(r, x)
                             \/ x.header.dhPub = remote /\ x.header.counter \in a .. (n - 1)
    BY <1>3, <1>4, <1>5 DEF IsNext, ToCome, InCache, RecvRoot, l, a
  <2>3. Turn(x) \in Nat /\ x.header.counter \in Nat
    BY <1>2
  <2>4. x \in V => IsNext(t, x) \/ ToCome(t, x) \/ InCache(t, x)
    <3>1. ASSUME x \in V, ToCome(r, x)
          PROVE  ToCome(t, x) \/ InCache(t, x)
      BY <1>2, <1>6, <2>2, <2>3, <3>1
    <3> QED
      BY <2>1, <2>2, <3>1
  <2>5. InCache(t, x) => ~IsNext(t, x) /\ ~ToCome(t, x)
    <3>1. CASE InCache(r, x)
      BY <1>2, <1>3, <2>1, <2>2, <2>3, <3>1
    <3>2. CASE x.header.dhPub = remote /\ x.header.counter \in a .. (n - 1)
      BY <1>2, <1>6, <2>2, <2>3, <3>2
    <3> QED
      BY <2>2, <3>1, <3>2
  <2> QED
    BY <1>3, <1>4, <1>6, <2>1, <2>2, <2>4, <2>5
<1>8. \A c \in Nat : c < n + 1 => Sent(S, l - 1, c)
  <2>1. \A c \in Nat : c < n => Sent(S, l - 1, c)
    BY <1>1 DEF Written, n
  <2>2. Sent(S, l - 1, n)
    BY <1>1 DEF Sent, n
  <2>3. ASSUME NEW c \in Nat, c < n + 1 PROVE c < n \/ c = n
    BY <1>2, <2>3
  <2> QED
    BY <2>1, <2>2, <2>3
<1>9. ASSUME NEW q, NEW c, HasSlot(t, q, c)
      PROVE  \E x \in S : x.header.dhPub = q /\ x.header.counter = c /\ x.key = t.skipped[q][c]
  <2>1. CASE q = remote /\ c \in a .. (n - 1)
    <3>1. c \in Nat /\ c < n + 1
      BY <1>2, <2>1
    <3>2. PICK x \in S : Turn(x) = l - 1 /\ x.header.counter = c
      BY <1>8, <3>1 DEF Sent
    <3> QED
      BY <1>5, <1>6, <2>1, <3>2
  <2>2. CASE ~(q = remote /\ c \in a .. (n - 1))
    BY <1>5, <1>9, <2>2 DEF Reads
  <2> QED
    BY <2>1, <2>2
<1>10. Reads(S, V, t)
  BY <1>3, <1>4, <1>7, <1>8, <1>9 DEF Reads, l
<1> QED
  BY <1>1, <1>3, <1>10 DEF t, n, root, a

\* The receiving chain hangs on some root.
LEMMA StandsSomewhere ==
    ASSUME NEW K, NEW r, IsRatchetState(r, K), NEW owner, Tidy(owner, r)
    PROVE  \E root : Stands(r, root)
<1>1. CASE r.recvChain = {}
  BY <1>1 DEF Stands
<1>2. CASE r.recvChain # {}
  <2>1. PICK c \in r.recvChain : TRUE
    BY <1>2
  <2>2. c \in ChainKey(K) /\ c.n = r.recvCounter /\ r.recvChain = {c}
    BY <2>1 DEF IsRatchetState, Fields, Tidy
  <2>3. c = KeyOf(c.root, r.recvCounter)
    BY <2>2 DEF ChainKey, KeyOf
  <2> QED
    BY <2>2, <2>3 DEF Stands
<1> QED
  BY <1>1, <1>2

\* What the cache has gained when the ratchet has turned.
LEMMA TurnedSlots ==
    ASSUME NEW r, NEW t, NEW m, NEW f, NEW root, Turns(r, t, m, f, root),
           m.header.dhPub # r.dhRemote
    PROVE  LET h == m.header
               recv == RecvRoot(r, h.dhPub)
               old == Closing(r, h)
               new == 0 .. (h.counter - 1)
           IN  /\ \A q, c : HasSlot(t, q, c) <=> (HasSlot(r, q, c) \/ (q = r.dhRemote /\ c \in old)
                                                                \/ (q = h.dhPub /\ c \in new))
               /\ \A c \in new : t.skipped[h.dhPub][c] = KeyOf(recv, c)
               /\ \A c \in old : t.skipped[r.dhRemote][c] = KeyOf(root, c)
               /\ \A q, c : HasSlot(r, q, c) /\ ~(q = r.dhRemote /\ c \in old)
                                             /\ ~(q = h.dhPub /\ c \in new)
                               => t.skipped[q][c] = r.skipped[q][c]
<1> DEFINE h == m.header
           recv == RecvRoot(r, h.dhPub)
           old == Closing(r, h)
           new == 0 .. (h.counter - 1)
<1>1. PICK v : Gains(r, v, r.dhRemote, old, root) /\ Gains(v, t, h.dhPub, new, recv)
  BY DEF Turns
<1>2. h.dhPub # r.dhRemote
  OBVIOUS
<1> HIDE DEF h, recv, old, new
<1>3. /\ \A q, c : HasSlot(v, q, c) <=> HasSlot(r, q, c) \/ (q = r.dhRemote /\ c \in old)
      /\ \A q, c : HasSlot(r, q, c) /\ ~(q = r.dhRemote /\ c \in old) => v.skipped[q][c] = r.skipped[q][c]
      /\ \A c \in old : v.skipped[r.dhRemote][c] = KeyOf(root, c)
  BY <1>1 DEF Gains
<1>4. /\ \A q, c : HasSlot(t, q, c) <=> HasSlot(v, q, c) \/ (q = h.dhPub /\ c \in new)
      /\ \A q, c : HasSlot(v, q, c) /\ ~(q = h.dhPub /\ c \in new) => t.skipped[q][c] = v.skipped[q][c]
      /\ \A c \in new : t.skipped[h.dhPub][c] = KeyOf(recv, c)
  BY <1>1 DEF Gains
<1>5. \A c \in old : t.skipped[r.dhRemote][c] = KeyOf(root, c)
  BY <1>2, <1>3, <1>4
<1>6. \A q, c : HasSlot(r, q, c) /\ ~(q = r.dhRemote /\ c \in old) /\ ~(q = h.dhPub /\ c \in new)
                   => t.skipped[q][c] = r.skipped[q][c]
  BY <1>3, <1>4
<1>7. \A q, c : HasSlot(t, q, c) <=> (HasSlot(r, q, c) \/ (q = r.dhRemote /\ c \in old)
                                                     \/ (q = h.dhPub /\ c \in new))
  BY <1>3, <1>4
<1> QED
  BY <1>4, <1>5, <1>6, <1>7 DEF h, recv, old, new

\* The old chain is closed up to the last message sealed on it.
LEMMA ClosingIs ==
    ASSUME NEW K, NEW r, IsRatchetState(r, K), NEW owner, Tidy(owner, r),
           NEW S \in SUBSET Message(K), Written(S), NEW U, Reads(S, U, r),
           NEW m \in S, IsNext(r, m)
    PROVE  /\ \A c \in Closing(r, m.header) :
                 /\ c \in Nat /\ r.recvCounter <= c /\ Sent(S, Len(r.rootKey) - 1, c)
                 /\ r.recvChain # {} /\ r.dhRemote # NoPub
           /\ \A x \in S : ToCome(r, x) => x.header.counter \in Closing(r, m.header)
<1> DEFINE l == Len(r.rootKey)
           a == r.recvCounter
           p == m.header.prevN
           old == Closing(r, m.header)
<1>1. l \in Nat /\ a \in Nat /\ p \in Nat /\ Turn(m) - 2 = l - 1
  BY TurnsAre DEF IsNext
<1>2. \A c \in Nat : c < p <=> Sent(S, l - 1, c)
  BY <1>1 DEF Written
<1>3. \A c : c \in old <=> r.dhRemote # NoPub /\ r.recvChain # {} /\ c \in a .. (p - 1)
  BY DEF Closing, ToSkip, NoChain
<1> HIDE DEF l, a, p, old
<1>4. ASSUME NEW c \in old
      PROVE  c \in Nat /\ a <= c /\ Sent(S, l - 1, c) /\ r.recvChain # {} /\ r.dhRemote # NoPub
  <2>1. c \in Nat /\ a <= c /\ c < p
    BY <1>1, <1>3
  <2> QED
    BY <1>2, <1>3, <2>1
<1>5. ASSUME NEW x \in S, ToCome(r, x)
      PROVE  x.header.counter \in old
  <2>1. Turn(x) = l - 1 /\ x.header.counter >= a
    BY <1>5 DEF ToCome, l, a
  <2>2. x.header.counter \in Nat
    BY TurnsAre
  <2>3. x.header.counter < p
    BY <1>2, <2>1, <2>2 DEF Sent
  <2>4. r.recvChain # {} /\ r.dhRemote # NoPub
    <3>1. Turn(x) < l
      BY <1>1, <2>1
    <3> QED
      BY <3>1, ReadsOf DEF l, Tidy
  <2> QED
    BY <1>1, <1>3, <2>1, <2>2, <2>3, <2>4
<1> QED
  BY <1>4, <1>5 DEF l, a, old

\* The root after a turn.
LEMMA TurnsLength ==
    ASSUME NEW K, NEW r, IsRatchetState(r, K), NEW t, NEW m, m.header.dhPub \in K,
           NEW f, NEW root, Turns(r, t, m, f, root)
    PROVE  /\ m.key.root = RecvRoot(r, m.header.dhPub)
           /\ Len(m.key.root) = Len(r.rootKey) + 1 /\ Len(t.rootKey) = Len(r.rootKey) + 2
           /\ t.rootKey = Append(m.key.root, {f, m.header.dhPub})
<1> DEFINE d == m.header.dhPub
           recv == RecvRoot(r, d)
           l == Len(r.rootKey)
<1>1. m.key = KeyOf(recv, m.header.counter) /\ t.rootKey = Append(recv, {f, d})
  BY DEF Turns
<1>2. r.rootKey \in Seq(SUBSET K) /\ {r.dhSelf, d} \in SUBSET K
  BY TurnsAre DEF Root
<1>3. recv \in Seq(SUBSET K) /\ Len(recv) = l + 1 /\ l \in Nat
  <2> HIDE DEF d
  <2> QED
    BY <1>2 DEF RecvRoot
<1>4. m.key.root = recv
  BY <1>1 DEF KeyOf
<1> HIDE DEF recv, l, d
<1>5. Len(Append(recv, {f, d})) = l + 2
  <2>1. recv \in Seq(SUBSET (K \union {f, d}))
    BY <1>3
  <2> QED
    BY <1>3, <2>1
<1> QED
  BY <1>1, <1>3, <1>4, <1>5 DEF recv, l, d

LEMMA OpenNextReads ==
    ASSUME NEW K, NEW r, IsRatchetState(r, K), NEW owner, Tidy(owner, r),
           NEW S \in SUBSET Message(K), Written(S),
           NEW U, Reads(S, U, r), NEW m \in S, NEW f, ~HasSkipped(r, m.header),
           m.header.dhPub # r.dhRemote, Opens(r, m, f),
           NEW V \in SUBSET U, \A x \in V : x.key # m.key
    PROVE  LET t == AfterDecrypt(r, m, f)
           IN  /\ Reads(S, V, t) /\ IsNext(r, m) /\ \E root : Turns(r, t, m, f, root)
<1> DEFINE t == AfterDecrypt(r, m, f)
           h == m.header
           n == h.counter
           remote == h.dhPub
           recv == RecvRoot(r, remote)
           l == Len(r.rootKey)
           a == r.recvCounter
           old == Closing(r, h)
           new == 0 .. (n - 1)
<1>1. PICK root : Stands(r, root)
  BY StandsSomewhere
<1>2. Turns(r, t, m, f, root)
  <2> DEFINE L == K \union {f}
  <2>1. IsRatchetState(r, L) /\ m \in Message(L) /\ f \in L
    BY StateGrows, RootGrows
  <2>2. m.key.n = m.header.counter
    BY DEF Written
  <2> HIDE DEF L
  <2> QED
    BY <1>1, <2>1, <2>2, TurnsNext
<1>3. /\ n \in Nat /\ a \in Nat /\ l \in Nat /\ remote \in K /\ r.rootKey \in Root(K) /\ r.dhSelf \in K
      /\ \A x \in S : Turn(x) \in Nat /\ x.header.counter \in Nat
  BY TurnsAre
<1>4. /\ m.key = KeyOf(recv, n)
      /\ t.dhRemote = remote /\ t.rootKey = Append(recv, {f, remote})
      /\ t.recvCounter = n + 1 /\ t.recvChain = {KeyOf(recv, n + 1)}
  BY <1>2 DEF Turns
<1>5. m.key.root = recv /\ Len(recv) = l + 1 /\ Len(t.rootKey) = l + 2
  <2>1. Turns(r, t, m, f, root) /\ m.header.dhPub \in K
    BY <1>2, <1>3
  <2>2. /\ m.key.root = RecvRoot(r, m.header.dhPub)
        /\ Len(m.key.root) = Len(r.rootKey) + 1 /\ Len(t.rootKey) = Len(r.rootKey) + 2
    <3> HIDE DEF t
    <3> QED
      BY <2>1, TurnsLength
  <2> QED
    BY <2>2
<1>6. IsNext(r, m) /\ Turn(m) = l + 1
  BY <1>5 DEF IsNext, Turn
<1>7. /\ \A c \in old : c \in Nat /\ a <= c /\ Sent(S, l - 1, c) /\ r.recvChain # {}
      /\ \A x \in S : ToCome(r, x) => x.header.counter \in old
  BY <1>6, ClosingIs
<1>8. /\ \A q, c : HasSlot(t, q, c) <=> (HasSlot(r, q, c) \/ (q = r.dhRemote /\ c \in old)
                                                        \/ (q = remote /\ c \in new))
      /\ \A c \in new : t.skipped[remote][c] = KeyOf(recv, c)
      /\ \A c \in old : t.skipped[r.dhRemote][c] = KeyOf(root, c)
      /\ \A q, c : HasSlot(r, q, c) /\ ~(q = r.dhRemote /\ c \in old) /\ ~(q = remote /\ c \in new)
                      => t.skipped[q][c] = r.skipped[q][c]
  BY <1>2, TurnedSlots
<1>9. ASSUME NEW x \in S
      PROVE  /\ Turn(x) = l + 1 <=> x.header.dhPub = remote
             /\ Turn(x) = l + 1 => x.key = KeyOf(recv, x.header.counter) /\ x.key.root = recv
             /\ Turn(x) = l + 1 /\ x \in V => x.header.counter # n
  BY <1>5, <1>6, SameKey
<1>10. remote # r.dhRemote
  OBVIOUS
<1> HIDE DEF t, h, n, remote, recv, l, a, old, new
<1>11. ASSUME NEW x \in S
       PROVE  /\ x.header.dhPub = r.dhRemote <=> Turn(x) = l - 1
              /\ Turn(x) < l \/ Turn(x) = l + 1
              /\ x \in V => Turn(x) = l + 1 \/ ToCome(r, x) \/ InCache(r, x)
              /\ InCache(r, x) => Turn(x) # l + 1 /\ ~ToCome(r, x)
              /\ Turn(x) = l - 1 /\ r.recvChain # {} => x.key = KeyOf(root, x.header.counter)
  <2>1. Turn(x) = l - 1 /\ r.recvChain # {} => x.key = KeyOf(root, x.header.counter)
    <3>1. ASSUME Turn(x) = l - 1, r.recvChain # {}
          PROVE  x.key.root = root
      <4>1. r.recvChain = {KeyOf(x.key.root, a)} /\ r.recvChain = {KeyOf(root, a)}
        BY <1>1, <3>1, ReadsOf DEF Stands, l, a
      <4>2. KeyOf(x.key.root, a) = KeyOf(root, a)
        BY <4>1
      <4> QED
        BY <4>2 DEF KeyOf
    <3> QED
      BY <3>1, SameKey
  <2> QED
    BY <2>1, ReadsOf DEF l, IsNext
<1>12. ASSUME NEW x \in S
       PROVE  /\ IsNext(t, x) <=> Turn(x) = l + 3
              /\ ToCome(t, x) <=> Turn(x) = l + 1 /\ x.header.counter >= n + 1
              /\ InCache(t, x) <=> (InCache(r, x) \/ (Turn(x) = l - 1 /\ x.header.counter \in old)
                                                 \/ (Turn(x) = l + 1 /\ x.header.counter \in new))
  <2>1. IsNext(t, x) <=> Turn(x) = l + 3
    BY <1>3, <1>5 DEF IsNext
  <2>2. ToCome(t, x) <=> Turn(x) = l + 1 /\ x.header.counter >= n + 1
    BY <1>3, <1>4, <1>5 DEF ToCome
  <2> QED
    BY <1>8, <1>9, <1>11, <2>1, <2>2 DEF InCache
<1>13. ASSUME NEW x \in S
       PROVE  /\ Turn(x) < Len(t.rootKey)
              /\ Turn(x) = Len(t.rootKey) - 1 <=> x.header.dhPub = t.dhRemote
              /\ t.recvChain # {}
              /\ Turn(x) = Len(t.rootKey) - 1 => t.recvChain = {KeyOf(x.key.root, t.recvCounter)}
              /\ x \in V => IsNext(t, x) \/ ToCome(t, x) \/ InCache(t, x)
              /\ InCache(t, x) => ~IsNext(t, x) /\ ~ToCome(t, x)
  <2>1. Turn(x) \in Nat /\ x.header.counter \in Nat
    BY <1>3
  <2>2. Turn(x) < Len(t.rootKey) /\ (Turn(x) = Len(t.rootKey) - 1 <=> Turn(x) = l + 1)
    BY <1>3, <1>5, <1>11, <2>1
  <2>3. x \in V => ToCome(t, x) \/ InCache(t, x)
    <3>1. CASE x \in V /\ Turn(x) = l + 1
      <4>1. x.header.counter # n
        BY <1>9, <3>1
      <4>2. x.header.counter \in new \/ x.header.counter >= n + 1
        BY <1>3, <2>1, <4>1 DEF new
      <4> QED
        BY <1>12, <3>1, <4>2
    <3>2. CASE x \in V /\ ToCome(r, x)
      BY <1>7, <1>12, <3>2 DEF ToCome, l
    <3>3. CASE x \in V /\ InCache(r, x)
      BY <1>12, <3>3
    <3> QED
      BY <1>11, <3>1, <3>2, <3>3
  <2>4. InCache(t, x) => ~ToCome(t, x)
    <3>1. CASE InCache(r, x)
      BY <1>11, <1>12, <3>1
    <3>2. CASE Turn(x) = l - 1
      BY <1>3, <1>12, <2>1, <3>2
    <3>3. CASE x.header.counter \in new
      BY <1>3, <1>12, <2>1, <3>3 DEF new
    <3> QED
      BY <1>12, <3>1, <3>2, <3>3
  <2>5. ~IsNext(t, x)
    BY <1>3, <1>11, <1>12, <2>1
  <2> QED
    BY <1>4, <1>9, <2>2, <2>3, <2>4, <2>5
<1>14. \A c \in Nat : c < n + 1 => Sent(S, l + 1, c)
  <2>1. \A c \in Nat : c < n => Sent(S, l + 1, c)
    BY <1>6 DEF Written, n, h
  <2>2. Sent(S, l + 1, n)
    BY <1>6 DEF Sent, n, h
  <2>3. ASSUME NEW c \in Nat, c < n + 1 PROVE c < n \/ c = n
    BY <1>3, <2>3
  <2> QED
    BY <2>1, <2>2, <2>3
<1>15. ASSUME NEW q, NEW c, HasSlot(t, q, c)
       PROVE  \E x \in S : x.header.dhPub = q /\ x.header.counter = c /\ x.key = t.skipped[q][c]
  <2>1. CASE q = remote /\ c \in new
    <3>1. c \in Nat /\ c < n + 1
      BY <1>3, <2>1 DEF new
    <3>2. PICK x \in S : Turn(x) = l + 1 /\ x.header.counter = c
      BY <1>14, <3>1 DEF Sent
    <3> QED
      BY <1>8, <1>9, <2>1, <3>2
  <2>2. CASE q = r.dhRemote /\ c \in old
    <3>1. PICK x \in S : Turn(x) = l - 1 /\ x.header.counter = c
      BY <1>7, <2>2 DEF Sent
    <3> QED
      BY <1>7, <1>8, <1>11, <2>2, <3>1
  <2>3. CASE ~(q = remote /\ c \in new) /\ ~(q = r.dhRemote /\ c \in old)
    BY <1>8, <1>15, <2>3 DEF Reads
  <2> QED
    BY <2>1, <2>2, <2>3
<1>16. Reads(S, V, t)
  <2>1. Len(t.rootKey) - 1 = l + 1
    BY <1>3, <1>5
  <2> QED
    BY <1>4, <1>13, <1>14, <1>15, <2>1 DEF Reads
<1> QED
  BY <1>2, <1>6, <1>16 DEF t

(***************************************************************************)
(* decryptRatchet, and the side of the pair that seals.                    *)
(***************************************************************************)
LEMMA AlikeSeals ==
    ASSUME NEW W, NEW r, NEW t, SealsAlike(r, t), Seals(W, r)
    PROVE  Seals(W, t)
<1>1. /\ t.rootKey = r.rootKey /\ t.dhSelf = r.dhSelf /\ t.sendChain = r.sendChain
      /\ t.sendCounter = r.sendCounter /\ t.prevSendCounter = r.prevSendCounter
  BY DEF SealsAlike, SameOtherwise
<1>2. t.sendChain \subseteq {KeyOf(t.rootKey, t.sendCounter)}
  BY <1>1 DEF Seals
<1>3. \A m \in W : /\ Turn(m) <= Len(r.rootKey)
                   /\ Turn(m) = Len(r.rootKey) <=> m.header.dhPub = r.dhSelf
                   /\ Turn(m) = Len(r.rootKey) => m.key.root = r.rootKey
  BY DEF Seals
<1>4. \A c \in Nat : /\ c < r.sendCounter <=> Sent(W, Len(r.rootKey), c)
                     /\ c < r.prevSendCounter <=> Sent(W, Len(r.rootKey) - 2, c)
  BY DEF Seals
<1> QED
  BY ONLY <1>1, <1>2, <1>3, <1>4 DEF Seals

\* After a turn nothing is sealed on the new chain yet.
LEMMA TurnSeals ==
    ASSUME NEW K, NEW r, IsRatchetState(r, K), NEW W \in SUBSET Message(K), Seals(W, r),
           NEW t, NEW m, m.header.dhPub \in K, NEW f, f \notin K,
           NEW root, Turns(r, t, m, f, root)
    PROVE  Seals(W, t)
<1> DEFINE l == Len(r.rootKey)
           k == Len(t.rootKey)
<1>1. /\ t.sendChain = {KeyOf(t.rootKey, 0)} /\ t.sendCounter = 0
      /\ t.prevSendCounter = r.sendCounter /\ t.dhSelf = f
  BY DEF Turns
<1>2. l \in Nat /\ k = l + 2
  <2>1. l \in Nat
    BY TurnsAre
  <2>2. k = l + 2
    BY TurnsLength
  <2> QED
    BY <2>1, <2>2
<1>3. \A x \in W : Turn(x) \in Nat /\ Turn(x) <= l /\ x.header.dhPub \in K
  BY TurnsAre DEF Seals
<1>4. \A c \in Nat : c < r.sendCounter <=> Sent(W, l, c)
  BY DEF Seals
<1> HIDE DEF l, k
<1>5. \A x \in W : Turn(x) <= k /\ Turn(x) # k /\ x.header.dhPub # t.dhSelf
  BY <1>1, <1>2, <1>3
<1>6. \A c : ~Sent(W, k, c)
  BY <1>5 DEF Sent
<1>7. k - 2 = l
  BY <1>2
<1>8. \A c \in Nat : ~(c < 0)
  OBVIOUS
<1> QED
  BY <1>1, <1>4, <1>5, <1>6, <1>7, <1>8 DEF Seals, k

(***************************************************************************)
(* decryptRatchet, and who is ahead.                                       *)
(***************************************************************************)
LEMMA AlikeAhead ==
    ASSUME NEW r, NEW r2, SealsAlike(r, r2), NEW t, Ahead(t, r) \/ Ahead(r, t),
           \/ r2.recvChain = r.recvChain /\ r2.recvCounter = r.recvCounter
           \/ \E root : /\ r.recvChain = {KeyOf(root, r.recvCounter)}
                        /\ r2.recvChain = {KeyOf(root, r2.recvCounter)}
    PROVE  Ahead(t, r2) \/ Ahead(r2, t)
<1>1. /\ r2.rootKey = r.rootKey /\ r2.dhSelf = r.dhSelf /\ r2.dhRemote = r.dhRemote
      /\ r2.sendChain = r.sendChain
  BY DEF SealsAlike, SameOtherwise
<1>2. Ahead(t, r) => Ahead(t, r2)
  BY <1>1 DEF Ahead
<1>3. ASSUME Ahead(r, t)
      PROVE  Ahead(r2, t)
  <2>1. /\ r.recvChain \subseteq {KeyOf(t.rootKey, r.recvCounter)}
        /\ r.recvChain = {} => t.sendChain = {}
    BY <1>3 DEF Ahead
  <2>2. /\ r2.recvChain \subseteq {KeyOf(t.rootKey, r2.recvCounter)}
        /\ r2.recvChain = {} => t.sendChain = {}
    <3>1. CASE r2.recvChain = r.recvChain /\ r2.recvCounter = r.recvCounter
      BY <2>1, <3>1
    <3>2. ASSUME NEW root, r.recvChain = {KeyOf(root, r.recvCounter)},
                 r2.recvChain = {KeyOf(root, r2.recvCounter)}
          PROVE  r2.recvChain = {KeyOf(t.rootKey, r2.recvCounter)}
      <4>1. KeyOf(root, r.recvCounter) = KeyOf(t.rootKey, r.recvCounter)
        BY <2>1, <3>2
      <4>2. root = t.rootKey
        BY <4>1 DEF KeyOf
      <4> QED
        BY <3>2, <4>2
    <3> QED
      BY <3>1, <3>2
  <2> QED
    BY <1>1, <1>3, <2>2 DEF Ahead
<1> QED
  BY <1>2, <1>3

\* The side that has turned is ahead of the side whose message it opened.
LEMMA TurnAhead ==
    ASSUME NEW K, NEW r, IsRatchetState(r, K), NEW u, IsRatchetState(u, K),
           NEW S \in SUBSET Message(K), Seals(S, u), NEW m \in S, IsNext(r, m),
           Ahead(u, r) \/ Ahead(r, u),
           NEW t, NEW f, f \notin K, NEW root, Turns(r, t, m, f, root)
    PROVE  Ahead(t, u)
<1> DEFINE l == Len(r.rootKey)
           k == Len(u.rootKey)
           d == m.header.dhPub
           n == m.header.counter
<1>1. l \in Nat /\ k \in Nat /\ r.dhSelf \in K /\ d \in K /\ n \in Nat
      /\ u.rootKey \in Root(K) /\ r.rootKey \in Root(K)
  BY TurnsAre
<1>2. Turn(m) = l + 1 /\ Turn(m) <= k /\ (Turn(m) = k => d = u.dhSelf)
  BY DEF IsNext, Seals
<1>3. ASSUME Ahead(r, u)
      PROVE  FALSE
  <2>1. l = k + 1
    <3>1. u.rootKey \in Seq(SUBSET K)
      BY <1>1 DEF Root
    <3> QED
      BY <1>3, <3>1 DEF Ahead
  <2> HIDE DEF l, k
  <2> QED
    BY <1>1, <1>2, <2>1
<1>4. /\ u.rootKey = Append(r.rootKey, {r.dhSelf, u.dhSelf})
      /\ u.dhRemote = r.dhSelf
  BY <1>3 DEF Ahead
<1>5. k = l + 1
  <2>1. r.rootKey \in Seq(SUBSET K)
    BY <1>1 DEF Root
  <2> QED
    BY <1>4, <2>1
<1>6. d = u.dhSelf
  BY <1>2, <1>5
<1>7. /\ t.dhSelf = f /\ t.dhRemote = d /\ t.recvCounter = n + 1
      /\ t.rootKey = Append(RecvRoot(r, d), {f, d})
      /\ t.recvChain = {KeyOf(RecvRoot(r, d), n + 1)}
  BY DEF Turns
<1>8. RecvRoot(r, d) = u.rootKey
  BY <1>4, <1>6 DEF RecvRoot
<1> HIDE DEF d, n
<1>9. t.dhSelf # u.dhRemote
  BY <1>1, <1>4, <1>7
<1>10. {f, d} = {u.dhSelf, f}
  BY <1>6
<1> QED
  BY <1>6, <1>7, <1>8, <1>9, <1>10 DEF Ahead

\* What opening a message does to either side.
LEMMA OpenMoves ==
    ASSUME NEW K, NEW r, IsRatchetState(r, K), NEW owner, Tidy(owner, r),
           NEW S \in SUBSET Message(K), Written(S),
           NEW U, Reads(S, U, r), NEW m \in S, NEW f, f \notin K, Opens(r, m, f),
           NEW V \in SUBSET U, \A x \in V : x.key # m.key
    PROVE  LET t == AfterDecrypt(r, m, f)
           IN  /\ Reads(S, V, t)
               /\ \A W \in SUBSET Message(K) : Seals(W, r) => Seals(W, t)
               /\ \A u : /\ IsRatchetState(u, K) /\ Seals(S, u)
                         /\ Ahead(u, r) \/ Ahead(r, u)
                         => Ahead(u, t) \/ Ahead(t, u)
<1> DEFINE t == AfterDecrypt(r, m, f)
<1>1. CASE HasSkipped(r, m.header)
  <2>1. /\ Reads(S, V, t) /\ SealsAlike(r, t)
        /\ t.recvChain = r.recvChain /\ t.recvCounter = r.recvCounter
    BY <1>1, OpenCachedReads
  <2> HIDE DEF t
  <2> QED
    BY <2>1, AlikeSeals, AlikeAhead DEF t
<1>2. CASE ~HasSkipped(r, m.header) /\ m.header.dhPub = r.dhRemote
  <2>1. /\ Reads(S, V, t) /\ SealsAlike(r, t)
        /\ r.recvChain = {KeyOf(m.key.root, r.recvCounter)}
        /\ t.recvChain = {KeyOf(m.key.root, t.recvCounter)}
    BY <1>2, OpenAtHandReads
  <2> HIDE DEF t
  <2> QED
    BY <2>1, AlikeSeals, AlikeAhead DEF t
<1>3. CASE ~HasSkipped(r, m.header) /\ m.header.dhPub # r.dhRemote
  <2>1. Reads(S, V, t) /\ IsNext(r, m) /\ \E root : Turns(r, t, m, f, root)
    BY <1>3, OpenNextReads
  <2>2. PICK root : Turns(r, t, m, f, root)
    BY <2>1
  <2>3. m.header.dhPub \in K
    BY TurnsAre
  <2> HIDE DEF t
  <2>4. \A W \in SUBSET Message(K) : Seals(W, r) => Seals(W, t)
    BY <2>2, <2>3, TurnSeals
  <2>5. \A u : IsRatchetState(u, K) /\ Seals(S, u) /\ (Ahead(u, r) \/ Ahead(r, u)) => Ahead(t, u)
    BY <2>1, <2>2, TurnAhead
  <2> QED
    BY <2>1, <2>4, <2>5 DEF t
<1> QED
  BY <1>1, <1>2, <1>3

(***************************************************************************)
(* What has not been opened opens, as long as the caps hold all there is.  *)
(***************************************************************************)
Place(m) == <<m.header.dhPub, m.header.counter>>

LEMMA AllFits ==
    ASSUME NEW S, IsFiniteSet(S), Cardinality(S) <= MaxSkip, Cardinality(S) <= GlobalSkipCap
    PROVE  FitsSkipCaps(S, [m \in S |-> Place(m)])
<1> DEFINE g == [m \in S |-> Place(m)]
<1>1. ASSUME NEW m \in S
      PROVE  Cardinality(InBucket(S, g, m)) <= MaxSkip
  <2> DEFINE B == InBucket(S, g, m)
  <2>1. B \in SUBSET S
    BY DEF InBucket
  <2> HIDE DEF B
  <2>2. IsFiniteSet(B) /\ Cardinality(B) <= Cardinality(S)
    BY <2>1, FS_Subset
  <2>3. Cardinality(B) \in Nat /\ Cardinality(S) \in Nat
    BY <2>2, FS_CardinalityType
  <2>4. Cardinality(B) <= MaxSkip
    BY <2>2, <2>3, SkipCapsAssumption
  <2> QED
    BY <2>4 DEF B
<1> QED
  BY <1>1 DEF FitsSkipCaps

\* The caps leave room for slots of messages that are in S and not in the cache.
LEMMA RoomInS ==
    ASSUME NEW S, IsFiniteSet(S), Cardinality(S) <= MaxSkip, Cardinality(S) <= GlobalSkipCap,
           NEW r, NEW remote, NEW upTo, IsFiniteSet(ToSkip(r, upTo)),
           \A x, c : HasSlot(r, x, c) => \E m \in S : Place(m) = <<x, c>>,
           \A c \in ToSkip(r, upTo) : /\ \E m \in S : Place(m) = <<remote, c>>
                                      /\ ~HasSlot(r, remote, c)
    PROVE  SkipAllowed(r, remote, upTo)
<1> DEFINE g == [m \in S |-> Place(m)]
           new == ToSkip(r, upTo)
<1> HIDE DEF new
<1>1. FitsSkipCaps(S, g)
  BY AllFits
<1>2. HoldsPlaces(S, g, r, remote, new)
  <2>1. \A x, c : HasSlot(r, x, c) \/ (x = remote /\ c \in new) => \E m \in S : Place(m) = <<x, c>>
    BY DEF new
  <2>2. \A m \in S : g[m] = Place(m)
    OBVIOUS
  <2>3. \A c \in new : ~HasSlot(r, remote, c)
    BY DEF new
  <2> HIDE DEF g
  <2> QED
    BY <2>1, <2>2, <2>3 DEF HoldsPlaces
<1> HIDE DEF g
<1>3. Cardinality(new) > 0 =>
          /\ Cardinality(DOMAIN Bucket(r, remote)) + Cardinality(new) <= MaxSkip
          /\ totalSkipped(r) + Cardinality(new) <= GlobalSkipCap
  BY <1>1, <1>2, RoomAmong DEF new
<1> QED
  BY <1>3 DEF SkipAllowed, new

\* The places of the cache, and what is known of a message in it.
LEMMA CacheIs ==
    ASSUME NEW S, NEW U, NEW r, Reads(S, U, r), NEW x, NEW c, HasSlot(r, x, c)
    PROVE  \E m \in S : /\ Place(m) = <<x, c>> /\ m.header.dhPub = x /\ m.header.counter = c
                        /\ m.key = r.skipped[x][c] /\ InCache(r, m)
                        /\ ~IsNext(r, m) /\ ~ToCome(r, m)
<1>1. PICK m \in S : m.header.dhPub = x /\ m.header.counter = c /\ m.key = r.skipped[x][c]
  BY DEF Reads
<1>2. InCache(r, m)
  BY <1>1 DEF InCache
<1>3. ~IsNext(r, m) /\ ~ToCome(r, m)
  BY <1>2, ReadsOf
<1> QED
  BY <1>1, <1>2, <1>3 DEF Place

LEMMA OpensInCache ==
    ASSUME NEW K, NEW S \in SUBSET Message(K), Written(S), NEW U, NEW r, Reads(S, U, r),
           NEW m \in S, InCache(r, m), NEW f
    PROVE  Opens(r, m, f)
<1>1. PICK x \in S : /\ x.header.dhPub = m.header.dhPub /\ x.header.counter = m.header.counter
                     /\ x.key = r.skipped[m.header.dhPub][m.header.counter]
  BY CacheIs DEF InCache
<1>2. x.key = m.key
  BY <1>1, SameKey
<1>3. HasSkipped(r, m.header)
  BY DEF InCache, HasSlot, HasSkipped
<1> QED
  BY <1>1, <1>2, <1>3 DEF Opens

LEMMA OpensToCome ==
    ASSUME NEW K, NEW r, IsRatchetState(r, K), NEW S \in SUBSET Message(K), Written(S),
           IsFiniteSet(S), Cardinality(S) <= MaxSkip, Cardinality(S) <= GlobalSkipCap,
           NEW U, Reads(S, U, r), NEW m \in S, ToCome(r, m), ~InCache(r, m), NEW f
    PROVE  Opens(r, m, f)
<1> DEFINE h == m.header
           n == h.counter
           a == r.recvCounter
           l == Len(r.rootKey)
           root == m.key.root
           new == ToSkip(r, n)
<1>1. /\ n \in Nat /\ a \in Nat /\ l \in Nat /\ a <= n /\ Turn(m) = l - 1 /\ Turn(m) < l
  BY TurnsAre DEF ToCome
<1>2. /\ h.dhPub = r.dhRemote /\ r.recvChain = {KeyOf(root, a)} /\ m.key = KeyOf(root, n)
  <2>1. h.dhPub = r.dhRemote /\ r.recvChain = {KeyOf(root, a)}
    BY <1>1, ReadsOf
  <2>2. m.key = KeyOf(root, n)
    BY SameKey
  <2> QED
    BY <2>1, <2>2
<1>3. ~HasSkipped(r, h)
  BY DEF InCache, HasSlot, HasSkipped
<1>4. Turned(r, h, f) = r
  BY <1>2 DEF Turned
<1>5. KeyOf(root, n) \in cacheSkipped(r, h.dhPub, n).recvChain
  BY <1>1, <1>2, WalksTo
<1>6. IsFiniteSet(new)
  BY <1>1, ToSkipFinite
<1>7. \A c \in new : c \in Nat /\ c < n /\ c >= a
  BY <1>1 DEF ToSkip
<1> HIDE DEF new
<1>8. ASSUME NEW c \in new
      PROVE  \E x \in S : Place(x) = <<h.dhPub, c>>
  <2>1. PICK x \in S : Turn(x) = Turn(m) /\ x.header.counter = c
    BY <1>7 DEF Written, Sent
  <2>2. x.header.dhPub = h.dhPub
    BY <2>1, SameKey
  <2> QED
    BY <2>1, <2>2 DEF Place
<1>9. ASSUME NEW c \in new
      PROVE  ~HasSlot(r, h.dhPub, c)
  <2> SUFFICES ASSUME HasSlot(r, h.dhPub, c) PROVE FALSE
    OBVIOUS
  <2>1. PICK x \in S : x.header.dhPub = h.dhPub /\ x.header.counter = c /\ ~ToCome(r, x)
    BY CacheIs
  <2>2. Turn(x) = Turn(m)
    BY <2>1, SameKey
  <2> QED
    BY <1>1, <1>7, <2>1, <2>2 DEF ToCome
<1>10. \A x, c : HasSlot(r, x, c) => \E y \in S : Place(y) = <<x, c>>
  BY CacheIs
<1>11. SkipAllowed(r, h.dhPub, n)
  BY <1>6, <1>8, <1>9, <1>10, RoomInS DEF new
<1> HIDE DEF h, n
<1> QED
  BY <1>2, <1>3, <1>4, <1>5, <1>11 DEF Opens, MessageKey, h, n

\* The state between the turn and the walk up the new chain.
LEMMA TurnedState ==
    ASSUME NEW K, NEW r, IsRatchetState(r, K), NEW root, Stands(r, root),
           NEW h, h.dhPub \in K, h.prevN \in Nat, h.dhPub # r.dhRemote, NEW f \in K
    PROVE  LET t == Turned(r, h, f)
           IN  /\ IsRatchetState(t, K) /\ t.recvCounter = 0
               /\ t.recvChain = {KeyOf(RecvRoot(r, h.dhPub), 0)}
               /\ \A x, c : HasSlot(t, x, c) <=> HasSlot(r, x, c) \/ (x = r.dhRemote /\ c \in Closing(r, h))
<1> DEFINE v == IF r.dhRemote = NoPub THEN r ELSE cacheSkipped(r, r.dhRemote, h.prevN)
           t == dhRatchetStep(v, h.dhPub, f)
           old == Closing(r, h)
<1>1. t = Turned(r, h, f)
  BY DEF Turned
<1>2. IsRatchetState(v, K) /\ SealsAlike(r, v) /\ Gains(r, v, r.dhRemote, old, root)
  <2>1. CASE r.dhRemote = NoPub
    BY <2>1 DEF SealsAlike, SameOtherwise, Gains, Closing
  <2>2. CASE r.dhRemote # NoPub
    <3>1. r.dhRemote \in K
      BY <2>2 DEF IsRatchetState, Fields
    <3>2. v = cacheSkipped(r, r.dhRemote, h.prevN) /\ old = ToSkip(r, h.prevN)
      BY <2>2 DEF Closing
    <3> HIDE DEF v, old
    <3> QED
      BY <3>1, <3>2, CacheStep, CacheGains
  <2> QED
    BY <2>1, <2>2
<1> HIDE DEF v, old
<1>3. IsRatchetState(t, K) /\ Stepped(v, t, h.dhPub, f)
  BY <1>2, DhStep
<1>4. RecvRoot(v, h.dhPub) = RecvRoot(r, h.dhPub)
  BY <1>2 DEF SealsAlike, SameOtherwise, RecvRoot
<1> HIDE DEF t
<1>5. /\ t.recvCounter = 0 /\ t.skipped = v.skipped
      /\ t.recvChain = {KeyOf(RecvRoot(r, h.dhPub), 0)}
  BY <1>3, <1>4 DEF Stepped, FirstChainKey, KeyOf
<1>6. \A x, c : HasSlot(t, x, c) <=> HasSlot(r, x, c) \/ (x = r.dhRemote /\ c \in old)
  BY <1>2, <1>5 DEF Gains, HasSlot
<1> QED
  BY <1>1, <1>3, <1>5, <1>6 DEF old

LEMMA OpensOnTurn ==
    ASSUME NEW K, NEW r, IsRatchetState(r, K), NEW owner, Tidy(owner, r),
           NEW S \in SUBSET Message(K), Written(S),
           IsFiniteSet(S), Cardinality(S) <= MaxSkip, Cardinality(S) <= GlobalSkipCap,
           NEW U, Reads(S, U, r), NEW m \in S, IsNext(r, m), ~InCache(r, m), NEW f
    PROVE  Opens(r, m, f)
<1> DEFINE h == m.header
           n == h.counter
           l == Len(r.rootKey)
           recv == RecvRoot(r, h.dhPub)
           old == Closing(r, h)
           t == Turned(r, h, f)
           new == ToSkip(t, n)
           L == K \union {f}
<1>1. /\ n \in Nat /\ h.prevN \in Nat /\ l \in Nat /\ h.dhPub \in K
      /\ \A x \in S : x.header.counter \in Nat
  BY TurnsAre
<1>2. /\ Turn(m) = l + 1 /\ m.key.root = recv /\ h.dhPub # r.dhRemote
      /\ m.key = KeyOf(recv, n)
  <2>1. Turn(m) = l + 1
    BY DEF IsNext
  <2>2. ~(Turn(m) < l) /\ Turn(m) # l - 1
    BY <1>1, <2>1
  <2>3. m.key.root = recv /\ h.dhPub # r.dhRemote
    BY <2>2, ReadsOf
  <2>4. m.key = KeyOf(m.key.root, n)
    BY SameKey
  <2> QED
    BY <2>1, <2>3, <2>4
<1>3. PICK root : Stands(r, root)
  BY StandsSomewhere
<1>4. IsRatchetState(r, L) /\ h.dhPub \in L /\ f \in L
  BY <1>1, StateGrows
<1>5. /\ IsRatchetState(t, L) /\ t.recvCounter = 0 /\ t.recvChain = {KeyOf(recv, 0)}
      /\ \A x, c : HasSlot(t, x, c) <=> HasSlot(r, x, c) \/ (x = r.dhRemote /\ c \in old)
  <2> HIDE DEF L, h
  <2> QED
    BY <1>1, <1>2, <1>3, <1>4, TurnedState
<1>6. ~HasSkipped(r, h)
  BY DEF InCache, HasSlot, HasSkipped
<1>7. /\ \A c \in old : c \in Nat /\ r.recvCounter <= c /\ Sent(S, l - 1, c)
  BY ClosingIs
<1>8. IsFiniteSet(new)
  <2> HIDE DEF t, L, n
  <2> QED
    BY <1>1, <1>5, ToSkipFinite
<1>9. \A c \in new : c \in Nat /\ c < n
  <2> HIDE DEF t, L, n
  <2> QED
    BY <1>1, <1>5 DEF ToSkip
<1>10. KeyOf(recv, n) \in cacheSkipped(t, h.dhPub, n).recvChain
  <2> HIDE DEF t, L, n, recv
  <2>1. t.recvCounter <= n /\ t.recvChain = {KeyOf(recv, t.recvCounter)}
    BY <1>1, <1>5
  <2> QED
    BY <1>1, <1>5, <2>1, WalksTo
<1> HIDE DEF t, new, old, recv, L
<1>11. \A x, c : HasSlot(r, x, c) => \E y \in S : Place(y) = <<x, c>>
  BY CacheIs
\* Closing the old chain.
<1>12. ASSUME NEW c \in old
       PROVE  (\E x \in S : Place(x) = <<r.dhRemote, c>>) /\ ~HasSlot(r, r.dhRemote, c)
  <2>1. PICK x \in S : Turn(x) = l - 1 /\ x.header.counter = c
    BY <1>7 DEF Sent
  <2>2. x.header.dhPub = r.dhRemote
    BY <2>1, ReadsOf
  <2>3. ~HasSlot(r, r.dhRemote, c)
    <3>1. ToCome(r, x)
      BY <1>7, <2>1 DEF ToCome
    <3>2. ~InCache(r, x)
      BY <3>1, ReadsOf
    <3> QED
      BY <2>1, <2>2, <3>2 DEF InCache
  <2> QED
    BY <2>1, <2>2, <2>3 DEF Place
<1>13. ClosesAllowed(r, h)
  <2> SUFFICES ASSUME r.dhRemote # NoPub PROVE SkipAllowed(r, r.dhRemote, h.prevN)
    BY DEF ClosesAllowed
  <2>1. old = ToSkip(r, h.prevN)
    BY DEF old, Closing
  <2>2. IsFiniteSet(ToSkip(r, h.prevN))
    BY <1>1, ToSkipFinite
  <2> HIDE DEF h
  <2> QED
    BY <1>11, <1>12, <2>1, <2>2, RoomInS
\* Walking up the new one.
<1>14. \A x, c : HasSlot(t, x, c) => \E y \in S : Place(y) = <<x, c>>
  BY <1>5, <1>11, <1>12
<1>15. ASSUME NEW c \in new
       PROVE  (\E x \in S : Place(x) = <<h.dhPub, c>>) /\ ~HasSlot(t, h.dhPub, c)
  <2>1. PICK x \in S : Turn(x) = Turn(m) /\ x.header.counter = c
    BY <1>9 DEF Written, Sent
  <2>2. x.header.dhPub = h.dhPub
    BY <2>1, SameKey
  <2>3. ~HasSlot(r, h.dhPub, c)
    <3>1. IsNext(r, x)
      BY <2>1 DEF IsNext
    <3>2. ~InCache(r, x)
      BY <3>1, ReadsOf
    <3> QED
      BY <2>1, <2>2, <3>2 DEF InCache
  <2> QED
    BY <1>2, <1>5, <2>1, <2>2, <2>3 DEF Place
<1>16. SkipAllowed(t, h.dhPub, n)
  <2> HIDE DEF h, n
  <2> QED
    BY <1>8, <1>14, <1>15, RoomInS DEF new
<1> HIDE DEF h, n
<1> QED
  BY <1>2, <1>6, <1>10, <1>13, <1>16 DEF Opens, MessageKey, h, n, t

LEMMA OpensFrom ==
    ASSUME NEW K, NEW r, IsRatchetState(r, K), NEW owner, Tidy(owner, r),
           NEW S \in SUBSET Message(K), Written(S),
           IsFiniteSet(S), Cardinality(S) <= MaxSkip, Cardinality(S) <= GlobalSkipCap,
           NEW U, Reads(S, U, r), NEW m \in S, m \in U, NEW f
    PROVE  Opens(r, m, f)
<1>1. IsNext(r, m) \/ ToCome(r, m) \/ InCache(r, m)
  BY ReadsOf
<1>2. CASE InCache(r, m)
  BY <1>2, OpensInCache
<1>3. CASE ToCome(r, m) /\ ~InCache(r, m)
  BY <1>3, OpensToCome
<1>4. CASE IsNext(r, m) /\ ~InCache(r, m)
  BY <1>4, OpensOnTurn
<1> QED
  BY <1>1, <1>2, <1>3, <1>4

----------------------------------------------------------------------------
(***************************************************************************)
(* The two ratchets of a handshake that ran once, in the state.            *)
(***************************************************************************)
IndicesOf(p, h) == {i \in DOMAIN wire[p] : Handshake(wire[p][i].msg) = h}
MsgsOf(p, h) == {wire[p][i].msg : i \in IndicesOf(p, h)}
UnreadOf(p, h) == {wire[p][i].msg : i \in {j \in IndicesOf(p, h) : opened[p][j] = 0}}
RatchetsOf(p, h) == {x[2] : x \in {y \in StrandsOf(p) : y[1] = h}}

Once(h) == \A q \in Party : Times(accepted[q], h) <= 1

\* As long as the responder has not answered, the initiator is alone with h.
Alone(p, h) ==
    LET spk == SpkOf(Peer(p))
    IN  /\ MsgsOf(Peer(p), h) = {}
        /\ \A m \in MsgsOf(p, h) : m.key.root = <<h, {spk, m.header.dhPub}>>
        /\ \A t \in RatchetsOf(p, h) :
              t.rootKey = <<h, {spk, t.dhSelf}>> /\ t.dhRemote = spk /\ t.recvChain = {}

\* What p seals under h is in order, and its peer can follow.
Follows(p, h) ==
    LET q == Peer(p)
    IN  /\ Written(MsgsOf(p, h))
        /\ \A t \in RatchetsOf(p, h) : Seals(MsgsOf(p, h), t)
        /\ \A r \in RatchetsOf(q, h) : Reads(MsgsOf(p, h), UnreadOf(p, h), r)
        /\ \A t \in RatchetsOf(p, h) : \A r \in RatchetsOf(q, h) : Ahead(t, r) \/ Ahead(r, t)
        /\ SpkOf(q) \in h /\ Times(accepted[q], h) = 0 => Alone(p, h)

Paired == \A h : Once(h) => \A p \in Party : Follows(p, h)

LEMMA MsgsAre ==
    \A p, h, m :
        /\ m \in MsgsOf(p, h)
              <=> \E i \in DOMAIN wire[p] : wire[p][i].msg = m /\ Handshake(m) = h
        /\ m \in UnreadOf(p, h)
              <=> \E i \in DOMAIN wire[p] :
                     wire[p][i].msg = m /\ Handshake(m) = h /\ opened[p][i] = 0
        /\ m \in MsgsOf(p, h)'
              <=> \E i \in DOMAIN wire'[p] : wire'[p][i].msg = m /\ Handshake(m) = h
        /\ m \in UnreadOf(p, h)'
              <=> \E i \in DOMAIN wire'[p] :
                     wire'[p][i].msg = m /\ Handshake(m) = h /\ opened'[p][i] = 0
BY DEF MsgsOf, UnreadOf, IndicesOf

LEMMA RatchetsAre ==
    \A p, h, r :
        /\ r \in RatchetsOf(p, h) <=> \E x \in StrandsOf(p) : x[1] = h /\ x[2] = r
        /\ r \in RatchetsOf(p, h)' <=> \E x \in StrandsOf(p)' : x[1] = h /\ x[2] = r
BY DEF RatchetsOf

LEMMA PairTyped ==
    ASSUME Typed, NEW p \in Party, NEW h
    PROVE  /\ MsgsOf(p, h) \in SUBSET Message(Made)
           /\ UnreadOf(p, h) \subseteq MsgsOf(p, h)
           /\ \A m \in MsgsOf(p, h) : m.header.dhPub # NoPub
           /\ \A r \in RatchetsOf(p, h) : IsRatchetState(r, Made) /\ Tidy(p, r)
<1>1. \A m \in MsgsOf(p, h) : m \in Message(Made) /\ m.header.dhPub # NoPub
  BY MsgsAre, TrafficOf
<1>2. UnreadOf(p, h) \subseteq MsgsOf(p, h)
  BY MsgsAre
<1>3. \A r \in RatchetsOf(p, h) : IsRatchetState(r, Made) /\ Tidy(p, r)
  BY RatchetsAre, StrandsOfAre
<1> QED
  BY <1>1, <1>2, <1>3

\* What Follows says of a pair of devices in the state that comes.
LEMMA FollowsNext ==
    ASSUME NEW p, NEW h,
           Written(MsgsOf(p, h)'),
           \A t \in RatchetsOf(p, h)' : Seals(MsgsOf(p, h)', t),
           \A r \in RatchetsOf(Peer(p), h)' : Reads(MsgsOf(p, h)', UnreadOf(p, h)', r),
           \A t \in RatchetsOf(p, h)' : \A r \in RatchetsOf(Peer(p), h)' : Ahead(t, r) \/ Ahead(r, t),
           SpkOf(Peer(p)) \in h /\ Times(accepted'[Peer(p)], h) = 0 => Alone(p, h)'
    PROVE  Follows(p, h)'
BY DEF Follows

\* A message that is read need not be looked for.
LEMMA ReadsFewer ==
    ASSUME NEW S, NEW U, NEW r, Reads(S, U, r), NEW V, V \subseteq U
    PROVE  Reads(S, V, r)
BY DEF Reads

LEMMA FollowsStill ==
    ASSUME NEW p, NEW h, Follows(p, h),
           MsgsOf(p, h)' = MsgsOf(p, h), MsgsOf(Peer(p), h)' = MsgsOf(Peer(p), h),
           UnreadOf(p, h)' \subseteq UnreadOf(p, h),
           RatchetsOf(p, h)' \subseteq RatchetsOf(p, h),
           RatchetsOf(Peer(p), h)' \subseteq RatchetsOf(Peer(p), h),
           Times(accepted'[Peer(p)], h) = 0 => Times(accepted[Peer(p)], h) = 0
    PROVE  Follows(p, h)'
<1> DEFINE q == Peer(p)
<1>1. /\ Written(MsgsOf(p, h))
      /\ \A t \in RatchetsOf(p, h) : Seals(MsgsOf(p, h), t)
      /\ \A r \in RatchetsOf(q, h) : Reads(MsgsOf(p, h), UnreadOf(p, h), r)
      /\ \A t \in RatchetsOf(p, h) : \A r \in RatchetsOf(q, h) : Ahead(t, r) \/ Ahead(r, t)
      /\ SpkOf(q) \in h /\ Times(accepted[q], h) = 0 => Alone(p, h)
  BY DEF Follows
<1>2. \A r \in RatchetsOf(q, h)' : Reads(MsgsOf(p, h)', UnreadOf(p, h)', r)
  BY <1>1, ReadsFewer
<1>3. Alone(p, h) => Alone(p, h)'
  BY DEF Alone
<1> HIDE DEF q
<1> QED
  BY <1>1, <1>2, <1>3, FollowsNext DEF q

LEMMA KeepsPaired ==
    ASSUME Paired, Keeps
    PROVE  Paired'
<1>1. /\ wire' = wire /\ opened' = opened /\ accepted' = accepted
      /\ \A q \in Party : \A x \in StrandsOf(q)' : x \in StrandsOf(q)
  BY DEF Keeps, past
<1>2. ASSUME NEW h, Once(h)', NEW p \in Party
      PROVE  Follows(p, h)'
  <2>1. Once(h) /\ Follows(p, h)
    <3>1. Once(h)
      BY <1>1, <1>2 DEF Once
    <3> QED
      BY <3>1 DEF Paired
  <2>2. \A r : /\ MsgsOf(r, h)' = MsgsOf(r, h) /\ UnreadOf(r, h)' = UnreadOf(r, h)
    BY <1>1 DEF MsgsOf, UnreadOf, IndicesOf
  <2>3. \A r \in Party : RatchetsOf(r, h)' \subseteq RatchetsOf(r, h)
    BY <1>1, RatchetsAre
  <2> QED
    BY <1>1, <2>1, <2>2, <2>3, Peers, FollowsStill
<1> QED
  BY <1>2 DEF Paired

\* encryptRatchet leaves the reading side of a ratchet alone.
LEMMA EncryptReads ==
    ASSUME NEW S, NEW U, NEW r, Reads(S, U, r),
           NEW t, t.rootKey = r.rootKey, t.dhSelf = r.dhSelf, t.dhRemote = r.dhRemote,
           t.recvChain = r.recvChain, t.recvCounter = r.recvCounter, t.skipped = r.skipped
    PROVE  Reads(S, U, t)
<1>1. \A m : /\ IsNext(t, m) <=> IsNext(r, m)
             /\ ToCome(t, m) <=> ToCome(r, m)
             /\ InCache(t, m) <=> InCache(r, m)
             /\ RecvRoot(t, m.header.dhPub) = RecvRoot(r, m.header.dhPub)
  BY DEF IsNext, ToCome, InCache, HasSlot, RecvRoot
<1>2. \A x, c : HasSlot(t, x, c) <=> HasSlot(r, x, c)
  BY DEF HasSlot
<1> QED
  BY <1>1, <1>2 DEF Reads

(***************************************************************************)
(* One lemma per action: the devices stay paired.                          *)
(***************************************************************************)
\* encryptForPeer.
LEMMA SealSets ==
    ASSUME Typed, Counted, NEW p \in Party, NEW x, SealsWith(p, x)
    PROVE  LET e == Sealed(x[2])
               q == Peer(p)
           IN  /\ Handshake(e) = x[1]
               /\ MsgsOf(p, x[1])' = MsgsOf(p, x[1]) \union {e}
               /\ UnreadOf(p, x[1])' = UnreadOf(p, x[1]) \union {e}
               /\ \A t \in RatchetsOf(p, x[1])' : t = AfterEncrypt(x[2])
               /\ \A g : g # x[1] => /\ MsgsOf(p, g)' = MsgsOf(p, g)
                                     /\ UnreadOf(p, g)' = UnreadOf(p, g)
                                     /\ RatchetsOf(p, g)' \subseteq RatchetsOf(p, g)
               /\ \A g : /\ MsgsOf(q, g)' = MsgsOf(q, g) /\ UnreadOf(q, g)' = UnreadOf(q, g)
                         /\ RatchetsOf(q, g)' \subseteq RatchetsOf(q, g)
<1> DEFINE n == Len(wire[p]) + 1
           e == Sealed(x[2])
           q == Peer(p)
<1>1. /\ n \notin DOMAIN wire[p] /\ n \in DOMAIN wire'[p]
      /\ wire'[p][n].msg = e /\ opened'[p][n] = 0
      /\ \A i \in DOMAIN wire[p] : i \in DOMAIN wire'[p] /\ wire'[p][i] = wire[p][i]
                                            /\ opened'[p][i] = opened[p][i]
      /\ \A i \in DOMAIN wire'[p] : i \in DOMAIN wire[p] \/ i = n
      /\ wire'[q] = wire[q] /\ opened'[q] = opened[q]
  BY SealTraffic
<1>2. /\ x \in StrandsOf(p) /\ CanEncrypt(x[2])
      /\ \A r \in Party : \A y \in StrandsOf(r)' :
            \/ y \in StrandsOf(r) /\ (r = p => y[1] # x[1])
            \/ r = p /\ y = <<x[1], AfterEncrypt(x[2])>>
  BY DEF SealsWith, Becomes
<1>3. q \in Party /\ q # p
  BY Peers
<1>4. Handshake(e) = x[1]
  <2>1. IsRatchetState(x[2], Made) /\ Rooted(x[2], x[1])
    BY <1>2, StrandsOfAre DEF Counted, Bound
  <2>2. Under(e.key.root, x[1])
    BY <1>2, <2>1, EncryptRooted
  <2> QED
    BY <2>2 DEF Under, Handshake
<1> HIDE DEF n, e, q
<1>5. \A m, g : /\ m \in MsgsOf(p, g)' <=> m \in MsgsOf(p, g) \/ (m = e /\ g = x[1])
                /\ m \in UnreadOf(p, g)' <=> m \in UnreadOf(p, g) \/ (m = e /\ g = x[1])
  <2>1. ASSUME NEW m, NEW g
        PROVE  m \in MsgsOf(p, g)' <=> m \in MsgsOf(p, g) \/ (m = e /\ g = x[1])
    BY <1>1, <1>4, MsgsAre
  <2>2. ASSUME NEW m, NEW g
        PROVE  m \in UnreadOf(p, g)' <=> m \in UnreadOf(p, g) \/ (m = e /\ g = x[1])
    BY <1>1, <1>4, MsgsAre
  <2> QED
    BY <2>1, <2>2
<1>6. \A g : MsgsOf(q, g)' = MsgsOf(q, g) /\ UnreadOf(q, g)' = UnreadOf(q, g)
  BY <1>1 DEF MsgsOf, UnreadOf, IndicesOf
<1>7. \A g : RatchetsOf(q, g)' \subseteq RatchetsOf(q, g)
  BY <1>2, <1>3, RatchetsAre
<1>8. \A t \in RatchetsOf(p, x[1])' : t = AfterEncrypt(x[2])
  BY <1>2, RatchetsAre
<1>9. \A g : g # x[1] => RatchetsOf(p, g)' \subseteq RatchetsOf(p, g)
  BY <1>2, RatchetsAre
<1>10. /\ MsgsOf(p, x[1])' = MsgsOf(p, x[1]) \union {e}
       /\ UnreadOf(p, x[1])' = UnreadOf(p, x[1]) \union {e}
  BY <1>5
<1>11. \A g : g # x[1] => MsgsOf(p, g)' = MsgsOf(p, g) /\ UnreadOf(p, g)' = UnreadOf(p, g)
  BY <1>5
<1> QED
  BY <1>4, <1>6, <1>7, <1>8, <1>9, <1>10, <1>11 DEF e, q

LEMMA SealPaired ==
    ASSUME Typed, Counted, Paired, NEW p \in Party, NEW x, SealsWith(p, x)
    PROVE  Paired'
<1> DEFINE q == Peer(p)
           h == x[1]
           s == x[2]
           t == AfterEncrypt(s)
           e == Sealed(s)
           S == MsgsOf(p, h)
           U == UnreadOf(p, h)
<1>1. /\ MsgsOf(p, h)' = S \union {e} /\ UnreadOf(p, h)' = U \union {e}
      /\ \A r \in RatchetsOf(p, h)' : r = t
      /\ \A g : g # h => /\ MsgsOf(p, g)' = MsgsOf(p, g)
                         /\ UnreadOf(p, g)' = UnreadOf(p, g)
                         /\ RatchetsOf(p, g)' \subseteq RatchetsOf(p, g)
      /\ \A g : /\ MsgsOf(q, g)' = MsgsOf(q, g) /\ UnreadOf(q, g)' = UnreadOf(q, g)
                /\ RatchetsOf(q, g)' \subseteq RatchetsOf(q, g)
  BY SealSets
<1>2. x \in StrandsOf(p) /\ CanEncrypt(s) /\ accepted' = accepted /\ s \in RatchetsOf(p, h)
  BY RatchetsAre DEF SealsWith
<1>3. q \in Party /\ q # p /\ Peer(q) = p /\ \A r \in Party : r = p \/ r = q
  BY Peers
<1>4. \A g : Once(g)' => Once(g)
  BY <1>2 DEF Once
<1> HIDE DEF q
<1>5. ASSUME NEW g, g # h, Once(g), NEW r \in Party
      PROVE  Follows(r, g)'
  <2>1. Follows(r, g)
    BY <1>5 DEF Paired
  <2> QED
    BY <1>1, <1>2, <1>3, <1>5, <2>1, FollowsStill DEF q
<1>6. ASSUME Once(h)
      PROVE  Follows(p, h)' /\ Follows(q, h)'
  <2>1. /\ Written(S) /\ Seals(S, s)
        /\ \A r \in RatchetsOf(q, h) : Reads(S, U, r) /\ (Ahead(s, r) \/ Ahead(r, s))
        /\ SpkOf(q) \in h /\ Times(accepted[q], h) = 0 => Alone(p, h)
    BY <1>2, <1>6 DEF Paired, Follows, q
  <2>2. /\ Written(MsgsOf(q, h))
        /\ \A r \in RatchetsOf(q, h) : Seals(MsgsOf(q, h), r)
        /\ Reads(MsgsOf(q, h), UnreadOf(q, h), s)
    BY <1>2, <1>3, <1>6 DEF Paired, Follows
  <2>3. /\ S \in SUBSET Message(Made) /\ IsRatchetState(s, Made)
        /\ \A r \in RatchetsOf(q, h) : IsRatchetState(r, Made)
    BY <1>2, <1>3, PairTyped
  <2>4. /\ e.key.root = s.rootKey /\ e.header.dhPub = s.dhSelf
        /\ t.dhSelf = s.dhSelf /\ t.dhRemote = s.dhRemote /\ t.rootKey = s.rootKey
        /\ t.recvChain = s.recvChain /\ t.recvCounter = s.recvCounter
        /\ t.skipped = s.skipped
    BY <1>2, <2>1, <2>3, SealedShape
  <2> HIDE DEF S, U, s, h
  <2>5. Written(S \union {e}) /\ Seals(S \union {e}, t)
    BY <1>2, <2>1, <2>3, SealWritten
  <2>6. \A r \in RatchetsOf(q, h) : Reads(S \union {e}, U \union {e}, r)
    BY <1>2, <2>1, <2>3, SealReads
  <2>7. \A r \in RatchetsOf(q, h) : Ahead(t, r) \/ Ahead(r, t)
    BY <1>2, <2>1, <2>3, SealAhead
  <2>8. Reads(MsgsOf(q, h), UnreadOf(q, h), t)
    <3> HIDE DEF t
    <3> QED
      BY <2>2, <2>4, EncryptReads
  <2> HIDE DEF e, t
  <2>9. SpkOf(q) \in h /\ Times(accepted'[q], h) = 0 => Alone(p, h)'
    <3> SUFFICES ASSUME Alone(p, h) PROVE Alone(p, h)'
      BY <1>2, <2>1
    <3> DEFINE spk == SpkOf(q)
    <3>1. /\ MsgsOf(q, h) = {}
          /\ \A m \in S : m.key.root = <<h, {spk, m.header.dhPub}>>
          /\ s.rootKey = <<h, {spk, s.dhSelf}>> /\ s.dhRemote = spk /\ s.recvChain = {}
      BY <1>2 DEF Alone, q, S
    <3>2. e.key.root = <<h, {spk, e.header.dhPub}>>
      BY <2>4, <3>1
    <3>3. t.rootKey = <<h, {spk, t.dhSelf}>> /\ t.dhRemote = spk /\ t.recvChain = {}
      BY <2>4, <3>1
    <3> QED
      BY <1>1, <3>1, <3>2, <3>3 DEF Alone, q
  <2>10. SpkOf(p) \in h => Times(accepted'[p], h) # 0
    BY <1>2 DEF Counted, Answered, h
  <2>11. Follows(p, h)'
    <3>1. Written(MsgsOf(p, h)') /\ \A r \in RatchetsOf(p, h)' : Seals(MsgsOf(p, h)', r)
      BY <1>1, <2>5 DEF S
    <3>2. \A r \in RatchetsOf(q, h)' : Reads(MsgsOf(p, h)', UnreadOf(p, h)', r)
      BY <1>1, <2>6 DEF S, U
    <3>3. \A u \in RatchetsOf(p, h)' : \A r \in RatchetsOf(q, h)' : Ahead(u, r) \/ Ahead(r, u)
      BY <1>1, <2>7
    <3> QED
      BY <2>9, <3>1, <3>2, <3>3, FollowsNext DEF q
  <2>12. Follows(q, h)'
    <3>1. \A r \in RatchetsOf(q, h)' : Seals(MsgsOf(q, h)', r)
      BY <1>1, <2>2
    <3>2. \A r \in RatchetsOf(p, h)' : Reads(MsgsOf(q, h)', UnreadOf(q, h)', r)
      BY <1>1, <2>8
    <3>3. \A u \in RatchetsOf(q, h)' : \A r \in RatchetsOf(p, h)' : Ahead(u, r) \/ Ahead(r, u)
      BY <1>1, <2>7
    <3> QED
      BY <1>1, <1>3, <2>2, <2>10, <3>1, <3>2, <3>3, FollowsNext
  <2> QED
    BY <2>11, <2>12
<1> HIDE DEF h
<1>7. ASSUME NEW g, Once(g)', NEW r \in Party
      PROVE  Follows(r, g)'
  BY <1>3, <1>4, <1>5, <1>6, <1>7
<1> QED
  BY <1>7 DEF Paired

\* decryptFromPeer.
LEMMA OpenSets ==
    ASSUME Typed, Counted, NoKeyReuse, NEW p \in Party, NEW x, NEW i, OpensWith(p, x, i)
    PROVE  LET q == Peer(p)
               m == wire[q][i].msg
               t == AfterDecrypt(x[2], m, FreshKey(p))
           IN  /\ m \in MsgsOf(q, x[1])
               /\ \A r, g : MsgsOf(r, g)' = MsgsOf(r, g)
               /\ \A g : UnreadOf(p, g)' = UnreadOf(p, g)
               /\ \A g : UnreadOf(q, g)' \subseteq UnreadOf(q, g)
               /\ \A y \in UnreadOf(q, x[1])' : y.key # m.key
               /\ \A r \in RatchetsOf(p, x[1])' : r = t
               /\ \A g : g # x[1] => RatchetsOf(p, g)' \subseteq RatchetsOf(p, g)
               /\ \A g : RatchetsOf(q, g)' \subseteq RatchetsOf(q, g)
<1> DEFINE q == Peer(p)
           m == wire[q][i].msg
           t == AfterDecrypt(x[2], m, FreshKey(p))
<1>1. /\ wire' = wire /\ opened'[q][i] = opened[q][i] + 1 /\ i \in DOMAIN wire[q]
      /\ \A j \in DOMAIN wire[q] : j # i => opened'[q][j] = opened[q][j]
      /\ opened'[p] = opened[p]
  BY OpenTraffic
<1>2. /\ x \in StrandsOf(p) /\ Opens(x[2], m, FreshKey(p))
      /\ \A r \in Party : \A y \in StrandsOf(r)' :
            \/ y \in StrandsOf(r) /\ (r = p => y[1] # x[1])
            \/ r = p /\ y = <<x[1], t>>
  BY DEF OpensWith, Becomes
<1>3. q \in Party /\ q # p
  BY Peers
<1>4. m \in Message(Made) /\ opened[q][i] \in Nat
  BY <1>1, <1>3, TrafficOf
<1>5. Handshake(m) = x[1]
  <2>1. IsRatchetState(x[2], Made) /\ Rooted(x[2], x[1])
    BY <1>2, StrandsOfAre DEF Counted, Bound
  <2>2. Under(m.key.root, x[1])
    BY <1>2, <1>4, <2>1, DecryptRootedFresh
  <2> QED
    BY <2>2 DEF Under, Handshake
<1>6. opened'[q][i] # 0
  BY <1>1, <1>4
<1>7. \A j \in DOMAIN wire[q] : wire[q][j].msg.key = m.key => j = i
  BY <1>1, <1>3 DEF NoKeyReuse
<1> HIDE DEF t
<1>8. m \in MsgsOf(q, x[1])
  BY <1>1, <1>5, MsgsAre
<1>9. \A r, g : MsgsOf(r, g)' = MsgsOf(r, g)
  BY <1>1 DEF MsgsOf, IndicesOf
<1>10. \A g : UnreadOf(p, g)' = UnreadOf(p, g)
  BY <1>1 DEF UnreadOf, IndicesOf
<1> HIDE DEF q, m
<1>11. ASSUME NEW g, NEW y \in UnreadOf(q, g)'
       PROVE  y \in UnreadOf(q, g) /\ y.key # m.key
  <2>1. PICK j \in DOMAIN wire[q] :
           wire[q][j].msg = y /\ Handshake(y) = g /\ opened'[q][j] = 0
    BY <1>1, <1>11, MsgsAre
  <2>2. j # i
    BY <1>6, <2>1
  <2> QED
    BY <1>1, <1>7, <2>1, <2>2, MsgsAre
<1>12. \A g : RatchetsOf(q, g)' \subseteq RatchetsOf(q, g)
  BY <1>2, <1>3, RatchetsAre
<1>13. \A r \in RatchetsOf(p, x[1])' : r = t
  BY <1>2, RatchetsAre
<1>14. \A g : g # x[1] => RatchetsOf(p, g)' \subseteq RatchetsOf(p, g)
  BY <1>2, RatchetsAre
<1> QED
  BY <1>8, <1>9, <1>10, <1>11, <1>12, <1>13, <1>14 DEF q, m, t

LEMMA OpenPaired ==
    ASSUME Typed, Counted, NoKeyReuse, Paired, NEW p \in Party, NEW x, NEW i, OpensWith(p, x, i)
    PROVE  Paired'
<1> DEFINE q == Peer(p)
           m == wire[q][i].msg
           f == FreshKey(p)
           h == x[1]
           s == x[2]
           t == AfterDecrypt(s, m, f)
           S == MsgsOf(q, h)
           U == UnreadOf(q, h)
           V == UnreadOf(q, h)'
<1>1. /\ m \in S
      /\ \A r, g : MsgsOf(r, g)' = MsgsOf(r, g)
      /\ \A g : UnreadOf(p, g)' = UnreadOf(p, g)
      /\ \A g : UnreadOf(q, g)' \subseteq UnreadOf(q, g)
      /\ \A y \in V : y.key # m.key
      /\ \A r \in RatchetsOf(p, h)' : r = t
      /\ \A g : g # h => RatchetsOf(p, g)' \subseteq RatchetsOf(p, g)
      /\ \A g : RatchetsOf(q, g)' \subseteq RatchetsOf(q, g)
  BY OpenSets
<1>2. /\ x \in StrandsOf(p) /\ Opens(s, m, f) /\ accepted' = accepted
      /\ s \in RatchetsOf(p, h)
  BY RatchetsAre DEF OpensWith
<1>3. q \in Party /\ q # p /\ Peer(q) = p /\ \A r \in Party : r = p \/ r = q
  BY Peers
<1>4. \A g : Once(g)' => Once(g)
  BY <1>2 DEF Once
<1>5. f \notin Made
  <2>1. nextKey[p] \in Nat
    BY DEF Typed, KeysOK
  <2> QED
    BY <2>1, MadeHolds DEF Typed, FreshKey
<1> HIDE DEF q, f, m, t
<1>6. ASSUME NEW g, g # h, Once(g), NEW r \in Party
      PROVE  Follows(r, g)'
  <2>1. Follows(r, g)
    BY <1>6 DEF Paired
  <2>2. UnreadOf(r, g)' \subseteq UnreadOf(r, g) /\ RatchetsOf(r, g)' \subseteq RatchetsOf(r, g)
    BY <1>1, <1>3, <1>6
  <2>3. RatchetsOf(Peer(r), g)' \subseteq RatchetsOf(Peer(r), g)
    BY <1>1, <1>3, <1>6 DEF q
  <2> QED
    BY <1>1, <1>2, <2>1, <2>2, <2>3, FollowsStill
<1>7. ASSUME Once(h)
      PROVE  Follows(p, h)' /\ Follows(q, h)'
  <2>1. /\ Written(S) /\ Reads(S, U, s)
        /\ \A r \in RatchetsOf(q, h) : Seals(S, r)
    BY <1>2, <1>3, <1>7 DEF Paired, Follows
  <2>2. /\ Written(MsgsOf(p, h)) /\ Seals(MsgsOf(p, h), s)
        /\ \A r \in RatchetsOf(q, h) : /\ Reads(MsgsOf(p, h), UnreadOf(p, h), r)
                                       /\ Ahead(s, r) \/ Ahead(r, s)
        /\ SpkOf(q) \in h /\ Times(accepted[q], h) = 0 => Alone(p, h)
    BY <1>2, <1>7 DEF Paired, Follows, q
  <2>3. /\ S \in SUBSET Message(Made) /\ MsgsOf(p, h) \in SUBSET Message(Made)
        /\ IsRatchetState(s, Made) /\ Tidy(p, s)
        /\ \A r \in RatchetsOf(q, h) : IsRatchetState(r, Made)
    BY <1>2, <1>3, PairTyped
  <2>4. V \in SUBSET U
    BY <1>1
  <2>5. ~(SpkOf(q) \in h /\ Times(accepted[q], h) = 0)
    BY <1>1, <2>2 DEF Alone, q
  <2>6. SpkOf(p) \in h => Times(accepted'[p], h) # 0
    BY <1>2 DEF Counted, Answered
  <2> DEFINE P == MsgsOf(p, h)
  <2> HIDE DEF S, U, V, P, s, h
  <2>7. /\ Reads(S, V, t)
        /\ \A W \in SUBSET Message(Made) : Seals(W, s) => Seals(W, t)
        /\ \A u : /\ IsRatchetState(u, Made) /\ Seals(S, u)
                  /\ Ahead(u, s) \/ Ahead(s, u)
                  => Ahead(u, t) \/ Ahead(t, u)
    BY <1>1, <1>2, <1>5, <2>1, <2>3, <2>4, OpenMoves DEF t
  <2>8. \A r \in RatchetsOf(q, h) : Ahead(r, t) \/ Ahead(t, r)
    BY <2>1, <2>2, <2>3, <2>7
  <2>9. Seals(P, t)
    BY <2>2, <2>3, <2>7 DEF P
  <2>10. Follows(q, h)'
    <3>1. Written(MsgsOf(q, h)') /\ \A r \in RatchetsOf(q, h)' : Seals(MsgsOf(q, h)', r)
      BY <1>1, <2>1 DEF S
    <3>2. \A r \in RatchetsOf(p, h)' : Reads(MsgsOf(q, h)', UnreadOf(q, h)', r)
      BY <1>1, <2>7 DEF S, V
    <3>3. \A u \in RatchetsOf(q, h)' : \A r \in RatchetsOf(p, h)' : Ahead(u, r) \/ Ahead(r, u)
      BY <1>1, <2>8
    <3> QED
      BY <1>3, <2>6, <3>1, <3>2, <3>3, FollowsNext
  <2>11. Follows(p, h)'
    <3>1. Written(MsgsOf(p, h)') /\ \A r \in RatchetsOf(p, h)' : Seals(MsgsOf(p, h)', r)
      BY <1>1, <2>2, <2>9 DEF P
    <3>2. \A r \in RatchetsOf(q, h)' : Reads(MsgsOf(p, h)', UnreadOf(p, h)', r)
      BY <1>1, <2>2
    <3>3. \A u \in RatchetsOf(p, h)' : \A r \in RatchetsOf(q, h)' : Ahead(u, r) \/ Ahead(r, u)
      BY <1>1, <2>8
    <3> QED
      BY <1>2, <2>5, <3>1, <3>2, <3>3, FollowsNext DEF q
  <2> QED
    BY <2>10, <2>11
<1> HIDE DEF h
<1>8. ASSUME NEW g, Once(g)', NEW r \in Party
      PROVE  Follows(r, g)'
  BY <1>3, <1>4, <1>6, <1>7, <1>8
<1> QED
  BY <1>8 DEF Paired

LEMMA AppendOne ==
    ASSUME NEW x, NEW y
    PROVE  Append(<<x>>, y) = <<x, y>>
<1> DEFINE s == Append(<<x>>, y)
           t == <<x, y>>
<1>1. <<x>> \in Seq({x, y}) /\ Len(<<x>>) = 1 /\ <<x>>[1] = x
  OBVIOUS
<1>2. s \in Seq({x, y}) /\ Len(s) = 2 /\ s[1] = x /\ s[2] = y
  BY <1>1
<1>3. t \in Seq({x, y}) /\ Len(t) = 2 /\ t[1] = x /\ t[2] = y
  OBVIOUS
<1> HIDE DEF s, t
<1>4. s = t
  <2>1. \A i \in 1..2 : i = 1 \/ i = 2
    OBVIOUS
  <2> QED
    BY <1>2, <1>3, <2>1
<1> QED
  BY <1>4 DEF s, t

\* acceptSession, the first time: the responder can read what was sealed.
LEMMA BobReads ==
    ASSUME NEW h, NEW spk, NEW S, NEW U,
           \A m \in S : /\ m.key.root = <<h, {spk, m.header.dhPub}>>
                        /\ m.header.dhPub # NoPub
    PROVE  Reads(S, U, initRatchetAsBob(<<h>>, spk)) /\ Seals({}, initRatchetAsBob(<<h>>, spk))
<1> DEFINE b == initRatchetAsBob(<<h>>, spk)
<1>1. /\ b.dhSelf = spk /\ b.dhRemote = NoPub /\ b.rootKey = <<h>> /\ b.sendChain = {}
      /\ b.sendCounter = 0 /\ b.recvCounter = 0 /\ b.prevSendCounter = 0
      /\ b.skipped = <<>>
  BY DEF initRatchetAsBob, NoChain
<1> HIDE DEF b
<1>2. Len(b.rootKey) = 1
  BY <1>1
<1>3. \A x, c : ~HasSlot(b, x, c)
  BY <1>1 DEF HasSlot
<1>4. ASSUME NEW m \in S
      PROVE  /\ IsNext(b, m) /\ m.key.root = RecvRoot(b, m.header.dhPub)
             /\ ~(Turn(m) < 1) /\ Turn(m) # 0 /\ m.header.dhPub # b.dhRemote /\ ~InCache(b, m)
  <2>1. m.key.root = <<h, {spk, m.header.dhPub}>> /\ m.header.dhPub # NoPub
    OBVIOUS
  <2>2. Turn(m) = 2
    BY <2>1 DEF Turn
  <2>3. RecvRoot(b, m.header.dhPub) = <<h, {spk, m.header.dhPub}>>
    BY <1>1, AppendOne DEF RecvRoot
  <2> QED
    BY <1>1, <1>2, <1>3, <2>1, <2>2, <2>3 DEF IsNext, InCache
<1>5. \A c \in Nat : ~(c < 0)
  OBVIOUS
<1>6. Reads(S, U, b)
  BY <1>1, <1>2, <1>3, <1>4, <1>5 DEF Reads
<1>7. \A l, c : ~Sent({}, l, c)
  BY DEF Sent
<1>8. Seals({}, b)
  BY <1>1, <1>5, <1>7 DEF Seals
<1> QED
  BY <1>6, <1>8 DEF b

\* bootstrapSession: nothing is sealed yet.
LEMMA AliceSeals ==
    ASSUME NEW h, NEW d, NEW spk
    PROVE  LET a == initRatchetAsAlice(<<h>>, d, spk)
           IN  /\ Reads({}, {}, a) /\ Seals({}, a)
               /\ a.rootKey = <<h, {spk, a.dhSelf}>> /\ a.dhRemote = spk /\ a.recvChain = {}
<1> DEFINE a == initRatchetAsAlice(<<h>>, d, spk)
           root == Append(<<h>>, {d, spk})
<1>1. /\ a.dhSelf = d /\ a.dhRemote = spk /\ a.rootKey = root
      /\ a.sendChain = {KeyOf(root, 0)} /\ a.recvChain = {}
      /\ a.sendCounter = 0 /\ a.recvCounter = 0 /\ a.prevSendCounter = 0
      /\ a.skipped = <<>>
  BY DEF initRatchetAsAlice, NoChain, rootKdf, dh, FirstChainKey, KeyOf
<1> HIDE DEF a
<1>2. root = <<h, {spk, d}>>
  <2>1. {d, spk} = {spk, d}
    OBVIOUS
  <2> QED
    BY <2>1, AppendOne
<1> HIDE DEF root
<1>3. \A x, c : ~HasSlot(a, x, c)
  BY <1>1 DEF HasSlot
<1>4. \A c \in Nat : ~(c < 0)
  OBVIOUS
<1>5. Reads({}, {}, a)
  BY <1>1, <1>3, <1>4 DEF Reads
<1>6. \A l, c : ~Sent({}, l, c)
  BY DEF Sent
<1>7. Seals({}, a)
  BY <1>1, <1>4, <1>6 DEF Seals
<1> QED
  BY <1>1, <1>2, <1>5, <1>7 DEF a

\* The responder's ratchet is one turn behind the initiator's.
LEMMA AliceAhead ==
    ASSUME NEW h, NEW spk, NEW t, t.rootKey = <<h, {spk, t.dhSelf}>>, t.dhRemote = spk,
           t.recvChain = {}, t.dhSelf # NoPub
    PROVE  Ahead(t, initRatchetAsBob(<<h>>, spk))
<1> DEFINE b == initRatchetAsBob(<<h>>, spk)
<1>1. /\ b.dhSelf = spk /\ b.dhRemote = NoPub /\ b.rootKey = <<h>> /\ b.sendChain = {}
  BY DEF initRatchetAsBob, NoChain
<1> HIDE DEF b
<1>2. Append(b.rootKey, {b.dhSelf, t.dhSelf}) = <<h, {spk, t.dhSelf}>>
  BY <1>1, AppendOne
<1> QED
  BY <1>1, <1>2 DEF Ahead, b

LEMMA NoneWritten == Written({})
BY DEF Written

LEMMA AnswerPaired ==
    ASSUME Typed, Counted, Paired, NEW q \in Party, NEW h, Answers(q, h)
    PROVE  Paired'
<1> DEFINE p == Peer(q)
           spk == SpkOf(q)
           b == initRatchetAsBob(<<h>>, spk)
<1>1. /\ wire' = wire /\ opened' = opened
      /\ accepted' = [accepted EXCEPT ![q] = Append(accepted[q], h)]
      /\ \A r \in Party : \A y \in StrandsOf(r)' : y \in StrandsOf(r) \/ (r = q /\ y = <<h, b>>)
  BY DEF Answers, Adds
<1>2. p \in Party /\ p # q /\ Peer(p) = q /\ \A r \in Party : r = p \/ r = q
  BY Peers
<1>3. spk \in h /\ SpkOf(p) \notin h
  <2>1. PICK eph, otp : h = x3dh(eph, q, otp) /\ Ephemeral(p, eph)
    BY DEF Answers
  <2>2. SpkOf(p) # SpkOf(q) /\ \A k : SpkOf(p) # OtpOf(q, k)
    BY <1>2 DEF SpkOf, OtpOf
  <2> QED
    BY <2>1, <2>2 DEF x3dh, Ephemeral
<1>4. accepted'[p] = accepted[p] /\ accepted'[q] = Append(accepted[q], h)
  BY <1>1, <1>2 DEF Typed
<1>5. \A g : /\ Times(accepted[q], g) \in Nat
             /\ Times(accepted'[q], g) = IF h = g THEN Times(accepted[q], g) + 1
                                                 ELSE Times(accepted[q], g)
  <2>1. accepted[q] \in Seq(SUBSET Made)
    BY DEF Typed
  <2> QED
    BY <1>4, <2>1, TimesOf
<1>6. \A r, g : MsgsOf(r, g)' = MsgsOf(r, g) /\ UnreadOf(r, g)' = UnreadOf(r, g)
  BY <1>1 DEF MsgsOf, UnreadOf, IndicesOf
<1> HIDE DEF b, spk, p
<1>7. /\ \A g : RatchetsOf(p, g)' \subseteq RatchetsOf(p, g)
      /\ \A g : g # h => RatchetsOf(q, g)' \subseteq RatchetsOf(q, g)
      /\ \A r \in RatchetsOf(q, h)' : r \in RatchetsOf(q, h) \/ r = b
  BY <1>1, <1>2, RatchetsAre
<1>8. ASSUME NEW g, Once(g)'
      PROVE  Once(g) /\ (g = h => Times(accepted[q], h) = 0)
  <2>1. /\ Times(accepted[p], g) <= 1
        /\ Times(accepted'[q], g) <= 1
    BY <1>2, <1>4, <1>8 DEF Once
  <2>2. Times(accepted[q], g) <= 1 /\ (g = h => Times(accepted[q], g) = 0)
    BY <1>5, <2>1
  <2> QED
    BY <1>2, <2>1, <2>2 DEF Once
<1>9. ASSUME NEW g, g # h, Once(g), NEW r \in Party
      PROVE  Follows(r, g)'
  <2>1. Follows(r, g)
    BY <1>9 DEF Paired
  <2>2. Times(accepted'[Peer(r)], g) = 0 => Times(accepted[Peer(r)], g) = 0
    BY <1>2, <1>4, <1>5, <1>9 DEF p
  <2>3. RatchetsOf(r, g)' \subseteq RatchetsOf(r, g)
        /\ RatchetsOf(Peer(r), g)' \subseteq RatchetsOf(Peer(r), g)
    BY <1>2, <1>7, <1>9 DEF p
  <2> QED
    BY <1>6, <2>1, <2>2, <2>3, FollowsStill
<1>10. ASSUME Once(h), Times(accepted[q], h) = 0
       PROVE  Follows(p, h)' /\ Follows(q, h)'
  <2> DEFINE S == MsgsOf(p, h)
             U == UnreadOf(p, h)
  <2>1. /\ Written(S) /\ \A t \in RatchetsOf(p, h) : Seals(S, t)
        /\ Alone(p, h)
    BY <1>2, <1>3, <1>10 DEF Paired, Follows, spk
  <2>2. /\ MsgsOf(q, h) = {}
        /\ \A m \in S : m.key.root = <<h, {spk, m.header.dhPub}>>
        /\ \A t \in RatchetsOf(p, h) :
              t.rootKey = <<h, {spk, t.dhSelf}>> /\ t.dhRemote = spk /\ t.recvChain = {}
    BY <1>2, <2>1 DEF Alone, spk
  <2>3. \A r \in RatchetsOf(p, h) : Reads(MsgsOf(q, h), UnreadOf(q, h), r)
    BY <1>10 DEF Paired, Follows, p
  <2>4. RatchetsOf(q, h) = {}
    <3>1. \A x \in StrandsOf(q) : x[1] # h
      BY <1>3, <1>10 DEF Counted, Answered, spk
    <3> QED
      BY <3>1, RatchetsAre
  <2>5. /\ \A m \in S : m.header.dhPub # NoPub
        /\ \A t \in RatchetsOf(p, h) : t.dhSelf # NoPub
    <3>1. \A t \in RatchetsOf(p, h) : IsRatchetState(t, Made)
      BY <1>2, PairTyped
    <3>2. \A t \in RatchetsOf(p, h) : t.dhSelf \in Made
      BY <3>1, TurnsAre
    <3>3. \A k \in Made : k # NoPub
      BY MadeHolds DEF Typed
    <3> QED
      BY <1>2, <3>2, <3>3, PairTyped
  <2>6. Reads(S, U, b) /\ Seals({}, b)
    BY <2>2, <2>5, BobReads DEF b
  <2>7. \A t \in RatchetsOf(p, h) : Ahead(t, b)
    BY <2>2, <2>5, AliceAhead DEF b
  <2>8. \A r \in RatchetsOf(q, h)' : r = b
    BY <1>7, <2>4
  <2>9. Times(accepted'[q], h) # 0
    BY <1>5, <1>10
  <2>10. Follows(p, h)'
    <3>1. Written(MsgsOf(p, h)') /\ \A r \in RatchetsOf(p, h)' : Seals(MsgsOf(p, h)', r)
      BY <1>6, <1>7, <2>1
    <3>2. \A r \in RatchetsOf(q, h)' : Reads(MsgsOf(p, h)', UnreadOf(p, h)', r)
      BY <1>6, <2>6, <2>8
    <3>3. \A u \in RatchetsOf(p, h)' : \A r \in RatchetsOf(q, h)' : Ahead(u, r) \/ Ahead(r, u)
      BY <1>7, <2>7, <2>8
    <3> QED
      BY <1>2, <2>9, <3>1, <3>2, <3>3, FollowsNext
  <2>11. Follows(q, h)'
    <3>1. Written(MsgsOf(q, h)') /\ \A r \in RatchetsOf(q, h)' : Seals(MsgsOf(q, h)', r)
      BY <1>6, <2>2, <2>6, <2>8, NoneWritten
    <3>2. \A r \in RatchetsOf(p, h)' : Reads(MsgsOf(q, h)', UnreadOf(q, h)', r)
      BY <1>6, <1>7, <2>3
    <3>3. \A u \in RatchetsOf(q, h)' : \A r \in RatchetsOf(p, h)' : Ahead(u, r) \/ Ahead(r, u)
      BY <1>7, <2>7, <2>8
    <3> QED
      BY <1>3, <3>1, <3>2, <3>3, FollowsNext DEF p
  <2> QED
    BY <2>10, <2>11
<1>11. ASSUME NEW g, Once(g)', NEW r \in Party
       PROVE  Follows(r, g)'
  BY <1>2, <1>8, <1>9, <1>10, <1>11
<1> QED
  BY <1>11 DEF Paired

LEMMA StartPaired ==
    ASSUME Typed, Counted, Paired, NEW p \in Party, NEW h, Starts(p, h)
    PROVE  Paired'
<1> DEFINE q == Peer(p)
           spk == SpkOf(q)
           d == <<p, nextKey[p] + 1>>
           a == initRatchetAsAlice(<<h>>, d, spk)
<1>1. /\ wire' = wire /\ opened' = opened /\ accepted' = accepted
      /\ \A r \in Party : \A y \in StrandsOf(r)' : y \in StrandsOf(r) \/ (r = p /\ y = <<h, a>>)
  BY DEF Starts, Adds, past
<1>2. q \in Party /\ q # p /\ Peer(q) = p /\ \A r \in Party : r = p \/ r = q
  BY Peers
<1> HIDE DEF a, d
<1>3. FreshKey(p) \notin Made /\ FreshKey(p) \in h /\ SpkOf(p) \notin h
  <2>1. PICK otp : h = x3dh(FreshKey(p), q, otp)
    BY DEF Starts
  <2>2. nextKey[p] \in Nat /\ nextKey[p] # 0
    BY Bounds DEF Typed, KeysOK
  <2>3. SpkOf(p) # SpkOf(q) /\ SpkOf(p) # FreshKey(p) /\ \A k : SpkOf(p) # OtpOf(q, k)
    BY <1>2, <2>2 DEF SpkOf, OtpOf, FreshKey
  <2> HIDE DEF q
  <2> QED
    BY <2>1, <2>2, <2>3, MadeHolds DEF Typed, FreshKey, x3dh
<1> HIDE DEF q, spk
<1>4. \A root \in Root(Made) : root # <<>> => root[1] # h
  <2>1. ASSUME NEW root \in Root(Made), root # <<>>
        PROVE  root[1] \in SUBSET Made
    BY <2>1 DEF Root
  <2> QED
    BY <1>3, <2>1
<1>5. \A r \in Party : MsgsOf(r, h) = {}
  <2>1. ASSUME NEW r \in Party, NEW m \in MsgsOf(r, h)
        PROVE  FALSE
    <3>1. PICK i \in DOMAIN wire[r] : wire[r][i].msg = m /\ Handshake(m) = h
      BY <2>1, MsgsAre
    <3>2. m.key.root # <<>> /\ m.key \in ChainKey(Made)
      BY <3>1, TrafficOf DEF Counted, Bound
    <3>3. m.key.root \in Root(Made)
      BY <3>2 DEF ChainKey
    <3> QED
      BY <1>4, <3>1, <3>2, <3>3 DEF Handshake
  <2> QED
    BY <2>1
<1>6. \A r \in Party : RatchetsOf(r, h) = {}
  <2>1. ASSUME NEW r \in Party, NEW x \in StrandsOf(r)
        PROVE  x[1] # h
    <3>1. Rooted(x[2], x[1]) /\ IsRatchetState(x[2], Made)
      BY StrandsOfAre DEF Counted, Bound
    <3>2. x[2].rootKey \in Root(Made)
      BY <3>1, TurnsAre
    <3> QED
      BY <1>4, <3>1, <3>2 DEF Rooted, Under
  <2> QED
    BY <2>1, RatchetsAre
<1>7. \A r, g : MsgsOf(r, g)' = MsgsOf(r, g) /\ UnreadOf(r, g)' = UnreadOf(r, g)
  BY <1>1 DEF MsgsOf, UnreadOf, IndicesOf
<1>8. /\ \A g : RatchetsOf(q, g)' \subseteq RatchetsOf(q, g)
      /\ \A g : g # h => RatchetsOf(p, g)' \subseteq RatchetsOf(p, g)
      /\ \A r \in RatchetsOf(p, h)' : r \in RatchetsOf(p, h) \/ r = a
  BY <1>1, <1>2, RatchetsAre
<1>9. ASSUME NEW g, g # h, Once(g), NEW r \in Party
      PROVE  Follows(r, g)'
  <2>1. Follows(r, g)
    BY <1>9 DEF Paired
  <2>2. RatchetsOf(r, g)' \subseteq RatchetsOf(r, g)
        /\ RatchetsOf(Peer(r), g)' \subseteq RatchetsOf(Peer(r), g)
    BY <1>2, <1>8, <1>9 DEF q
  <2> QED
    BY <1>1, <1>7, <2>1, <2>2, FollowsStill
<1>10. /\ MsgsOf(p, h)' = {} /\ MsgsOf(q, h)' = {} /\ UnreadOf(q, h)' = {}
       /\ RatchetsOf(q, h)' = {} /\ \A r \in RatchetsOf(p, h)' : r = a
  <2>1. UnreadOf(q, h) = {}
    BY <1>2, <1>5, PairTyped
  <2> QED
    BY <1>2, <1>5, <1>6, <1>7, <1>8, <2>1
<1>11. /\ Reads({}, {}, a) /\ Seals({}, a)
       /\ a.rootKey = <<h, {spk, a.dhSelf}>> /\ a.dhRemote = spk /\ a.recvChain = {}
  BY AliceSeals DEF a
<1>12. Alone(p, h)'
  BY <1>10, <1>11 DEF Alone, q, spk
<1>13. Follows(p, h)'
  <2>1. Written(MsgsOf(p, h)') /\ \A r \in RatchetsOf(p, h)' : Seals(MsgsOf(p, h)', r)
    BY <1>10, <1>11, NoneWritten
  <2> QED
    BY <1>10, <1>12, <2>1, FollowsNext DEF q
<1>14. Follows(q, h)'
  <2>1. Written(MsgsOf(q, h)') /\ \A r \in RatchetsOf(p, h)' : Reads(MsgsOf(q, h)', UnreadOf(q, h)', r)
    BY <1>10, <1>11, NoneWritten
  <2> QED
    BY <1>2, <1>3, <1>10, <2>1, FollowsNext
<1>15. ASSUME NEW g, Once(g)', NEW r \in Party
       PROVE  Follows(r, g)'
  <2>1. Once(g)
    BY <1>1, <1>15 DEF Once
  <2> QED
    BY <1>2, <1>9, <1>13, <1>14, <2>1
<1> QED
  BY <1>15 DEF Paired

LEMMA InitPaired == Init => Paired
<1> SUFFICES ASSUME Init, NEW h, NEW p \in Party PROVE Follows(p, h)
  BY DEF Paired
<1>1. Peer(p) \in Party
  BY Peers
<1>2. \A r \in Party : StrandsOf(r) = {} /\ DOMAIN wire[r] = {}
  <2>1. \A r \in Party : Sess(r) = {}
    BY SessAre DEF Init, Idle
  <2>2. \A r \in Party : wire[r] = <<>>
    BY DEF Init
  <2>3. \A r \in Party : DOMAIN wire[r] = {}
    BY <2>2
  <2> QED
    BY <2>1, <2>3 DEF StrandsOf
<1>3. \A r \in Party : MsgsOf(r, h) = {} /\ RatchetsOf(r, h) = {}
  BY <1>2, MsgsAre, RatchetsAre
<1>4. Written(MsgsOf(p, h))
  BY <1>3, NoneWritten
<1> QED
  BY <1>1, <1>3, <1>4 DEF Follows, Alone

LEMMA StepPaired ==
    OneTab /\ Typed /\ Counted /\ NoKeyReuse /\ Paired /\ [Next]_vars => Paired'
<1> SUFFICES ASSUME OneTab, Typed, Counted, NoKeyReuse, Paired, [Next]_vars PROVE Paired'
  OBVIOUS
<1>1. CASE Keeps
  BY <1>1, KeepsPaired
<1>2. ASSUME NEW p \in Party, NEW x, SealsWith(p, x)
      PROVE  Paired'
  BY <1>2, SealPaired
<1>3. ASSUME NEW p \in Party, NEW x, NEW i, OpensWith(p, x, i)
      PROVE  Paired'
  BY <1>3, OpenPaired
<1>4. ASSUME NEW p \in Party, NEW h, Answers(p, h)
      PROVE  Paired'
  BY <1>4, AnswerPaired
<1>5. ASSUME NEW p \in Party, NEW h, Starts(p, h)
      PROVE  Paired'
  BY <1>5, StartPaired
<1> QED
  BY <1>1, <1>2, <1>3, <1>4, <1>5, StepKinds

(***************************************************************************)
(* What a device may still seal.                                           *)
(***************************************************************************)
\* A device seals no more than MaxMsgs messages: a call that is about to seal
\* one has left room for it.
Outgoing == {"bootstrap", "seal"}

Budget ==
    /\ \A p \in Party : Len(wire[p]) <= MaxMsgs
    /\ \A c \in Context : job[c].at \in Outgoing => Len(wire[Dev(c)]) < MaxMsgs

LEMMA BudgetKept ==
    ASSUME Typed, Budget, wire' = wire, NEW c \in Context,
           NEW j, job' = job \/ job' = [job EXCEPT ![c] = j],
           j.at \in Outgoing => Len(wire[Dev(c)]) < MaxMsgs
    PROVE  Budget'
<1>1. \A d \in Context : job'[d] = job[d] \/ (d = c /\ job'[d] = j)
  BY DEF Typed, JobsOK
<1> QED
  BY <1>1 DEF Budget

\* Where a call that seals nothing goes on to.
LEMMA GoesOn ==
    ASSUME Typed, Budget, wire' = wire, NEW c \in Context,
           NEW phase, phase \in Outgoing => Len(wire[Dev(c)]) < MaxMsgs,
           Finish(c) \/ \E got : Goto(c, phase, got)
    PROVE  Budget'
<1>1. CASE Finish(c)
  <2>1. job' = [job EXCEPT ![c] = Idle] /\ Idle.at = "idle" /\ "idle" \notin Outgoing
    BY <1>1 DEF Finish, Idle, Outgoing
  <2> QED
    BY <2>1, BudgetKept
<1>2. ASSUME NEW got, Goto(c, phase, got)
      PROVE  Budget'
  <2> DEFINE j == [at |-> phase, got |-> got, msg |-> job[c].msg]
  <2>1. job' = [job EXCEPT ![c] = j] /\ j.at = phase
    BY <1>2 DEF Goto
  <2> HIDE DEF j
  <2> QED
    BY <2>1, BudgetKept
<1> QED
  BY <1>1, <1>2

LEMMA StartSendBudget ==
    ASSUME OneTab, Typed, Budget, NEW c \in Context, StartSend(c)
    PROVE  Budget'
<1> DEFINE p == Dev(c)
           phase == IF rec[p] = {} THEN "bootstrap" ELSE "seal"
<1>1. /\ job[c].at = "idle" /\ Len(wire[p]) + Cardinality(Sending(p)) < MaxMsgs
      /\ Goto(c, phase, rec[p]) /\ wire' = wire
  BY DEF StartSend, At
<1>2. Sending(p) = {}
  BY <1>1, OneContext DEF Sending
<1>3. p \in Party /\ Len(wire[p]) \in Nat /\ MaxMsgs \in Nat
  BY JobOf, TrafficOf, SessionAssumption
<1>4. Len(wire[p]) < MaxMsgs
  BY <1>1, <1>2, <1>3, FS_EmptySet
<1> HIDE DEF phase
<1> QED
  BY <1>1, <1>4, GoesOn

LEMMA SealBudget ==
    ASSUME OneTab, Typed, Budget, NEW c \in Context, Seal(c)
    PROVE  Budget'
<1> DEFINE p == Dev(c)
<1>1. /\ p \in Party /\ MaxMsgs \in Nat
      /\ DOMAIN wire = Party /\ \A q \in Party : Len(wire[q]) \in Nat
      /\ wire[p] \in Seq(Envelopes(p, Made))
  BY JobOf, TrafficOf, SessionAssumption
<1>2. /\ Len(wire[p]) < MaxMsgs
      /\ wire' = wire \/ \E e : wire' = [wire EXCEPT ![p] = Append(wire[p], e)]
      /\ job' = [job EXCEPT ![c] = Idle]
  BY DEF Seal, At, Finish, Budget, Outgoing
<1>3. /\ \A q \in Party : q # p => wire'[q] = wire[q]
      /\ Len(wire'[p]) = Len(wire[p]) \/ Len(wire'[p]) = Len(wire[p]) + 1
  <2>1. CASE wire' = wire
    BY <2>1
  <2>2. ASSUME NEW e, wire' = [wire EXCEPT ![p] = Append(wire[p], e)]
        PROVE  /\ \A q \in Party : q # p => wire'[q] = wire[q]
               /\ Len(wire'[p]) = Len(wire[p]) + 1
    <3>1. wire'[p] = Append(wire[p], e) /\ \A q \in Party : q # p => wire'[q] = wire[q]
      BY <1>1, <2>2
    <3> QED
      BY <1>1, <3>1
  <2> QED
    BY <1>2, <2>1, <2>2
<1>4. ASSUME NEW q \in Party
      PROVE  Len(wire'[q]) <= MaxMsgs
  BY <1>1, <1>2, <1>3 DEF Budget
<1>5. ASSUME NEW d \in Context, job'[d].at \in Outgoing
      PROVE  Len(wire'[Dev(d)]) < MaxMsgs
  <2>1. d # c
    BY <1>2, <1>5 DEF Typed, JobsOK, Idle, Outgoing
  <2>2. job'[d] = job[d]
    BY <1>2, <2>1 DEF Typed, JobsOK
  <2>3. Dev(d) \in Party /\ Dev(d) # p
    BY <2>1, OneContext, Contexts
  <2> QED
    BY <1>3, <1>5, <2>2, <2>3 DEF Budget
<1> QED
  BY <1>4, <1>5 DEF Budget

\* The calls and the environment that seal nothing.
LEMMA OtherBudget ==
    ASSUME Typed, Budget, NEW c \in Context, NEW i,
           Bootstrap(c) \/ Accept(c) \/ Burn(c) \/ Load(c) \/ Open(c)
              \/ FetchFails(c) \/ Abandon(c) \/ StartReceive(c, i)
    PROVE  Budget'
<1>1. CASE Bootstrap(c)
  <2>1. Len(wire[Dev(c)]) < MaxMsgs /\ wire' = wire /\ \E got : Goto(c, "seal", got)
    BY <1>1 DEF Bootstrap, At, Budget, Outgoing
  <2> QED
    BY <2>1, GoesOn
<1>2. CASE Accept(c)
  <2>1. wire' = wire /\ \E phase \in {"load", "burn"} : \E got : Goto(c, phase, got)
    <3>1. /\ wire' = wire
          /\ \E init \in Incoming(c).init :
                \/ Goto(c, "load", {})
                \/ Goto(c, IF init.otp = {} THEN "load" ELSE "burn", {})
      BY <1>2 DEF Accept
    <3> QED
      BY <3>1
  <2>2. \A phase \in {"load", "burn"} : phase \notin Outgoing
    BY DEF Outgoing
  <2> QED
    BY <2>1, <2>2, GoesOn
<1>3. CASE Burn(c) \/ FetchFails(c)
  <2>1. wire' = wire /\ \E got : Goto(c, "load", got)
    BY <1>3 DEF Burn, FetchFails
  <2> QED
    BY <2>1, GoesOn DEF Outgoing
<1>4. CASE Load(c)
  <2>1. wire' = wire /\ (Finish(c) \/ \E got : Goto(c, "open", got))
    BY <1>4 DEF Load
  <2> QED
    BY <2>1, GoesOn DEF Outgoing
<1>5. CASE Open(c) \/ Abandon(c)
  <2>1. wire' = wire /\ Finish(c)
    BY <1>5 DEF Open, Abandon
  <2>2. "idle" \notin Outgoing
    BY DEF Outgoing
  <2> QED
    BY <2>1, <2>2, GoesOn
<1>6. CASE StartReceive(c, i)
  <2> DEFINE e == wire[Peer(Dev(c))][i].init
             phase == IF e = {} THEN "load" ELSE "accept"
             j == [at |-> phase, got |-> IF e = {} THEN {} ELSE rec[Dev(c)], msg |-> i]
  <2>1. wire' = wire /\ job' = [job EXCEPT ![c] = j] /\ j.at = phase
    BY <1>6 DEF StartReceive
  <2>2. phase \notin Outgoing
    BY DEF Outgoing
  <2> HIDE DEF j, phase
  <2> QED
    BY <2>1, <2>2, BudgetKept
<1> QED
  BY <1>1, <1>2, <1>3, <1>4, <1>5, <1>6

LEMMA InitBudget == Init => Budget
<1> SUFFICES ASSUME Init PROVE Budget
  OBVIOUS
<1>1. \A p \in Party : Len(wire[p]) <= MaxMsgs
  <2>1. \A p \in Party : wire[p] = <<>>
    BY DEF Init
  <2>2. MaxMsgs \in Nat
    BY SessionAssumption
  <2> QED
    BY <2>1, <2>2
<1>2. \A c \in Context : job[c].at \notin Outgoing
  BY DEF Init, Idle, Outgoing
<1> QED
  BY <1>1, <1>2 DEF Budget

LEMMA StepBudget == OneTab /\ Typed /\ Budget /\ [Next]_vars => Budget'
<1> SUFFICES ASSUME OneTab, Typed, Budget, [Next]_vars PROVE Budget'
  OBVIOUS
<1>1. ASSUME NEW c \in Context, Step(c)
      PROVE  Budget'
  BY <1>1, StartSendBudget, SealBudget, OtherBudget DEF Step
<1>2. ASSUME NEW c \in Context, NEW i, FetchFails(c) \/ Abandon(c) \/ StartReceive(c, i)
      PROVE  Budget'
  BY <1>2, OtherBudget
<1>3. CASE wire' = wire /\ job' = job
  BY <1>3 DEF Budget
<1>4. ASSUME NEW p \in Party, NEW i, Clear(p) \/ Lose(p, i)
      PROVE  wire' = wire /\ job' = job
  BY <1>4 DEF Clear, Lose
<1>5. CASE UNCHANGED vars
  BY <1>3, <1>5 DEF vars
<1> QED
  BY <1>1, <1>2, <1>3, <1>4, <1>5 DEF Next

(***************************************************************************)
(* What can be opened.                                                     *)
(***************************************************************************)
\* There are no more messages of a handshake than there are messages.
LEMMA FewOf ==
    ASSUME Typed, NEW p \in Party, NEW h
    PROVE  /\ IsFiniteSet(MsgsOf(p, h))
           /\ Cardinality(MsgsOf(p, h)) \in Nat /\ Len(wire[p]) \in Nat
           /\ Cardinality(MsgsOf(p, h)) <= Len(wire[p])
<1> DEFINE M == 1..Len(wire[p])
           S == MsgsOf(p, h)
           g == [i \in M |-> wire[p][i].msg]
<1>1. DOMAIN wire[p] = M /\ Len(wire[p]) \in Nat
  BY TrafficOf
<1>2. IsFiniteSet(M) /\ Cardinality(M) = Len(wire[p])
  BY <1>1, FS_Interval
<1>3. \A i \in M : g[i] = wire[p][i].msg
  OBVIOUS
<1> HIDE DEF g, M, S
<1>4. \A m \in S : \E i \in M : g[i] = m
  BY <1>1, <1>3, MsgsAre DEF S
<1>5. IsFiniteSet(S) /\ Cardinality(S) <= Cardinality(M) /\ Cardinality(S) \in Nat
  BY <1>2, <1>4, Covers
<1> QED
  BY <1>1, <1>2, <1>5 DEF S

\* A handshake that is still kept has its ratchet still.
LEMMA KeptStrand ==
    ASSUME NEW K, NEW p, NEW s, Sound(p, s, K),
           NEW k \in DOMAIN s.log, k + MAX_ARCHIVED_RATCHETS >= Len(s.log)
    PROVE  /\ Len(s.log) - k \in 0..Len(s.archived)
           /\ Strand(s, Len(s.log) - k) = <<s.log[k], RatchetAt(s, Len(s.log) - k)>>
<1> DEFINE n == Len(s.log)
           a == Len(s.archived)
<1>1. n \in Nat /\ a \in Nat /\ MAX_ARCHIVED_RATCHETS \in Nat
  BY StrandsAre, Bounds
<1>2. k \in 1..n
  BY DEF Sound, IsSession
<1>3. a = n - 1 \/ a = MAX_ARCHIVED_RATCHETS
  BY DEF Sound, Stacked
<1>4. k + MAX_ARCHIVED_RATCHETS >= n
  OBVIOUS
<1> HIDE DEF n, a
<1>5. n - k \in 0..a /\ n - (n - k) = k
  BY <1>1, <1>2, <1>3, <1>4
<1> QED
  BY <1>5 DEF Strand, n, a

LEMMA PairedOpens ==
    ASSUME Typed, Paired, Budget, MaxMsgs <= MaxSkip, MaxMsgs <= GlobalSkipCap,
           MaxSkip \in Int, GlobalSkipCap \in Int
    PROVE  SupersededStillOpen
<1> SUFFICES ASSUME NEW p \in Party, NEW s \in rec[Peer(p)], NEW i \in DOMAIN wire[p],
                    opened[p][i] = 0,
                    NEW k \in DOMAIN s.log, k + MAX_ARCHIVED_RATCHETS >= Len(s.log),
                    Handshake(wire[p][i].msg) = s.log[k],
                    Times(accepted[p], s.log[k]) <= 1,
                    Times(accepted[Peer(p)], s.log[k]) <= 1
             PROVE  CanOpen(s, wire[p][i].msg, FreshKey(Peer(p)))
  BY DEF SupersededStillOpen
<1> DEFINE q == Peer(p)
           m == wire[p][i].msg
           h == s.log[k]
           j == Len(s.log) - k
           r == RatchetAt(s, j)
           f == FreshKey(q)
           S == MsgsOf(p, h)
           U == UnreadOf(p, h)
<1>1. q \in Party /\ \A t \in Party : t = p \/ t = q
  BY Peers
<1>2. Sound(q, s, Made) /\ s \in Sess(q)
  BY <1>1, SessAre DEF Typed, RecordsOK
<1>3. j \in 0..Len(s.archived) /\ Strand(s, j) = <<h, r>>
  <2> HIDE DEF q
  <2> QED
    BY <1>2, KeptStrand
<1>4. /\ DOMAIN s.archived = 1..Len(s.archived) /\ IsRatchetState(r, Made) /\ Tidy(q, r)
      /\ j # 0 => j \in DOMAIN s.archived
  <2> HIDE DEF q, j
  <2> QED
    BY <1>2, <1>3, StrandsAre
<1> HIDE DEF q, j, r, h, m, f
<1>5. r \in RatchetsOf(q, h)
  <2>1. <<h, r>> \in StrandsOf(q)
    BY <1>2, <1>3 DEF StrandsOf, Strands
  <2> QED
    BY <2>1, RatchetsAre
<1>6. m \in S /\ m \in U
  BY MsgsAre DEF m, h
<1>7. Once(h)
  BY <1>1 DEF Once, q, h
<1>8. Written(S) /\ Reads(S, U, r)
  BY <1>5, <1>7 DEF Paired, Follows, q
<1>9. S \in SUBSET Message(Made)
  BY PairTyped
<1>10. IsFiniteSet(S) /\ Cardinality(S) <= MaxSkip /\ Cardinality(S) <= GlobalSkipCap
  <2>1. /\ IsFiniteSet(S) /\ Cardinality(S) \in Nat /\ Len(wire[p]) \in Nat
        /\ Cardinality(S) <= Len(wire[p])
    BY FewOf
  <2>2. Len(wire[p]) <= MaxMsgs /\ MaxMsgs \in Nat
    BY SessionAssumption DEF Budget
  <2> HIDE DEF S
  <2> QED
    BY <2>1, <2>2
<1> HIDE DEF S, U
<1>11. Opens(r, m, f)
  BY <1>4, <1>6, <1>8, <1>9, <1>10, OpensFrom
<1>12. CASE j = 0
  BY <1>11, <1>12 DEF r, RatchetAt, CanOpen, m, f, q
<1>13. CASE j # 0
  <2>1. j \in ArchivedOpening(s, m, f)
    BY <1>4, <1>11, <1>13 DEF r, RatchetAt, ArchivedOpening
  <2> QED
    BY <2>1 DEF CanOpen, m, f, q
<1> QED
  BY <1>12, <1>13

\* acceptSession and decryptFromPeer: with one tab a device, and chains that
\* never get longer than the limits on skipped keys, superseding a session
\* loses no message.  Whatever was sealed under a handshake that is among the
\* last MAX_ARCHIVED_RATCHETS + 1 of the record, and that neither side ran
\* twice, opens the first time it is offered, by the live ratchet or by the
\* archived one, in whatever order the messages come.
THEOREM SupersededOpens ==
    ASSUME OneTab, MaxMsgs <= MaxSkip, MaxMsgs <= GlobalSkipCap
    PROVE  Spec => []SupersededStillOpen
<1>1. MaxSkip \in Int /\ GlobalSkipCap \in Int
  BY SkipCapsAssumption
<1>2. Typed /\ Paired /\ Budget => SupersededStillOpen
  BY <1>1, PairedOpens
<1>3. Fresh => NoKeyReuse
  BY DEF Fresh
<1> QED
  BY <1>2, <1>3, TypedHolds, InitCounted, StepCounted, InitFresh, StepFresh,
     InitPaired, StepPaired, InitBudget, StepBudget, PTL DEF Spec
=============================================================================
