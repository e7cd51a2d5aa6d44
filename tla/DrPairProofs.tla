---------------------------- MODULE DrPairProofs ----------------------------
(***************************************************************************)
(* What DrPair guarantees for every value of MaxMsgs, MaxSkip and          *)
(* GlobalSkipCap.  The inductive invariant relates the two sessions to the *)
(* traffic: every sending chain stands behind all that was sent, the two   *)
(* directions never share a root, and every key that opened a message is   *)
(* spent for the session that used it.                                     *)
(* Located, on top of it, says where the two stand: on which chain each    *)
(* seals and which it has seen of the other, which places on those chains  *)
(* are taken, and that what is not opened is ahead or in the cache.        *)
(***************************************************************************)
EXTENDS DrPair, DoubleRatchetProofs, SequenceTheorems

\* Each side's headers carry its own keys and each session is tidy.
Owned ==
    /\ \A p \in Party : Tidy(p, session[p])
    /\ \A p \in Party : \A i \in DOMAIN wire[p] : wire[p][i].header.dhPub[1] = p

\* What p can still seal with shares no key with what p sealed.
SendsAhead ==
    \A p \in Party : \A c \in session[p].sendChain : \A i \in DOMAIN wire[p] :
        ~Derives(c, wire[p][i].key)

\* ... and no root with what the other side sealed or can seal.
Apart ==
    \A p, q \in Party : p # q =>
        \A c \in session[p].sendChain :
            /\ \A i \in DOMAIN wire[q] : wire[q][i].key.root # c.root
            /\ \A d \in session[q].sendChain : d.root # c.root

OpenedOnce ==
    \A p \in Party : \A i \in DOMAIN opened[p] :
        /\ opened[p][i] \in {0, 1}
        /\ opened[p][i] = 1 => Spent(session[Peer(p)], wire[p][i].key)

Inv == TypeOK /\ Owned /\ SendsAhead /\ Apart /\ NoKeyReuse /\ OpenedOnce

(***************************************************************************)
(* The two parties.                                                        *)
(***************************************************************************)
\* A sequence that grew by one element.
LEMMA Longer ==
  ASSUME NEW S, NEW w \in Seq(S), NEW x
  PROVE  /\ DOMAIN Append(w, x) = DOMAIN w \union {Len(w) + 1} /\ Len(w) + 1 \notin DOMAIN w
         /\ Append(w, x)[Len(w) + 1] = x /\ Len(w) + 1 \in Nat /\ Len(w) \in Nat
         /\ \A i \in DOMAIN w : Append(w, x)[i] = w[i] /\ i < Len(w) + 1
         /\ DOMAIN w = 1..Len(w)
OBVIOUS

LEMMA Peers ==
    /\ Alice \in Party /\ Bob \in Party /\ Alice # Bob /\ Party = {Alice, Bob}
    /\ \A p \in Party : /\ Peer(p) \in Party /\ Peer(p) # p /\ Peer(Peer(p)) = p
                        /\ \A q \in Party : q # p => q = Peer(p)
<1>1. PICK b \in Party : b # Alice /\ Party = {Alice, b}
  BY PartyAssumption
<1>2. Alice \in Party
  BY PartyAssumption
<1>3. Peer(Alice) = b /\ Peer(b) = Alice
  BY <1>1, <1>2 DEF Peer
<1> QED
  BY <1>1, <1>2, <1>3 DEF Bob

(***************************************************************************)
(* The keys made: a new pair is not among them, and none is NoPub.         *)
(***************************************************************************)
LEMMA MadeKeys ==
    ASSUME nextKey \in [Party -> Nat]
    PROVE  /\ \A k \in Made : k # NoPub
           /\ \A p \in Party : /\ FreshKey(p) \notin Made
                               /\ FreshKey(p)[1] = p /\ FreshKey(p) # NoPub
<1>1. \A k : k \in Made <=> \E p \in Party : \E n \in 0..(nextKey[p] - 1) : k = <<p, n>>
  BY DEF Made
<1>2. ASSUME NEW k \in Made
      PROVE  k # NoPub
  <2>1. PICK p \in Party, n \in Nat : k = <<p, n>>
    BY <1>1, <1>2
  <2> QED
    BY <2>1 DEF NoPub
<1>3. ASSUME NEW p \in Party
      PROVE  FreshKey(p) \notin Made /\ FreshKey(p)[1] = p /\ FreshKey(p) # NoPub
  BY <1>1 DEF FreshKey, NoPub
<1> QED
  BY <1>2, <1>3

LEMMA MadeGrows ==
    ASSUME nextKey \in [Party -> Nat], NEW q \in Party,
           nextKey' = [nextKey EXCEPT ![q] = @ + 1]
    PROVE  Made \subseteq Made' /\ FreshKey(q) \in Made'
<1>1. \A k : k \in Made <=> \E p \in Party : \E n \in 0..(nextKey[p] - 1) : k = <<p, n>>
  BY DEF Made
<1>2. \A k : k \in Made' <=> \E p \in Party : \E n \in 0..(nextKey'[p] - 1) : k = <<p, n>>
  BY DEF Made
<1>3. \A p \in Party : nextKey[p] \in Nat /\ nextKey'[p] \in Nat /\ nextKey[p] <= nextKey'[p]
  OBVIOUS
<1>4. \A p \in Party : 0..(nextKey[p] - 1) \subseteq 0..(nextKey'[p] - 1)
  BY <1>3
<1>5. nextKey[q] \in 0..(nextKey'[q] - 1)
  BY <1>3
<1> QED
  BY <1>1, <1>2, <1>4, <1>5 DEF FreshKey

----------------------------------------------------------------------------
LEMMA InitInv == Init => Inv
<1> SUFFICES ASSUME Init PROVE Inv
  OBVIOUS
<1> DEFINE a0 == <<Alice, 0>>
           b0 == <<Bob, 0>>
           ra == initRatchetAsAlice(<<>>, a0, b0)
           rb == initRatchetAsBob(<<>>, b0)
<1>1. /\ Alice \in Party /\ Bob \in Party /\ Alice # Bob /\ Party = {Alice, Bob}
  BY Peers
<1>2. /\ session[Alice] = ra /\ session[Bob] = rb /\ DOMAIN session = Party
      /\ nextKey = [p \in Party |-> 1]
      /\ wire = [p \in Party |-> <<>>] /\ opened = [p \in Party |-> <<>>]
  BY <1>1 DEF Init
<1>3. a0 \in Made /\ b0 \in Made
  <2>1. 0 \in 0..(1 - 1)
    OBVIOUS
  <2> QED
    BY <1>1, <1>2, <2>1 DEF Made
<1>4. /\ IsRatchetState(ra, Made) /\ Tidy(Alice, ra)
      /\ IsRatchetState(rb, Made) /\ Tidy(Bob, rb) /\ rb.sendChain = {}
  <2>1. <<>> \in Root(Made) /\ a0[1] = Alice /\ b0[1] = Bob
    BY DEF Root
  <2> HIDE DEF a0, b0
  <2> QED
    BY <1>3, <2>1, AliceShape, BobShape
<1> HIDE DEF ra, rb
<1>5. TypeOK
  <2>1. /\ nextKey \in [Party -> Nat]
        /\ wire \in [Party -> Seq(Message(Made))]
        /\ opened \in [Party -> Seq(Nat)]
        /\ \A p \in Party : Len(opened[p]) = Len(wire[p])
    BY <1>2
  <2> QED
    BY <1>1, <1>2, <1>4, <2>1 DEF TypeOK
<1>7. \A p \in Party : DOMAIN wire[p] = {} /\ DOMAIN opened[p] = {}
  BY <1>2
<1>8. Apart
  <2>1. session[Bob].sendChain = {}
    BY <1>2, <1>4
  <2> QED
    BY <1>1, <1>7, <2>1 DEF Apart
<1> QED
  BY <1>1, <1>2, <1>4, <1>5, <1>7, <1>8
     DEF Inv, Owned, SendsAhead, NoKeyReuse, OpenedOnce

(***************************************************************************)
(* Sealing a message.                                                      *)
(***************************************************************************)
LEMMA EncryptInv ==
    ASSUME Inv, NEW p \in Party, Encrypt(p)
    PROVE  Inv'
<1> DEFINE s == session[p]
           m == Sealed(s)
           k == m.key
<1>1. /\ IsRatchetState(s, Made) /\ Tidy(p, s) /\ CanEncrypt(s)
      /\ wire' = [wire EXCEPT ![p] = Append(@, m)]
      /\ opened' = [opened EXCEPT ![p] = Append(@, 0)]
      /\ session' = [session EXCEPT ![p] = AfterEncrypt(s)]
      /\ nextKey' = nextKey /\ Made' = Made
  <2>1. nextKey' = nextKey
    BY DEF Encrypt
  <2>2. Made' = Made
    BY <2>1 DEF Made
  <2> QED
    BY <2>1, <2>2 DEF Inv, TypeOK, Owned, Encrypt
<1>2. /\ IsRatchetState(AfterEncrypt(s), Made)
      /\ m \in Message(Made) /\ k \in ChainKey(Made) /\ s.sendChain = {k}
  BY <1>1, EncryptShape DEF Message
<1> HIDE DEF m, k
<1>3. TypeOK'
  BY <1>1, <1>2 DEF Inv, TypeOK
<1>4. \A q \in Party : /\ wire[q] \in Seq(Message(Made)) /\ opened[q] \in Seq(Nat)
                      /\ Len(opened[q]) = Len(wire[q])
  BY DEF Inv, TypeOK
<1>5. /\ Len(wire'[p]) = Len(wire[p]) + 1 /\ Len(opened'[p]) = Len(wire[p]) + 1
      /\ wire'[p][Len(wire[p]) + 1] = m /\ opened'[p][Len(wire[p]) + 1] = 0
      /\ \A i \in DOMAIN wire[p] : wire'[p][i] = wire[p][i] /\ opened'[p][i] = opened[p][i]
      /\ DOMAIN wire'[p] = DOMAIN wire[p] \union {Len(wire[p]) + 1}
      /\ DOMAIN opened'[p] = DOMAIN wire[p] \union {Len(wire[p]) + 1}
      /\ \A q \in Party : q # p =>
            wire'[q] = wire[q] /\ opened'[q] = opened[q] /\ session'[q] = session[q]
      /\ Len(wire[p]) + 1 \notin DOMAIN wire[p]
  BY <1>1, <1>2, <1>4 DEF Inv, TypeOK
<1>16. /\ \A i \in DOMAIN wire'[p] : \/ i \in DOMAIN wire[p] /\ wire'[p][i] = wire[p][i]
                                     \/ wire'[p][i] = m
       /\ \A q \in Party : \A i \in DOMAIN wire[q] :
             wire[q][i].key \in ChainKey(Made) /\ wire[q][i].key.n \in Nat
  <2>1. \A q \in Party : \A i \in DOMAIN wire[q] : wire[q][i] \in Message(Made)
    BY <1>4
  <2> QED
    BY <1>5, <2>1 DEF Message, ChainKey
<1> DEFINE t == AfterEncrypt(s)
<1>6. /\ t.sendChain = {Advance(k, 1)}
      /\ m.header.dhPub = s.dhSelf /\ m.key = k
      /\ \A key : Spent(t, key) <=> Spent(s, key)
      /\ Tidy(p, t)
  BY <1>1, EncryptStep DEF m, k
<1>7. Advance(k, 1).root = k.root /\ Advance(k, 1).n = k.n + 1 /\ k.n \in Nat
  BY <1>1, EncryptStep DEF m, k
<1>8. session'[p] = t
  BY <1>1 DEF Inv, TypeOK
<1> HIDE DEF t
<1>11. Owned'
  <2>1. \A q \in Party : Tidy(q, session'[q])
    BY <1>5, <1>6, <1>8 DEF Inv, Owned
  <2>2. m.header.dhPub[1] = p
    BY <1>1, <1>6 DEF Tidy
  <2>3. \A q \in Party : \A i \in DOMAIN wire'[q] : wire'[q][i].header.dhPub[1] = q
    <3>1. \A i \in DOMAIN wire'[p] : wire'[p][i].header.dhPub[1] = p
      BY <1>16, <2>2 DEF Inv, Owned
    <3> QED
      BY <1>5, <3>1 DEF Inv, Owned
  <2> QED
    BY <2>1, <2>3 DEF Owned
<1>12. SendsAhead'
  <2>1. \A i \in DOMAIN wire[p] : ~Derives(k, wire[p][i].key) /\ wire[p][i].key.n \in Nat
    BY <1>2, <1>16 DEF Inv, SendsAhead
  <2>2. \A i \in DOMAIN wire'[p] : ~Derives(Advance(k, 1), wire'[p][i].key)
    BY <1>6, <1>7, <1>16, <2>1 DEF Derives
  <2> QED
    BY <1>5, <1>6, <1>8, <2>2 DEF Inv, SendsAhead
<1>13. Apart'
  <2>1. ASSUME NEW q \in Party, q # p
        PROVE  /\ \A i \in DOMAIN wire[q] : wire[q][i].key.root # k.root
               /\ \A d \in session[q].sendChain :
                     /\ d.root # k.root
                     /\ \A i \in DOMAIN wire'[p] : wire'[p][i].key.root # d.root
    BY <1>2, <1>5, <1>6, <2>1 DEF Inv, Apart
  <2> QED
    BY <1>5, <1>6, <1>7, <1>8, <2>1 DEF Inv, Apart
<1>14. NoKeyReuse'
  <2>1. ASSUME NEW q \in Party, NEW j \in DOMAIN wire[q]
        PROVE  wire[q][j].key # k
    <3>1. CASE q = p
      <4>1. ~Derives(k, wire[p][j].key)
        BY <1>2, <2>1, <3>1 DEF Inv, SendsAhead
      <4> QED
        BY <1>7, <3>1, <4>1 DEF Derives
    <3>2. CASE q # p
      BY <1>2, <2>1, <3>2 DEF Inv, Apart
    <3> QED
      BY <3>1, <3>2
  <2> QED
    BY <1>5, <1>6, <2>1 DEF Inv, NoKeyReuse
<1>15. OpenedOnce'
  <2>1. \A q \in Party : \A key : Spent(session[q], key) => Spent(session'[q], key)
    BY <1>5, <1>6, <1>8
  <2>2. \A q \in Party : Peer(q) \in Party
    BY Peers
  <2>3. \A q \in Party : DOMAIN opened[q] = DOMAIN wire[q]
    BY <1>4
  <2>4. ASSUME NEW q \in Party, NEW i \in DOMAIN opened'[q]
        PROVE  /\ opened'[q][i] \in {0, 1}
               /\ opened'[q][i] = 1 => Spent(session'[Peer(q)], wire'[q][i].key)
    <3>1. CASE i \in DOMAIN opened[q]
      <4>1. /\ opened[q][i] \in {0, 1}
            /\ opened[q][i] = 1 => Spent(session[Peer(q)], wire[q][i].key)
        BY <3>1 DEF Inv, OpenedOnce
      <4>2. opened'[q][i] = opened[q][i] /\ wire'[q][i] = wire[q][i]
        BY <1>5, <2>3, <3>1
      <4> QED
        BY <2>1, <2>2, <4>1, <4>2
    <3>2. CASE i \notin DOMAIN opened[q]
      BY <1>5, <2>3, <3>2
    <3> QED
      BY <3>1, <3>2
  <2> QED
    BY <2>4 DEF OpenedOnce
<1> QED
  BY <1>3, <1>11, <1>12, <1>13, <1>14, <1>15 DEF Inv

(***************************************************************************)
(* Opening a message: it had not been opened before.                       *)
(***************************************************************************)
LEMMA DecryptInv ==
    ASSUME Inv, NEW q \in Party, NEW i, Decrypt(q, i)
    PROVE  Inv' /\ opened[Peer(q)][i] = 0
<1> DEFINE p == Peer(q)
           m == wire[p][i]
           s == session[q]
           f == FreshKey(q)
           t == AfterDecrypt(s, m, f)
           steps == StepsRatchet(s, m.header)
<1>1. p \in Party /\ p # q /\ Peer(p) = q /\ \A r \in Party : r = p \/ r = q
  BY Peers
<1> HIDE DEF p
<1>2. /\ nextKey \in [Party -> Nat] /\ DOMAIN session = Party
      /\ \A r \in Party : /\ IsRatchetState(session[r], Made) /\ Tidy(r, session[r])
                          /\ wire[r] \in Seq(Message(Made))
                          /\ opened[r] \in Seq(Nat) /\ Len(opened[r]) = Len(wire[r])
      /\ DOMAIN opened = Party /\ DOMAIN wire = Party
  BY DEF Inv, TypeOK, Owned
<1>3. /\ i \in DOMAIN wire[p] /\ Opens(s, m, f)
      /\ session' = [session EXCEPT ![q] = t]
      /\ nextKey' = [nextKey EXCEPT ![q] = IF steps THEN @ + 1 ELSE @]
      /\ opened' = [opened EXCEPT ![p][i] = @ + 1]
      /\ wire' = wire
  BY DEF Decrypt, p
<1>4. /\ m \in Message(Made) /\ m.header.dhPub \in Made /\ m.key \in ChainKey(Made)
      /\ m.header.dhPub[1] # q /\ m.header.dhPub # NoPub
      /\ f \notin Made /\ f[1] = q
  <2>1. m \in Message(Made)
    BY <1>1, <1>2, <1>3
  <2>2. m.header.dhPub \in Made /\ m.key \in ChainKey(Made)
    BY <2>1 DEF Message
  <2>3. m.header.dhPub[1] = p
    BY <1>1, <1>3 DEF Inv, Owned
  <2> QED
    BY <1>1, <1>2, <2>1, <2>2, <2>3, MadeKeys
<1>5. Made \subseteq Made' /\ nextKey' \in [Party -> Nat]
      /\ (steps => f \in Made') /\ (~steps => Made' = Made)
  <2>1. CASE steps
    <3>1. nextKey' = [nextKey EXCEPT ![q] = @ + 1]
      BY <1>3, <2>1
    <3>2. Made \subseteq Made' /\ f \in Made'
      <4>1. nextKey \in [Party -> Nat]
        BY <1>2
      <4> QED
        BY <3>1, <4>1, MadeGrows
    <3>3. nextKey' \in [Party -> Nat]
      BY <1>2, <3>1
    <3> QED
      BY <2>1, <3>2, <3>3
  <2>2. CASE ~steps
    <3>1. nextKey' = nextKey
      BY <1>2, <1>3, <2>2
    <3>2. Made' = Made
      BY <3>1 DEF Made
    <3> QED
      BY <1>2, <2>2, <3>1, <3>2
  <2> QED
    BY <2>1, <2>2
<1>6. /\ IsRatchetState(t, Made') /\ Tidy(q, t) /\ NoneReturns(s, t, Made')
      /\ ~Spent(s, m.key) /\ Spent(t, m.key)
      /\ ~steps => SendsAsBefore(s, t)
      /\ steps => SendsFresh(t, m.header.dhPub, f, Made')
  <2> HIDE DEF s, m, f
  <2>1. IsRatchetState(s, Made) /\ Tidy(q, s)
    BY <1>2 DEF s
  <2>2. Opens(s, m, f)
    BY <1>3
  <2> QED
    BY <1>4, <1>5, <2>1, <2>2, DecryptFresh
<1> HIDE DEF t, m, steps, f
<1>7. opened[p][i] = 0
  <2>1. i \in DOMAIN opened[p]
    BY <1>1, <1>2, <1>3
  <2> QED
    BY <1>1, <1>6, <2>1 DEF Inv, OpenedOnce, m
<1>8. /\ session'[q] = t /\ session'[p] = session[p]
      /\ opened'[q] = opened[q] /\ opened'[p] = [opened[p] EXCEPT ![i] = 1]
  BY <1>1, <1>2, <1>3, <1>7
<1>9. TypeOK'
  <2>1. \A r \in Party : IsRatchetState(session'[r], Made')
    BY <1>1, <1>2, <1>5, <1>6, <1>8, StateGrows
  <2>2. Message(Made) \subseteq Message(Made')
    BY <1>5, RootGrows
  <2>3. wire' \in [Party -> Seq(Message(Made'))]
    <3>1. wire \in [Party -> Seq(Message(Made))]
      BY DEF Inv, TypeOK
    <3> QED
      BY <1>3, <2>2, <3>1
  <2>4. opened' \in [Party -> Seq(Nat)] /\ \A r \in Party : Len(opened'[r]) = Len(wire'[r])
    <3>1. opened \in [Party -> Seq(Nat)]
      BY DEF Inv, TypeOK
    <3>2. opened'[p] \in Seq(Nat) /\ Len(opened'[p]) = Len(opened[p])
      <4>1. opened[p] \in Seq(Nat) /\ i \in 1..Len(opened[p])
        BY <1>1, <1>2, <1>3
      <4> QED
        BY <1>8, <4>1, ExceptSeq
    <3> QED
      BY <1>1, <1>2, <1>3, <1>8, <3>1, <3>2
  <2> QED
    BY <1>2, <1>3, <1>5, <2>1, <2>3, <2>4 DEF TypeOK
<1>10. Owned'
  BY <1>1, <1>2, <1>3, <1>6, <1>8 DEF Inv, Owned
<1>11. \A r \in Party : \A j \in DOMAIN wire[r] :
          wire[r][j].key \in ChainKey(Made) /\ wire[r][j].key.root \in Root(Made)
  <2>1. \A r \in Party : \A j \in DOMAIN wire[r] : wire[r][j] \in Message(Made)
    BY <1>2
  <2> QED
    BY <2>1 DEF Message, ChainKey
<1>12. ASSUME steps, NEW c \in t.sendChain, NEW old \in Root(Made)
       PROVE  c.root # old
  <2>1. PICK root \in Root(Made') :
           t.sendChain = {FirstChainKey(Append(root, {f, m.header.dhPub}))}
    BY <1>6, <1>12 DEF SendsFresh
  <2>2. c.root = Append(root, {f, m.header.dhPub})
    BY <1>12, <2>1 DEF FirstChainKey
  <2>3. {f, m.header.dhPub} \in SUBSET Made'
    BY <1>4, <1>5, <1>12
  <2> QED
    BY <1>4, <2>1, <2>2, <2>3, FreshRoot
<1>13. SendsAhead'
  <2>1. ASSUME NEW c \in t.sendChain, NEW j \in DOMAIN wire[q]
        PROVE  ~Derives(c, wire[q][j].key)
    <3>1. CASE steps
      BY <1>11, <1>12, <2>1, <3>1 DEF Derives
    <3>2. CASE ~steps
      BY <1>6, <2>1, <3>2 DEF SendsAsBefore, Inv, SendsAhead
    <3> QED
      BY <3>1, <3>2
  <2> QED
    BY <1>1, <1>3, <1>8, <2>1 DEF Inv, SendsAhead
<1>14. Apart'
  <2>1. ASSUME NEW c \in t.sendChain
        PROVE  /\ \A j \in DOMAIN wire[p] : wire[p][j].key.root # c.root
               /\ \A d \in session[p].sendChain : d.root # c.root
    <3>1. CASE steps
      <4>1. \A d \in session[p].sendChain : d.root \in Root(Made)
        BY <1>1, <1>2 DEF IsRatchetState, Fields, ChainKey
      <4> QED
        BY <1>1, <1>11, <1>12, <2>1, <3>1, <4>1
    <3>2. CASE ~steps
      BY <1>1, <1>6, <2>1, <3>2 DEF SendsAsBefore, Inv, Apart
    <3> QED
      BY <3>1, <3>2
  <2>2. \A d \in session[p].sendChain : \A j \in DOMAIN wire[q] : wire[q][j].key.root # d.root
    BY <1>1 DEF Inv, Apart
  <2> QED
    BY <1>1, <1>3, <1>8, <2>1, <2>2 DEF Apart
<1>15. NoKeyReuse'
  BY <1>3 DEF Inv, NoKeyReuse
<1>16. OpenedOnce'
  <2>1. ASSUME NEW j \in DOMAIN opened'[p]
        PROVE  /\ opened'[p][j] \in {0, 1}
               /\ opened'[p][j] = 1 => Spent(t, wire[p][j].key)
    <3>1. j \in DOMAIN opened[p] /\ j \in DOMAIN wire[p]
      BY <1>1, <1>2, <1>8, <2>1
    <3>2. CASE j = i
      BY <1>6, <1>8, <3>1, <3>2 DEF m
    <3>3. CASE j # i
      <4>1. /\ opened'[p][j] = opened[p][j] /\ opened[p][j] \in {0, 1}
            /\ opened[p][j] = 1 => Spent(s, wire[p][j].key)
        BY <1>1, <1>8, <3>1, <3>3 DEF Inv, OpenedOnce
      <4>2. wire[p][j].key \in ChainKey(Made')
        <5>1. ChainKey(Made) \subseteq ChainKey(Made')
          BY <1>5, RootGrows
        <5> QED
          BY <1>1, <1>11, <3>1, <5>1
      <4> QED
        BY <1>6, <4>1, <4>2 DEF NoneReturns
    <3> QED
      BY <3>2, <3>3
  <2>2. Peer(q) = p
    BY DEF p
  <2> QED
    BY <1>1, <1>3, <1>8, <2>1, <2>2 DEF Inv, OpenedOnce
<1> QED
  BY <1>7, <1>9, <1>10, <1>13, <1>14, <1>15, <1>16 DEF Inv, p

----------------------------------------------------------------------------
LEMMA StepInv == Inv /\ [Next]_vars => Inv'
<1> SUFFICES ASSUME Inv, [Next]_vars PROVE Inv'
  OBVIOUS
<1>1. ASSUME NEW p \in Party, Encrypt(p) PROVE Inv'
  BY <1>1, EncryptInv
<1>2. ASSUME NEW q \in Party, NEW i \in 1..MaxMsgs, Decrypt(q, i) PROVE Inv'
  BY <1>2, DecryptInv
<1>3. CASE UNCHANGED vars
  <2>1. /\ session' = session /\ nextKey' = nextKey /\ wire' = wire /\ opened' = opened
    BY <1>3 DEF vars
  <2>2. Made' = Made
    BY <2>1 DEF Made
  <2> QED
    BY <2>1, <2>2 DEF Inv, TypeOK, Owned, SendsAhead, Apart, NoKeyReuse, OpenedOnce
<1> QED
  BY <1>1, <1>2, <1>3 DEF Next

\* The invariant the theorems below follow from holds in every reachable state.
THEOREM Invariance == Spec => []Inv
<1> QED
  BY InitInv, StepInv, PTL DEF Spec

\* The session records, headers and keys keep their shapes, and no key is ever
\* derived from a pair that was not generated (encryptRatchet, decryptRatchet).
THEOREM TypeCorrect == Spec => []TypeOK
<1>1. Inv => TypeOK
  BY DEF Inv
<1> QED
  BY <1>1, Invariance, PTL

\* encryptRatchet never seals two messages with one key, on either side,
\* whatever the number of messages, DH steps and reorderings.
THEOREM KeysNotReused == Spec => []NoKeyReuse
<1>1. Inv => NoKeyReuse
  BY DEF Inv
<1> QED
  BY <1>1, Invariance, PTL

\* What a session record holds after a message was sealed or opened does not
\* yield that message's key (the state encryptRatchet and decryptRatchet leave).
THEOREM ForwardSecret == Spec => []ForwardSecrecy
<1>1. Inv => ForwardSecrecy
  <2> SUFFICES ASSUME Inv, NEW p \in Party, NEW i \in DOMAIN wire[p]
               PROVE  /\ \A c \in session[p].sendChain : ~Derives(c, wire[p][i].key)
                      /\ opened[p][i] > 0 =>
                            /\ \A c \in session[Peer(p)].recvChain :
                                  ~Derives(c, wire[p][i].key)
                            /\ wire[p][i].key \notin SkippedKeys(session[Peer(p)])
    BY DEF ForwardSecrecy
  <2>1. \A c \in session[p].sendChain : ~Derives(c, wire[p][i].key)
    BY DEF Inv, SendsAhead
  <2>2. i \in DOMAIN opened[p]
    <3>1. wire[p] \in Seq(Message(Made)) /\ opened[p] \in Seq(Nat)
          /\ Len(opened[p]) = Len(wire[p])
      BY DEF Inv, TypeOK
    <3> QED
      BY <3>1
  <2>3. opened[p][i] > 0 => Spent(session[Peer(p)], wire[p][i].key)
    BY <2>2 DEF Inv, OpenedOnce
  <2> QED
    BY <2>1, <2>3 DEF Spent, Behind
<1> QED
  BY <1>1, Invariance, PTL

\* decryptFromPeer hands no message over twice, however often the server
\* redelivers it: every step is one of the abstract channel or changes nothing
\* there.
THEOREM HandsOverOnce == Spec => AtMostOnce
<1>1. Init => Channel!Init
  BY DEF Init, Channel!Init
<1>2. Inv /\ [Next]_vars => [Channel!Next]_opened
  <2> SUFFICES ASSUME Inv, [Next]_vars PROVE [Channel!Next]_opened
    OBVIOUS
  <2>1. ASSUME NEW p \in Party, Encrypt(p) PROVE Channel!Next
    <3>1. Len(opened[p]) = Len(wire[p])
      BY DEF Inv, TypeOK
    <3>2. Channel!Send(p)
      BY <2>1, <3>1 DEF Encrypt, Channel!Send
    <3> QED
      BY <3>2 DEF Channel!Next
  <2>2. ASSUME NEW q \in Party, NEW i \in 1..MaxMsgs, Decrypt(q, i)
        PROVE  Channel!Next
    <3> DEFINE p == Peer(q)
    <3>1. p \in Party /\ opened[p][i] = 0
      BY <2>2, DecryptInv, Peers
    <3> HIDE DEF p
    <3>2. i \in DOMAIN opened[p] /\ opened' = [opened EXCEPT ![p][i] = @ + 1]
      <4>1. i \in DOMAIN wire[p] /\ opened' = [opened EXCEPT ![p][i] = @ + 1]
        BY <2>2 DEF Decrypt, p
      <4>2. wire[p] \in Seq(Message(Made)) /\ opened[p] \in Seq(Nat)
            /\ Len(opened[p]) = Len(wire[p])
        BY <3>1 DEF Inv, TypeOK
      <4> QED
        BY <4>1, <4>2
    <3>3. Channel!Deliver(p, i)
      BY <3>1, <3>2 DEF Channel!Deliver
    <3> QED
      BY <3>1, <3>3 DEF Channel!Next
  <2>3. CASE UNCHANGED vars
    BY <2>3 DEF vars
  <2> QED
    BY <2>1, <2>2, <2>3 DEF Next
<1> QED
  BY <1>1, <1>2, Invariance, PTL DEF Spec, AtMostOnce, Channel!Safety

(***************************************************************************)
(* Where both sides stand.  A device turns its ratchet when it meets a     *)
(* chain it has not seen, so the chains of the two come in turns, and the  *)
(* root of each is the pairs of public keys up to it.                      *)
(***************************************************************************)
DhPairs(n) == [j \in 1..n |-> {<<Alice, (j - 1) \div 2>>, <<Bob, j \div 2>>}]

\* The root of the k-th chain p seals on; Bob's first is the X3DH secret.
Chain(p, k) == DhPairs(IF p = Alice THEN 2 * k + 1 ELSE 2 * k)

LEMMA PairsGrow ==
    ASSUME NEW n \in Nat, NEW x, x = {<<Alice, n \div 2>>, <<Bob, (n + 1) \div 2>>}
    PROVE  Append(DhPairs(n), x) = DhPairs(n + 1)
<1> DEFINE f(j) == {<<Alice, (j - 1) \div 2>>, <<Bob, j \div 2>>}
           g == [j \in 1..n |-> f(j)]
           h == [j \in 1..(n + 1) |-> f(j)]
<1>1. DhPairs(n) = g /\ DhPairs(n + 1) = h
  BY DEF DhPairs
<1>2. x = f(n + 1)
  <2>1. (n + 1) - 1 = n
    OBVIOUS
  <2> QED
    BY <2>1
<1> HIDE DEF f
<1>3. Append(g, x) = h
  <2>1. g \in Seq({f(j) : j \in 1..n}) /\ Len(g) = n
    OBVIOUS
  <2>2. Append(g, x) = [j \in 1..(n + 1) |-> IF j = n + 1 THEN x ELSE g[j]]
    BY <2>1
  <2>3. \A j \in 1..(n + 1) : (IF j = n + 1 THEN x ELSE g[j]) = f(j)
    BY <1>2
  <2> HIDE DEF g
  <2> QED
    BY <2>2, <2>3
<1> QED
  BY <1>1, <1>3

LEMMA PairsLen ==
    ASSUME NEW n \in Nat
    PROVE  Len(DhPairs(n)) = n /\ DhPairs(n) \in Seq({DhPairs(n)[j] : j \in 1..n})
<1> DEFINE f(j) == {<<Alice, (j - 1) \div 2>>, <<Bob, j \div 2>>}
           g == [j \in 1..n |-> f(j)]
<1>1. DhPairs(n) = g
  BY DEF DhPairs
<1> HIDE DEF f
<1>2. g \in Seq({f(j) : j \in 1..n}) /\ Len(g) = n
  OBVIOUS
<1>3. \A j \in 1..n : g[j] = f(j)
  OBVIOUS
<1>4. {f(j) : j \in 1..n} = {g[j] : j \in 1..n}
  BY <1>3
<1> HIDE DEF g
<1> QED
  BY <1>1, <1>2, <1>4

\* The chain a device expects after its own T-th, and where it turns to.
Expected(q, T) == IF q = Alice THEN T + 1 ELSE T

LEMMA ChainsMeet ==
    ASSUME NEW q \in Party, NEW T \in Nat
    PROVE  /\ Append(Chain(q, T), {<<q, T>>, <<Peer(q), Expected(q, T)>>})
                 = Chain(Peer(q), Expected(q, T))
           /\ Append(Chain(Peer(q), Expected(q, T)), {<<q, T + 1>>, <<Peer(q), Expected(q, T)>>})
                 = Chain(q, T + 1)
           /\ \A j \in Nat : \A x : Append(Chain(q, T), x) = Chain(Peer(q), j) => j = Expected(q, T)
<1> DEFINE e == Expected(q, T)
<1>1. Alice # Bob /\ Party = {Alice, Bob} /\ Peer(Alice) = Bob /\ Peer(Bob) = Alice
  BY Peers DEF Bob
<1>2. \A n \in Nat : \A x : Len(Append(DhPairs(n), x)) = n + 1
  <2> SUFFICES ASSUME NEW n \in Nat, NEW x PROVE Len(Append(DhPairs(n), x)) = n + 1
    OBVIOUS
  <2> DEFINE g == DhPairs(n)
  <2>1. Len(g) = n /\ g \in Seq({g[j] : j \in 1..n})
    BY PairsLen
  <2> HIDE DEF g
  <2> QED
    BY <2>1 DEF g
<1>3. \A n \in Nat : Len(DhPairs(n)) = n
  BY PairsLen
<1>4. CASE q = Alice
  <2>1. Peer(q) = Bob /\ e = T + 1 /\ Chain(q, T) = DhPairs(2 * T + 1)
        /\ \A j : Chain(Bob, j) = DhPairs(2 * j)
        /\ Chain(q, T + 1) = DhPairs(2 * (T + 1) + 1)
    BY <1>1, <1>4 DEF Expected, Chain
  <2>2. Append(DhPairs(2 * T + 1), {<<Alice, T>>, <<Bob, T + 1>>}) = DhPairs(2 * (T + 1))
    <3>1. (2 * T + 1) \div 2 = T /\ (2 * T + 1 + 1) \div 2 = T + 1 /\ 2 * T + 1 + 1 = 2 * (T + 1)
          /\ 2 * T + 1 \in Nat
      OBVIOUS
    <3> QED
      BY <3>1, PairsGrow
  <2>3. Append(DhPairs(2 * (T + 1)), {<<Alice, T + 1>>, <<Bob, T + 1>>}) = DhPairs(2 * (T + 1) + 1)
    <3>1. (2 * (T + 1)) \div 2 = T + 1 /\ (2 * (T + 1) + 1) \div 2 = T + 1 /\ 2 * (T + 1) \in Nat
      OBVIOUS
    <3> QED
      BY <3>1, PairsGrow
  <2>4. ASSUME NEW j \in Nat, NEW x, Append(DhPairs(2 * T + 1), x) = DhPairs(2 * j)
        PROVE  j = T + 1
    <3>1. 2 * T + 1 \in Nat /\ 2 * j \in Nat
      OBVIOUS
    <3>2. 2 * T + 1 + 1 = 2 * j
      BY <1>2, <1>3, <2>4, <3>1
    <3> QED
      BY <3>2
  <2> HIDE DEF e
  <2>5. /\ Append(Chain(q, T), {<<q, T>>, <<Peer(q), e>>}) = Chain(Peer(q), e)
        /\ Append(Chain(Peer(q), e), {<<q, T + 1>>, <<Peer(q), e>>}) = Chain(q, T + 1)
        /\ \A j \in Nat : \A x : Append(Chain(q, T), x) = Chain(Peer(q), j) => j = e
    BY <1>4, <2>1, <2>2, <2>3, <2>4
  <2> QED
    BY <2>5 DEF e
<1>5. CASE q = Bob
  <2>1. Peer(q) = Alice /\ e = T /\ Chain(q, T) = DhPairs(2 * T)
        /\ \A j : Chain(Alice, j) = DhPairs(2 * j + 1)
        /\ Chain(q, T + 1) = DhPairs(2 * (T + 1))
    BY <1>1, <1>5 DEF Expected, Chain
  <2>2. Append(DhPairs(2 * T), {<<Bob, T>>, <<Alice, T>>}) = DhPairs(2 * T + 1)
    <3>1. (2 * T) \div 2 = T /\ (2 * T + 1) \div 2 = T /\ 2 * T \in Nat
      OBVIOUS
    <3>2. {<<Bob, T>>, <<Alice, T>>} = {<<Alice, T>>, <<Bob, T>>}
      OBVIOUS
    <3> QED
      BY <3>1, <3>2, PairsGrow
  <2>3. Append(DhPairs(2 * T + 1), {<<Bob, T + 1>>, <<Alice, T>>}) = DhPairs(2 * (T + 1))
    <3>1. (2 * T + 1) \div 2 = T /\ (2 * T + 1 + 1) \div 2 = T + 1 /\ 2 * T + 1 + 1 = 2 * (T + 1)
          /\ 2 * T + 1 \in Nat
      OBVIOUS
    <3>2. {<<Bob, T + 1>>, <<Alice, T>>} = {<<Alice, T>>, <<Bob, T + 1>>}
      OBVIOUS
    <3> QED
      BY <3>1, <3>2, PairsGrow
  <2>4. ASSUME NEW j \in Nat, NEW x, Append(DhPairs(2 * T), x) = DhPairs(2 * j + 1)
        PROVE  j = T
    <3>1. 2 * T \in Nat /\ 2 * j + 1 \in Nat
      OBVIOUS
    <3>2. 2 * T + 1 = 2 * j + 1
      BY <1>2, <1>3, <2>4, <3>1
    <3> QED
      BY <3>2
  <2> HIDE DEF e
  <2>5. /\ Append(Chain(q, T), {<<q, T>>, <<Peer(q), e>>}) = Chain(Peer(q), e)
        /\ Append(Chain(Peer(q), e), {<<q, T + 1>>, <<Peer(q), e>>}) = Chain(q, T + 1)
        /\ \A j \in Nat : \A x : Append(Chain(q, T), x) = Chain(Peer(q), j) => j = e
    BY <1>5, <2>1, <2>2, <2>3, <2>4
  <2> QED
    BY <2>5 DEF e
<1> QED
  BY <1>1, <1>4, <1>5

Turn(p) == nextKey[p] - 1
Seen(q) == Expected(q, Turn(q))

Sent(w, r, c) == \E i \in DOMAIN w : w[i].header.dhPub = r /\ w[i].header.counter = c

\* Neither is more than one chain ahead of what the other has seen.
InTurn == \A q \in Party : nextKey[q] > 0 /\ Turn(Peer(q)) \in {Seen(q) - 1, Seen(q)}

Placed(q) ==
    LET s == session[q]
    IN  /\ s.dhSelf = <<q, Turn(q)>> /\ s.rootKey = Chain(q, Turn(q))
        /\ s.dhRemote = IF Seen(q) = 0 THEN NoPub ELSE <<Peer(q), Seen(q) - 1>>
        /\ s.sendChain \subseteq {KeyOf(Chain(q, Turn(q)), s.sendCounter)}
        /\ q # Alice /\ Turn(q) = 0 => s.sendChain = {}
        /\ s.recvChain = IF Turn(q) = 0 THEN {}
                         ELSE {KeyOf(Chain(Peer(q), Seen(q) - 1), s.recvCounter)}

\* The counters of a record are the numbers of messages on its last two chains.
Counts(p) ==
    \A c \in Nat :
        /\ c < session[p].sendCounter <=> Sent(wire[p], <<p, Turn(p)>>, c)
        /\ c < session[p].prevSendCounter <=> Turn(p) > 0 /\ Sent(wire[p], <<p, Turn(p) - 1>>, c)

Before(g, h) == \/ g.dhPub[2] < h.dhPub[2]
                \/ g.dhPub[2] = h.dhPub[2] /\ g.counter < h.counter

Ordered(p) ==
    \A i, j \in DOMAIN wire[p] : i < j => Before(wire[p][i].header, wire[p][j].header)

\* A message has the key its place on its chain says, the ones before it on the
\* chain were sealed, and prevN is the length of the chain before.
OnChain(p, i) ==
    LET h == wire[p][i].header
        k == h.dhPub[2]
    IN  /\ k \in 0..Turn(p) /\ h.dhPub = <<p, k>> /\ (p # Alice => k > 0)
        /\ wire[p][i].key = KeyOf(Chain(p, k), h.counter)
        /\ \A c \in Nat : /\ c < h.counter => Sent(wire[p], <<p, k>>, c)
                          /\ c < h.prevN <=> k > 0 /\ Sent(wire[p], <<p, k - 1>>, c)

Written(p) == Counts(p) /\ Ordered(p) /\ \A i \in DOMAIN wire[p] : OnChain(p, i)

\* A receiver that has seen e chains, and n messages of the last of them, has
\* not come to the message yet.
Ahead(e, n, h) ==
    \/ h.dhPub[2] >= e
    \/ h.dhPub[2] + 1 = e /\ h.counter >= n

IsAhead(q, h) == Ahead(Seen(q), session[q].recvCounter, h)

\* What the cache holds are messages of the other side; what is not opened is
\* ahead or in the cache, and not both.
Read(q) ==
    LET s == session[q]
        p == Peer(q)
    IN  /\ \A c \in Nat : c < s.recvCounter => Seen(q) > 0 /\ Sent(wire[p], <<p, Seen(q) - 1>>, c)
        /\ \A i \in DOMAIN wire[p] :
              LET h == wire[p][i].header
              IN  /\ opened[p][i] = 0 <=> IsAhead(q, h) \/ HasSlot(s, h.dhPub, h.counter)
                  /\ ~(IsAhead(q, h) /\ HasSlot(s, h.dhPub, h.counter))
        /\ \A r, c : HasSlot(s, r, c) =>
              \E i \in DOMAIN wire[p] : /\ wire[p][i].header.dhPub = r
                                        /\ wire[p][i].header.counter = c
                                        /\ wire[p][i].key = s.skipped[r][c]

Located == InTurn /\ \A p \in Party : Placed(p) /\ Written(p) /\ Read(p) /\ Capped(session[p])

LEMMA Numbers ==
    ASSUME TypeOK, InTurn, NEW p \in Party
    PROVE  /\ Turn(p) \in Nat /\ Seen(p) \in Nat
           /\ wire[p] \in Seq(Message(Made)) /\ opened[p] \in Seq(Nat)
           /\ DOMAIN wire[p] = 1..Len(wire[p]) /\ DOMAIN opened[p] = DOMAIN wire[p]
           /\ Len(wire[p]) \in Nat
           /\ \A i \in DOMAIN wire[p] : /\ wire[p][i] \in Message(Made)
                                        /\ wire[p][i].header.counter \in Nat
                                        /\ wire[p][i].header.prevN \in Nat
           /\ session[p].sendCounter \in Nat /\ session[p].recvCounter \in Nat
           /\ session[p].prevSendCounter \in Nat
<1>1. nextKey[p] \in Nat /\ nextKey[p] > 0
  BY DEF TypeOK, InTurn
<1>2. Turn(p) \in Nat /\ Seen(p) \in Nat
  BY <1>1 DEF Turn, Seen, Expected
<1>3. wire[p] \in Seq(Message(Made)) /\ opened[p] \in Seq(Nat) /\ Len(opened[p]) = Len(wire[p])
  BY DEF TypeOK
<1>4. \A i \in DOMAIN wire[p] : wire[p][i] \in Message(Made)
  BY <1>3
<1>5. \A i \in DOMAIN wire[p] : wire[p][i].header.counter \in Nat /\ wire[p][i].header.prevN \in Nat
  BY <1>4 DEF Message
<1>6. /\ session[p].sendCounter \in Nat /\ session[p].recvCounter \in Nat
      /\ session[p].prevSendCounter \in Nat
  BY DEF TypeOK, IsRatchetState, Fields
<1>7. /\ DOMAIN wire[p] = 1..Len(wire[p]) /\ DOMAIN opened[p] = DOMAIN wire[p]
      /\ Len(wire[p]) \in Nat
  BY <1>3
<1> QED
  BY <1>2, <1>3, <1>4, <1>5, <1>6, <1>7

LEMMA OneMessage ==
    ASSUME TypeOK, InTurn, NEW p \in Party, Written(p),
           NEW i \in DOMAIN wire[p], NEW j \in DOMAIN wire[p],
           wire[p][i].header.dhPub = wire[p][j].header.dhPub,
           wire[p][i].header.counter = wire[p][j].header.counter
    PROVE  i = j
<1>1. i \in Nat /\ j \in Nat /\ wire[p][i].header.counter \in Nat
      /\ wire[p][i].header.dhPub[2] \in Nat
  <2>1. OnChain(p, i) /\ Turn(p) \in Nat
    BY Numbers DEF Written
  <2>2. wire[p][i].header.dhPub[2] \in Nat
    BY <2>1 DEF OnChain
  <2> QED
    BY <2>2, Numbers
<1>2. ~Before(wire[p][i].header, wire[p][j].header) /\ ~Before(wire[p][j].header, wire[p][i].header)
  BY <1>1 DEF Before
<1>3. ~(i < j) /\ ~(j < i)
  BY <1>2 DEF Written, Ordered
<1> QED
  BY <1>1, <1>3

LEMMA InitLocated == Init => Located
<1> SUFFICES ASSUME Init PROVE Located
  OBVIOUS
<1> DEFINE a0 == <<Alice, 0>>
           b0 == <<Bob, 0>>
           e == <<>>
           ra == initRatchetAsAlice(e, a0, b0)
           rb == initRatchetAsBob(e, b0)
           one == 1
           zero == 0
           none == {}
<1>1. Alice # Bob /\ Party = {Alice, Bob} /\ Peer(Alice) = Bob /\ Peer(Bob) = Alice
  BY Peers DEF Bob
<1>2. /\ session[Alice] = ra /\ session[Bob] = rb
      /\ nextKey[Alice] = one /\ nextKey[Bob] = one
      /\ \A p \in Party : wire[p] = e /\ opened[p] = e
  BY <1>1 DEF Init
<1>3. /\ Turn(Alice) = zero /\ Turn(Bob) = zero /\ Seen(Alice) = one /\ Seen(Bob) = zero
  BY <1>1, <1>2 DEF Turn, Seen, Expected
<1>4. InTurn
  BY <1>1, <1>2, <1>3 DEF InTurn
<1>5. Chain(Bob, zero) = e /\ Append(e, {a0, b0}) = Chain(Alice, zero)
  <2>1. DhPairs(0) = e
    BY DEF DhPairs
  <2>2. Append(DhPairs(0), {a0, b0}) = DhPairs(0 + 1)
    <3>1. 0 \div 2 = 0 /\ (0 + 1) \div 2 = 0
      OBVIOUS
    <3> QED
      BY <3>1, PairsGrow
  <2> HIDE DEF e, a0, b0
  <2> QED
    BY <1>1, <2>1, <2>2 DEF Chain
<1>6. /\ ra.dhSelf = a0 /\ ra.dhRemote = b0 /\ ra.rootKey = Append(e, {a0, b0})
      /\ ra.sendChain = {KeyOf(ra.rootKey, zero)} /\ ra.recvChain = none
      /\ ra.sendCounter = zero /\ ra.recvCounter = zero /\ ra.prevSendCounter = zero
      /\ ra.skipped = e
  BY DEF initRatchetAsAlice, rootKdf, dh, FirstChainKey, KeyOf, NoChain
<1>7. /\ rb.dhSelf = b0 /\ rb.dhRemote = NoPub /\ rb.rootKey = e
      /\ rb.sendChain = none /\ rb.recvChain = none
      /\ rb.sendCounter = zero /\ rb.recvCounter = zero /\ rb.prevSendCounter = zero
      /\ rb.skipped = e
  BY DEF initRatchetAsBob, NoChain
<1>8. DOMAIN e = {}
  OBVIOUS
<1> HIDE DEF ra, rb, e
<1>9. \A p \in Party : Placed(p)
  <2>1. Placed(Alice)
    <3>1. Seen(Alice) # zero /\ <<Peer(Alice), Seen(Alice) - 1>> = b0
      BY <1>1, <1>3
    <3>2. <<Alice, Turn(Alice)>> = a0
      BY <1>3
    <3> HIDE DEF a0, b0, one
    <3> QED
      BY <1>1, <1>2, <1>3, <1>5, <1>6, <3>1, <3>2 DEF Placed
  <2>2. Placed(Bob)
    BY <1>1, <1>2, <1>3, <1>5, <1>7 DEF Placed
  <2> QED
    BY <1>1, <2>1, <2>2
<1>10. \A p \in Party : DOMAIN wire[p] = {} /\ \A k, c : ~Sent(wire[p], <<p, k>>, c)
  BY <1>2, <1>8 DEF Sent
<1>11. ASSUME NEW p \in Party PROVE Written(p) /\ Read(p) /\ Capped(session[p])
  <2>1. /\ session[p].sendCounter = 0 /\ session[p].prevSendCounter = 0
        /\ session[p].recvCounter = 0 /\ session[p].skipped = e
    BY <1>1, <1>2, <1>6, <1>7
  <2>2. \A r, c : ~HasSlot(session[p], r, c)
    BY <1>8, <2>1 DEF HasSlot
  <2>3. SkippedSlots(session[p]) = {}
    BY <2>2, SlotsAre
  <2>4. IsFiniteSet({}) /\ Cardinality({}) = 0
    BY FS_EmptySet
  <2>5. Capped(session[p])
    BY <1>8, <2>1, <2>3, <2>4, SkipCapsAssumption DEF Capped, totalSkipped
  <2>6. \A c \in Nat : ~(c < 0)
    OBVIOUS
  <2>7. Written(p)
    BY <1>10, <2>1, <2>6 DEF Written, Counts, Ordered
  <2>8. Peer(p) \in Party
    BY Peers
  <2>9. Read(p)
    BY <1>10, <2>1, <2>2, <2>6, <2>8 DEF Read
  <2> QED
    BY <2>5, <2>7, <2>9
<1> QED
  BY <1>4, <1>9, <1>11 DEF Located

----------------------------------------------------------------------------
\* Sealing appends the next message of the sender's last chain.
LEMMA EncryptLocated ==
    ASSUME Inv, Located, NEW p \in Party, Encrypt(p)
    PROVE  Located'
<1> DEFINE q == Peer(p)
           s == session[p]
           T == Turn(p)
           m == Sealed(s)
           new == Len(wire[p]) + 1
<1>1. q \in Party /\ q # p /\ Peer(q) = p /\ \A r \in Party : r = p \/ r = q
  BY Peers
<1>2. TypeOK /\ InTurn /\ TypeOK'
  BY EncryptInv DEF Inv, Located
<1>3. Placed(p) /\ Written(p) /\ Read(p) /\ Capped(s) /\ Placed(q) /\ Written(q) /\ Read(q)
      /\ Capped(session[q])
  BY <1>1 DEF Located
<1>4. /\ IsRatchetState(s, Made) /\ CanEncrypt(s) /\ nextKey' = nextKey
      /\ session' = [session EXCEPT ![p] = AfterEncrypt(s)]
      /\ wire' = [wire EXCEPT ![p] = Append(@, m)]
      /\ opened' = [opened EXCEPT ![p] = Append(@, 0)]
  BY <1>2 DEF Encrypt, TypeOK
<1>5. /\ T \in Nat /\ Seen(q) \in Nat /\ s.sendCounter \in Nat /\ session[q].recvCounter \in Nat
      /\ T \in {Seen(q) - 1, Seen(q)}
  BY <1>1, <1>2, Numbers DEF InTurn
<1>6. /\ \A r \in Party : Turn(r)' = Turn(r) /\ Seen(r)' = Seen(r)
  BY <1>4 DEF Turn, Seen, Expected
<1>7. /\ m.header.dhPub = <<p, T>> /\ m.header.counter = s.sendCounter
      /\ m.header.prevN = s.prevSendCounter /\ m.key = KeyOf(Chain(p, T), s.sendCounter)
      /\ p # Alice => T > 0
  <2>1. s.sendChain \subseteq {KeyOf(Chain(p, T), s.sendCounter)} /\ s.dhSelf = <<p, T>>
        /\ (p # Alice /\ T = 0 => s.sendChain = {})
    BY <1>3 DEF Placed
  <2>2. s.sendChain # {}
    BY <1>4 DEF CanEncrypt, NoChain
  <2>3. IsRatchetState(s, Made) /\ CanEncrypt(s)
    BY <1>4
  <2> DEFINE root == Chain(p, T)
  <2>4. s.sendChain \subseteq {KeyOf(root, s.sendCounter)}
    BY <2>1
  <2> HIDE DEF s, root
  <2>5. /\ m.header.dhPub = s.dhSelf /\ m.header.counter = s.sendCounter
        /\ m.header.prevN = s.prevSendCounter /\ m.key = KeyOf(root, s.sendCounter)
    BY <2>3, <2>4, EncryptFull
  <2> HIDE DEF m, T
  <2> QED
    BY <1>5, <2>1, <2>2, <2>5 DEF root
<1>8. LET t == session'[p]
      IN  /\ t.sendChain = {KeyOf(Chain(p, T), s.sendCounter + 1)}
          /\ t.sendCounter = s.sendCounter + 1 /\ t.prevSendCounter = s.prevSendCounter
          /\ t.dhSelf = s.dhSelf /\ t.dhRemote = s.dhRemote /\ t.rootKey = s.rootKey
          /\ t.recvChain = s.recvChain /\ t.recvCounter = s.recvCounter
          /\ t.skipped = s.skipped
  <2>1. session'[p] = AfterEncrypt(s)
    BY <1>2, <1>4 DEF TypeOK
  <2> DEFINE root == Chain(p, T)
             u == AfterEncrypt(s)
  <2>2. s.sendChain \subseteq {KeyOf(root, s.sendCounter)} /\ IsRatchetState(s, Made) /\ CanEncrypt(s)
    BY <1>3, <1>4 DEF Placed
  <2> HIDE DEF s, root
  <2>3. /\ u.sendChain = {KeyOf(root, s.sendCounter + 1)}
        /\ u.sendCounter = s.sendCounter + 1 /\ u.prevSendCounter = s.prevSendCounter
        /\ u.dhSelf = s.dhSelf /\ u.dhRemote = s.dhRemote /\ u.rootKey = s.rootKey
        /\ u.recvChain = s.recvChain /\ u.recvCounter = s.recvCounter
        /\ u.skipped = s.skipped
    BY <2>2, EncryptFull
  <2> HIDE DEF u
  <2> QED
    BY <2>1, <2>3 DEF root, u
<1>9. /\ session'[q] = session[q] /\ wire'[q] = wire[q] /\ opened'[q] = opened[q]
  BY <1>1, <1>2, <1>4 DEF TypeOK
<1>10. /\ DOMAIN wire'[p] = DOMAIN wire[p] \union {new} /\ new \notin DOMAIN wire[p]
       /\ wire'[p][new] = m /\ opened'[p][new] = 0
       /\ \A i \in DOMAIN wire[p] : wire'[p][i] = wire[p][i] /\ opened'[p][i] = opened[p][i] /\ i < new
       /\ new \in Nat
  <2>1. /\ wire[p] \in Seq(Message(Made)) /\ opened[p] \in Seq(Nat) /\ Len(opened[p]) = Len(wire[p])
        /\ wire'[p] = Append(wire[p], m) /\ opened'[p] = Append(opened[p], 0)
    BY <1>2, <1>4 DEF TypeOK
  <2>2. new = Len(wire[p]) + 1
    OBVIOUS
  <2> HIDE DEF m, new
  <2> QED
    BY <2>1, <2>2, Longer
<1> HIDE DEF q, s, T, m, new
<1>11. \A k, c : Sent(wire'[p], <<p, k>>, c) <=> Sent(wire[p], <<p, k>>, c) \/ (k = T /\ c = s.sendCounter)
  <2> SUFFICES ASSUME NEW k, NEW c
               PROVE  Sent(wire'[p], <<p, k>>, c) <=> Sent(wire[p], <<p, k>>, c) \/ (k = T /\ c = s.sendCounter)
    OBVIOUS
  <2> DEFINE Hit(i) == wire'[p][i].header.dhPub = <<p, k>> /\ wire'[p][i].header.counter = c
  <2>1. Sent(wire'[p], <<p, k>>, c) <=> \E i \in DOMAIN wire'[p] : Hit(i)
    BY DEF Sent
  <2>2. Hit(new) <=> k = T /\ c = s.sendCounter
    BY <1>7, <1>10
  <2>3. Sent(wire[p], <<p, k>>, c) <=> \E i \in DOMAIN wire[p] : Hit(i)
    BY <1>10 DEF Sent
  <2>4. \A i : i \in DOMAIN wire'[p] <=> i \in DOMAIN wire[p] \/ i = new
    BY <1>10
  <2> HIDE DEF Hit
  <2> QED
    BY <2>1, <2>2, <2>3, <2>4
<1>12. \A k, c : Sent(wire'[q], <<q, k>>, c) <=> Sent(wire[q], <<q, k>>, c)
  BY <1>9 DEF Sent
<1>13. ~Sent(wire[p], <<p, T>>, s.sendCounter)
  <2>1. \A c \in Nat : c < s.sendCounter <=> Sent(wire[p], <<p, T>>, c)
    BY <1>3 DEF Written, Counts, s, T
  <2> QED
    BY <1>5, <2>1
<1>14. \A i \in DOMAIN wire[p] : wire[p][i].header.dhPub[2] \in 0..T
  BY <1>3 DEF Written, OnChain, T
<1>15. Placed(p)' /\ Placed(q)' /\ InTurn'
  <2>1. Placed(p)'
    <3>1. /\ s.dhSelf = <<p, T>> /\ s.rootKey = Chain(p, T)
          /\ s.dhRemote = IF Seen(p) = 0 THEN NoPub ELSE <<Peer(p), Seen(p) - 1>>
          /\ s.recvChain = IF T = 0 THEN {} ELSE {KeyOf(Chain(Peer(p), Seen(p) - 1), s.recvCounter)}
      BY <1>3 DEF Placed, s, T
    <3>2. Turn(p)' = T /\ Seen(p)' = Seen(p) /\ ~(p # Alice /\ T = 0)
      BY <1>5, <1>6, <1>7 DEF T
    <3> QED
      BY <1>8, <3>1, <3>2 DEF Placed
  <2>2. Placed(q)'
    BY <1>1, <1>3, <1>6, <1>9 DEF Placed
  <2>3. InTurn'
    BY <1>2, <1>4, <1>6, Peers DEF InTurn
  <2> QED
    BY <2>1, <2>2, <2>3
<1>16. Counts(p)'
  <2> SUFFICES ASSUME NEW c \in Nat
               PROVE  /\ c < session'[p].sendCounter <=> Sent(wire'[p], <<p, Turn(p)'>>, c)
                      /\ c < session'[p].prevSendCounter <=> Turn(p)' > 0 /\ Sent(wire'[p], <<p, Turn(p)' - 1>>, c)
    BY DEF Counts
  <2>1. /\ c < s.sendCounter <=> Sent(wire[p], <<p, T>>, c)
        /\ c < s.prevSendCounter <=> T > 0 /\ Sent(wire[p], <<p, T - 1>>, c)
    BY <1>3 DEF Written, Counts, s, T
  <2>2. Turn(p)' = T /\ T - 1 # T
    BY <1>5, <1>6 DEF T
  <2>3. c < s.sendCounter + 1 <=> c < s.sendCounter \/ c = s.sendCounter
    BY <1>5
  <2>4. Sent(wire'[p], <<p, Turn(p)'>>, c) <=> Sent(wire[p], <<p, T>>, c) \/ c = s.sendCounter
    BY <1>11, <2>2
  <2>5. Sent(wire'[p], <<p, Turn(p)' - 1>>, c) <=> Sent(wire[p], <<p, T - 1>>, c)
    BY <1>11, <2>2
  <2> QED
    BY <1>8, <2>1, <2>2, <2>3, <2>4, <2>5
<1>17. Ordered(p)'
  <2>1. ASSUME NEW i \in DOMAIN wire[p]
        PROVE  Before(wire[p][i].header, m.header)
    <3> DEFINE h == wire[p][i].header
    <3>1. OnChain(p, i) /\ h.counter \in Nat /\ h.dhPub[2] \in 0..T
      BY <1>2, <1>3, <1>14, Numbers DEF Written
    <3>2. h.dhPub[2] = T => h.counter < s.sendCounter
      <4>1. h.dhPub = <<p, h.dhPub[2]>>
        BY <3>1 DEF OnChain
      <4>2. h.dhPub[2] = T => Sent(wire[p], <<p, T>>, h.counter)
        BY <2>1, <4>1 DEF Sent
      <4> QED
        BY <1>3, <3>1, <4>2 DEF Written, Counts, s, T
    <3>3. m.header.dhPub[2] = T
      BY <1>7
    <3> HIDE DEF h
    <3>4. Before(h, m.header)
      BY <1>5, <1>7, <3>1, <3>2, <3>3 DEF Before
    <3> QED
      BY <3>4 DEF h
  <2>2. \A i, j \in DOMAIN wire[p] : i < j => Before(wire[p][i].header, wire[p][j].header)
    BY <1>3 DEF Written, Ordered
  <2>3. \A i \in DOMAIN wire[p] : ~(new < i)
    <3>1. DOMAIN wire[p] = 1..Len(wire[p])
      BY <1>2, Numbers
    <3> QED
      BY <1>10, <3>1
  <2>4. ~(new < new)
    BY <1>10
  <2>5. \A i, j \in DOMAIN wire'[p] : i < j => Before(wire'[p][i].header, wire'[p][j].header)
    BY <1>10, <2>1, <2>2, <2>3, <2>4
  <2>6. \A g, h : Before(g, h)' <=> Before(g, h)
    BY DEF Before
  <2> QED
    BY <2>5 DEF Ordered, Before
<1>18. \A i \in DOMAIN wire'[p] : OnChain(p, i)'
  <2>1. ASSUME NEW i \in DOMAIN wire[p]
        PROVE  OnChain(p, i)'
    <3> DEFINE h == wire[p][i].header
               k == h.dhPub[2]
    <3>1. /\ k \in 0..T /\ h.dhPub = <<p, k>> /\ (p # Alice => k > 0)
          /\ wire[p][i].key = KeyOf(Chain(p, k), h.counter)
          /\ \A c \in Nat : /\ c < h.counter => Sent(wire[p], <<p, k>>, c)
                            /\ c < h.prevN <=> k > 0 /\ Sent(wire[p], <<p, k - 1>>, c)
      BY <1>3 DEF Written, OnChain, T
    <3>2. k - 1 # T
      BY <1>5, <3>1
    <3>3. Turn(p)' = T /\ wire'[p][i] = wire[p][i]
      BY <1>6, <1>10 DEF T
    <3>4. \A c \in Nat : /\ c < h.counter => Sent(wire'[p], <<p, k>>, c)
                         /\ c < h.prevN <=> k > 0 /\ Sent(wire'[p], <<p, k - 1>>, c)
      <4> HIDE DEF h, k
      <4> QED
        BY <1>11, <3>1, <3>2
    <3> QED
      BY <3>1, <3>3, <3>4 DEF OnChain
  <2>2. ASSUME NEW i, i = new
        PROVE  OnChain(p, i)'
    <3>1. wire'[p][i] = m /\ m.header.dhPub[2] = T /\ Turn(p)' = T
      BY <1>6, <1>7, <1>10, <2>2 DEF T
    <3>2. \A c \in Nat : /\ c < m.header.counter => Sent(wire'[p], <<p, T>>, c)
                         /\ c < m.header.prevN <=> T > 0 /\ Sent(wire'[p], <<p, T - 1>>, c)
      <4>1. T - 1 # T
        BY <1>5
      <4>2. \A c \in Nat : /\ c < s.sendCounter <=> Sent(wire[p], <<p, T>>, c)
                           /\ c < s.prevSendCounter <=> T > 0 /\ Sent(wire[p], <<p, T - 1>>, c)
        BY <1>3 DEF Written, Counts, s, T
      <4> QED
        BY <1>7, <1>11, <4>1, <4>2
    <3>3. T \in 0..T
      BY <1>5
    <3> DEFINE h == m.header
               k == h.dhPub[2]
    <3>4. /\ k \in 0..T /\ h.dhPub = <<p, k>> /\ (p # Alice => k > 0)
          /\ m.key = KeyOf(Chain(p, k), h.counter)
          /\ \A c \in Nat : /\ c < h.counter => Sent(wire'[p], <<p, k>>, c)
                            /\ c < h.prevN <=> k > 0 /\ Sent(wire'[p], <<p, k - 1>>, c)
      <4>1. k = T
        BY <3>1
      <4> HIDE DEF k
      <4> QED
        BY <1>7, <3>2, <3>3, <4>1
    <3> QED
      BY <3>1, <3>4 DEF OnChain
  <2>3. \A i \in DOMAIN wire'[p] : i = new \/ i \in DOMAIN wire[p]
    BY <1>10
  <2> QED
    BY <2>1, <2>2, <2>3
<1>19. Written(q)'
  <2>1. Turn(q)' = Turn(q)
    BY <1>1, <1>6 DEF q
  <2>2. Counts(q)'
    BY <1>3, <1>9, <1>12, <2>1 DEF Written, Counts
  <2>3. Ordered(q)'
    BY <1>3, <1>9 DEF Written, Ordered, Before
  <2>4. \A i \in DOMAIN wire'[q] : OnChain(q, i)'
    <3> SUFFICES ASSUME NEW i \in DOMAIN wire[q] PROVE OnChain(q, i)'
      BY <1>9
    <3>1. OnChain(q, i)
      BY <1>3 DEF Written
    <3> QED
      BY <1>9, <1>12, <2>1, <3>1 DEF OnChain
  <2> QED
    BY <2>2, <2>3, <2>4 DEF Written
<1>20. Read(p)'
  <2>1. /\ Peer(p) = q /\ Seen(p)' = Seen(p) /\ session'[p].recvCounter = s.recvCounter
        /\ \A r, c : HasSlot(session'[p], r, c) <=> HasSlot(s, r, c)
        /\ \A h : IsAhead(p, h)' <=> IsAhead(p, h)
    BY <1>6, <1>8 DEF HasSlot, IsAhead, Ahead, q, s
  <2>2. /\ \A c \in Nat : c < s.recvCounter => Seen(p) > 0 /\ Sent(wire[q], <<q, Seen(p) - 1>>, c)
        /\ \A i \in DOMAIN wire[q] :
              LET h == wire[q][i].header
              IN  /\ opened[q][i] = 0 <=> IsAhead(p, h) \/ HasSlot(s, h.dhPub, h.counter)
                  /\ ~(IsAhead(p, h) /\ HasSlot(s, h.dhPub, h.counter))
        /\ \A r, c : HasSlot(s, r, c) =>
              \E i \in DOMAIN wire[q] : /\ wire[q][i].header.dhPub = r
                                        /\ wire[q][i].header.counter = c
                                        /\ wire[q][i].key = s.skipped[r][c]
    BY <1>3 DEF Read, q, s
  <2>3. session'[p].skipped = s.skipped
    BY <1>8
  <2> QED
    BY <1>9, <1>12, <2>1, <2>2, <2>3 DEF Read
<1>21. Read(q)'
  <2>1. /\ Peer(q) = p /\ Seen(q)' = Seen(q) /\ session'[q] = session[q]
        /\ \A h : IsAhead(q, h)' <=> IsAhead(q, h)
    BY <1>1, <1>6, <1>9 DEF IsAhead, Ahead
  <2> DEFINE t == session[q]
  <2>2. /\ \A c \in Nat : c < t.recvCounter => Seen(q) > 0 /\ Sent(wire[p], <<p, Seen(q) - 1>>, c)
        /\ \A i \in DOMAIN wire[p] :
              LET h == wire[p][i].header
              IN  /\ opened[p][i] = 0 <=> IsAhead(q, h) \/ HasSlot(t, h.dhPub, h.counter)
                  /\ ~(IsAhead(q, h) /\ HasSlot(t, h.dhPub, h.counter))
        /\ \A r, c : HasSlot(t, r, c) =>
              \E i \in DOMAIN wire[p] : /\ wire[p][i].header.dhPub = r
                                        /\ wire[p][i].header.counter = c
                                        /\ wire[p][i].key = t.skipped[r][c]
    BY <1>1, <1>3 DEF Read
  <2>3. IsAhead(q, m.header)
    <3>1. T + 1 = Seen(q) => s.sendCounter >= t.recvCounter
      <4>1. ASSUME T + 1 = Seen(q), ~(s.sendCounter >= t.recvCounter) PROVE FALSE
        <5>1. s.sendCounter < t.recvCounter /\ Seen(q) - 1 = T
          BY <1>5, <4>1
        <5>2. Sent(wire[p], <<p, T>>, s.sendCounter)
          BY <1>5, <2>2, <5>1
        <5> QED
          BY <1>13, <5>2
      <4> QED
        BY <4>1
    <3>2. m.header.dhPub[2] = T /\ m.header.counter = s.sendCounter
      BY <1>7
    <3>3. T >= Seen(q) \/ T + 1 = Seen(q)
      BY <1>5
    <3> DEFINE h == m.header
    <3> HIDE DEF h, T, q, s
    <3>4. h.dhPub[2] >= Seen(q) \/ (h.dhPub[2] + 1 = Seen(q) /\ h.counter >= t.recvCounter)
      BY <3>1, <3>2, <3>3 DEF h
    <3> QED
      BY <3>4 DEF IsAhead, Ahead, h
  <2>4. ~HasSlot(t, m.header.dhPub, m.header.counter)
    <3>1. ~Sent(wire[p], m.header.dhPub, m.header.counter)
      BY <1>7, <1>13
    <3> HIDE DEF t
    <3> QED
      BY <2>2, <3>1 DEF Sent
  <2> HIDE DEF t
  <2>5. \A i \in DOMAIN wire'[p] :
            LET h == wire'[p][i].header
            IN  /\ opened'[p][i] = 0 <=> IsAhead(q, h) \/ HasSlot(t, h.dhPub, h.counter)
                /\ ~(IsAhead(q, h) /\ HasSlot(t, h.dhPub, h.counter))
    BY <1>10, <2>2, <2>3, <2>4
  <2>6. \A r, c : HasSlot(t, r, c) =>
              \E i \in DOMAIN wire'[p] : /\ wire'[p][i].header.dhPub = r
                                         /\ wire'[p][i].header.counter = c
                                         /\ wire'[p][i].key = t.skipped[r][c]
    BY <1>10, <2>2
  <2>7. \A c \in Nat : c < t.recvCounter => Seen(q) > 0 /\ Sent(wire'[p], <<p, Seen(q) - 1>>, c)
    BY <1>11, <2>2
  <2> QED
    BY <2>1, <2>5, <2>6, <2>7 DEF Read, t
<1>22. Capped(session'[p]) /\ Capped(session'[q])
  BY <1>3, <1>8, <1>9, SameCacheCapped DEF s
<1>23. Written(p)'
  BY <1>16, <1>17, <1>18 DEF Written
<1> QED
  BY <1>1, <1>15, <1>19, <1>20, <1>21, <1>22, <1>23 DEF Located

----------------------------------------------------------------------------
\* The side that does not decrypt keeps its place.
LEMMA OtherStays ==
    ASSUME Located, NEW p \in Party, session'[p] = session[p], wire' = wire,
           nextKey'[p] = nextKey[p], opened'[Peer(p)] = opened[Peer(p)]
    PROVE  Placed(p)' /\ Written(p)' /\ Read(p)' /\ Capped(session[p])'
<1>1. Placed(p) /\ Written(p) /\ Read(p) /\ Capped(session[p]) /\ Peer(p) \in Party
  BY Peers DEF Located
<1>2. Turn(p)' = Turn(p) /\ Seen(p)' = Seen(p)
  BY DEF Turn, Seen, Expected
<1>3. Placed(p)'
  BY <1>1, <1>2 DEF Placed
<1>4. Written(p)'
  <2>1. Counts(p)'
    BY <1>1, <1>2 DEF Written, Counts
  <2>2. Ordered(p)'
    BY <1>1 DEF Written, Ordered, Before
  <2>3. \A j \in DOMAIN wire'[p] : OnChain(p, j)'
    BY <1>1, <1>2 DEF Written, OnChain
  <2> QED
    BY <2>1, <2>2, <2>3 DEF Written
<1>5. Read(p)'
  <2>1. \A h : IsAhead(p, h)' <=> IsAhead(p, h)
    BY <1>2 DEF IsAhead, Ahead
  <2> QED
    BY <1>1, <1>2, <2>1 DEF Read
<1>6. Capped(session[p])'
  BY <1>1, SameCacheCapped
<1> QED
  BY <1>3, <1>4, <1>5, <1>6

\* A decryption on q, told from where the two stand.
LEMMA Decrypting ==
    ASSUME Inv, Located, NEW q \in Party, NEW i, Decrypt(q, i)
    PROVE  LET p == Peer(q)
               m == wire[p][i]
               f == FreshKey(q)
           IN  /\ p \in Party /\ p # q /\ Peer(p) = q /\ \A r \in Party : r = p \/ r = q
               /\ i \in DOMAIN wire[p] /\ wire' = wire
               /\ session'[q] = AfterDecrypt(session[q], m, f) /\ session'[p] = session[p]
               /\ opened'[q] = opened[q]
               /\ \A j \in DOMAIN wire[p] : opened'[p][j] = IF j = i THEN 1 ELSE opened[p][j]
               /\ nextKey'[p] = nextKey[p]
               /\ nextKey'[q] = IF StepsRatchet(session[q], m.header)
                                THEN nextKey[q] + 1 ELSE nextKey[q]
               /\ \E K : /\ IsRatchetState(session[q], K) /\ m \in Message(K)
                         /\ \E g \in K : Opens(session[q], m, g)
                                         /\ AfterDecrypt(session[q], m, f)
                                               = AfterDecrypt(session[q], m, g)
                         /\ StepsRatchet(session[q], m.header) => f \in K
               /\ Opens(session[q], m, f)
               /\ m.key.n = m.header.counter
               /\ Stands(session[q], Chain(p, Seen(q) - 1))
<1> DEFINE p == Peer(q)
           m == wire[p][i]
           s == session[q]
           f == FreshKey(q)
           steps == StepsRatchet(s, m.header)
<1>1. p \in Party /\ p # q /\ Peer(p) = q /\ \A r \in Party : r = p \/ r = q
  BY Peers
<1>2. /\ nextKey \in [Party -> Nat] /\ DOMAIN session = Party
      /\ IsRatchetState(s, Made) /\ wire[p] \in Seq(Message(Made))
      /\ opened[p] \in Seq(Nat) /\ Len(opened[p]) = Len(wire[p])
      /\ DOMAIN opened = Party
  BY <1>1 DEF Inv, TypeOK
<1>3. /\ i \in DOMAIN wire[p] /\ Opens(s, m, f)
      /\ session' = [session EXCEPT ![q] = AfterDecrypt(s, m, f)]
      /\ nextKey' = [nextKey EXCEPT ![q] = IF steps THEN @ + 1 ELSE @]
      /\ opened' = [opened EXCEPT ![p][i] = @ + 1]
      /\ wire' = wire
  BY DEF Decrypt
<1>4. opened[p][i] = 0
  BY DecryptInv
<1>5. OnChain(p, i) /\ Placed(q)
  BY <1>1, <1>3 DEF Located, Written
<1> HIDE DEF p
<1>6. m.key.n = m.header.counter
  BY <1>5 DEF OnChain, KeyOf
<1>7. Stands(s, Chain(p, Seen(q) - 1))
  BY <1>5 DEF Placed, Stands, p
<1>8. m \in Message(Made)
  BY <1>2, <1>3
<1> HIDE DEF s, m, f, steps
<1>9. /\ session'[q] = AfterDecrypt(s, m, f) /\ session'[p] = session[p]
      /\ nextKey'[p] = nextKey[p] /\ nextKey'[q] = IF steps THEN nextKey[q] + 1 ELSE nextKey[q]
      /\ opened'[q] = opened[q]
  BY <1>1, <1>2, <1>3
<1>10. \A j \in DOMAIN wire[p] : opened'[p][j] = IF j = i THEN 1 ELSE opened[p][j]
  <2>1. opened'[p] = [opened[p] EXCEPT ![i] = opened[p][i] + 1]
    BY <1>1, <1>2, <1>3
  <2>2. DOMAIN wire[p] = DOMAIN opened[p]
    BY <1>2
  <2>3. opened[p][i] + 1 = 1
    BY <1>4
  <2> QED
    BY <2>1, <2>2, <2>3
<1>11. \E K : /\ IsRatchetState(s, K) /\ m \in Message(K)
              /\ \E g \in K : Opens(s, m, g) /\ AfterDecrypt(s, m, f) = AfterDecrypt(s, m, g)
              /\ steps => f \in K
  <2>1. CASE steps
    <3>1. Made \subseteq Made' /\ f \in Made'
      <4>1. nextKey' = [nextKey EXCEPT ![q] = @ + 1]
        BY <1>3, <2>1
      <4> QED
        BY <1>2, <4>1, MadeGrows DEF f
    <3>2. IsRatchetState(s, Made') /\ m \in Message(Made')
      BY <1>2, <1>8, <3>1, StateGrows, RootGrows
    <3> QED
      BY <1>3, <3>1, <3>2
  <2>2. CASE ~steps
    <3>1. PICK g : g \in Made
      BY <1>8 DEF Message
    <3>2. Opens(s, m, g) /\ AfterDecrypt(s, m, f) = AfterDecrypt(s, m, g)
      BY <1>3, <2>2, NoStepNoFresh DEF steps
    <3> QED
      BY <1>2, <1>8, <2>2, <3>1, <3>2
  <2> QED
    BY <2>1, <2>2
<1> QED
  BY <1>1, <1>3, <1>6, <1>7, <1>9, <1>10, <1>11 DEF p, m, s, f, steps

\* Where a message stands, with its counters.
LEMMA Places ==
    ASSUME Inv, Located, NEW p \in Party, NEW i \in DOMAIN wire[p]
    PROVE  LET h == wire[p][i].header
               k == h.dhPub[2]
           IN  /\ k \in Nat /\ k <= Turn(p) /\ Turn(p) \in Nat /\ h.dhPub = <<p, k>>
               /\ (p # Alice => k > 0) /\ h.dhPub # NoPub
               /\ h.counter \in Nat /\ h.prevN \in Nat
               /\ wire[p][i].key = KeyOf(Chain(p, k), h.counter)
               /\ \A c \in Nat : /\ c < h.counter => Sent(wire[p], <<p, k>>, c)
                                 /\ c < h.prevN <=> k > 0 /\ Sent(wire[p], <<p, k - 1>>, c)
               /\ \A j \in DOMAIN wire[p] :
                     wire[p][j].header.dhPub = h.dhPub /\ wire[p][j].header.counter = h.counter
                        => j = i
<1>1. TypeOK /\ InTurn /\ Written(p)
  BY DEF Inv, Located
<1>2. Turn(p) \in Nat /\ wire[p][i].header.counter \in Nat /\ wire[p][i].header.prevN \in Nat
  BY <1>1, Numbers
<1>3. OnChain(p, i)
  BY <1>1 DEF Written
<1>4. \A j \in DOMAIN wire[p] :
          wire[p][j].header.dhPub = wire[p][i].header.dhPub
          /\ wire[p][j].header.counter = wire[p][i].header.counter => j = i
  BY <1>1, OneMessage
<1> DEFINE h == wire[p][i].header
           k == h.dhPub[2]
<1>5. k \in 0..Turn(p) /\ h.dhPub = <<p, k>>
  BY <1>3 DEF OnChain
<1>6. k \in Nat /\ k <= Turn(p)
  <2> HIDE DEF k
  <2> QED
    BY <1>2, <1>5
<1>7. h.dhPub # NoPub
  <2> HIDE DEF k, h
  <2> QED
    BY <1>5 DEF NoPub
<1> QED
  BY <1>2, <1>3, <1>4, <1>5, <1>6, <1>7 DEF OnChain

\* What reading the i-th message must leave behind on q, which then has seen e
\* chains, for Read to hold again.
Kept(q, i, t, e) ==
    LET p == Peer(q)
    IN  /\ \A c \in Nat : c < t.recvCounter => e > 0 /\ Sent(wire[p], <<p, e - 1>>, c)
        /\ \A j \in DOMAIN wire[p] :
              LET h == wire[p][j].header
              IN  /\ opened[p][j] = 0 /\ j # i
                        <=> Ahead(e, t.recvCounter, h) \/ HasSlot(t, h.dhPub, h.counter)
                  /\ ~(Ahead(e, t.recvCounter, h) /\ HasSlot(t, h.dhPub, h.counter))
        /\ \A r, c : HasSlot(t, r, c) =>
              \E j \in DOMAIN wire[p] : /\ wire[p][j].header.dhPub = r
                                        /\ wire[p][j].header.counter = c
                                        /\ wire[p][j].key = t.skipped[r][c]

\* A cached key: its slot goes, nothing else moves.
LEMMA CachedKept ==
    ASSUME Inv, Located, NEW q \in Party, NEW i \in DOMAIN wire[Peer(q)],
           HasSkipped(session[q], wire[Peer(q)][i].header)
    PROVE  Kept(q, i, DropSkipped(session[q], wire[Peer(q)][i].header), Seen(q))
<1> DEFINE p == Peer(q)
           s == session[q]
           h == wire[p][i].header
           t == DropSkipped(s, h)
           e == Seen(q)
<1>1. p \in Party
  BY Peers
<1>2. IsRatchetState(s, Made)
  BY DEF Inv, TypeOK
<1>3. /\ t.recvCounter = s.recvCounter
      /\ \A r, c : HasSlot(t, r, c) <=> HasSlot(s, r, c) /\ ~(r = h.dhPub /\ c = h.counter)
      /\ \A r, c : HasSlot(t, r, c) => t.skipped[r][c] = s.skipped[r][c]
  <2> HIDE DEF s, h
  <2>1. HasSkipped(s, h)
    BY DEF s, h, p
  <2> QED
    BY <1>2, <2>1, DropLoses
<1>4. /\ \A c \in Nat : c < s.recvCounter => e > 0 /\ Sent(wire[p], <<p, e - 1>>, c)
      /\ \A j \in DOMAIN wire[p] :
            LET g == wire[p][j].header
            IN  /\ opened[p][j] = 0 <=> Ahead(e, s.recvCounter, g) \/ HasSlot(s, g.dhPub, g.counter)
                /\ ~(Ahead(e, s.recvCounter, g) /\ HasSlot(s, g.dhPub, g.counter))
      /\ \A r, c : HasSlot(s, r, c) =>
            \E j \in DOMAIN wire[p] : /\ wire[p][j].header.dhPub = r
                                      /\ wire[p][j].header.counter = c
                                      /\ wire[p][j].key = s.skipped[r][c]
  BY DEF Located, Read, IsAhead
<1>5. \A j \in DOMAIN wire[p] :
          wire[p][j].header.dhPub = h.dhPub /\ wire[p][j].header.counter = h.counter <=> j = i
  BY <1>1, Places
<1>6. HasSlot(s, h.dhPub, h.counter) /\ i \in DOMAIN wire[p]
  BY DEF HasSlot, HasSkipped
<1> HIDE DEF t, e, s, p
<1>7. ASSUME NEW j \in DOMAIN wire[p]
      PROVE  LET g == wire[p][j].header
             IN  /\ opened[p][j] = 0 /\ j # i
                       <=> Ahead(e, t.recvCounter, g) \/ HasSlot(t, g.dhPub, g.counter)
                 /\ ~(Ahead(e, t.recvCounter, g) /\ HasSlot(t, g.dhPub, g.counter))
  <2> DEFINE g == wire[p][j].header
  <2>1. /\ opened[p][j] = 0 <=> Ahead(e, s.recvCounter, g) \/ HasSlot(s, g.dhPub, g.counter)
        /\ ~(Ahead(e, s.recvCounter, g) /\ HasSlot(s, g.dhPub, g.counter))
    BY <1>4
  <2>2. HasSlot(t, g.dhPub, g.counter) <=> HasSlot(s, g.dhPub, g.counter) /\ j # i
    BY <1>3, <1>5
  <2>3. j = i => HasSlot(s, g.dhPub, g.counter)
    BY <1>6
  <2>4. t.recvCounter = s.recvCounter
    BY <1>3
  <2> HIDE DEF g
  <2>5. /\ opened[p][j] = 0 /\ j # i
              <=> Ahead(e, t.recvCounter, g) \/ HasSlot(t, g.dhPub, g.counter)
        /\ ~(Ahead(e, t.recvCounter, g) /\ HasSlot(t, g.dhPub, g.counter))
    BY <2>1, <2>2, <2>3, <2>4
  <2> QED
    BY <2>5 DEF g
<1>8. \A c \in Nat : c < t.recvCounter => e > 0 /\ Sent(wire[p], <<p, e - 1>>, c)
  BY <1>3, <1>4
<1>9. \A r, c : HasSlot(t, r, c) =>
         \E j \in DOMAIN wire[p] : /\ wire[p][j].header.dhPub = r
                                   /\ wire[p][j].header.counter = c
                                   /\ wire[p][j].key = t.skipped[r][c]
  BY <1>3, <1>4
<1> QED
  BY <1>7, <1>8, <1>9 DEF Kept, t, e, s, p

\* A message of the chain at hand: the keys before it are cached.
LEMMA CurrentKept ==
    ASSUME Inv, Located, NEW q \in Party, NEW i \in DOMAIN wire[Peer(q)], NEW t,
           LET h == wire[Peer(q)][i].header
               s == session[q]
           IN  /\ h.dhPub = s.dhRemote /\ s.recvCounter <= h.counter
               /\ t.recvCounter = h.counter + 1
               /\ Gains(s, t, h.dhPub, s.recvCounter .. (h.counter - 1), Chain(Peer(q), Seen(q) - 1))
    PROVE  Kept(q, i, t, Seen(q))
<1> DEFINE p == Peer(q)
           s == session[q]
           h == wire[p][i].header
           n == h.counter
           e == Seen(q)
           a == s.recvCounter
           root == Chain(p, e - 1)
<1>1. p \in Party /\ i \in DOMAIN wire[p]
  BY Peers
<1>2. a \in Nat /\ e \in Nat
  BY Numbers DEF Inv, Located
<1>3. /\ \A c \in Nat : c < a => e > 0 /\ Sent(wire[p], <<p, e - 1>>, c)
      /\ \A j \in DOMAIN wire[p] :
            LET g == wire[p][j].header
            IN  /\ opened[p][j] = 0 <=> Ahead(e, a, g) \/ HasSlot(s, g.dhPub, g.counter)
                /\ ~(Ahead(e, a, g) /\ HasSlot(s, g.dhPub, g.counter))
      /\ \A r, c : HasSlot(s, r, c) =>
            \E j \in DOMAIN wire[p] : /\ wire[p][j].header.dhPub = r
                                      /\ wire[p][j].header.counter = c
                                      /\ wire[p][j].key = s.skipped[r][c]
  BY DEF Located, Read, IsAhead
<1>4. /\ n \in Nat /\ h.dhPub = <<p, h.dhPub[2]>> /\ h.dhPub[2] \in Nat /\ h.dhPub # NoPub
      /\ \A c \in Nat : c < n => Sent(wire[p], h.dhPub, c)
      /\ \A j \in DOMAIN wire[p] :
            wire[p][j].header.dhPub = h.dhPub /\ wire[p][j].header.counter = n => j = i
  <2> DEFINE k == h.dhPub[2]
  <2> HIDE DEF p
  <2>1. /\ n \in Nat /\ h.dhPub = <<p, k>> /\ k \in Nat /\ h.dhPub # NoPub
        /\ \A c \in Nat : c < n => Sent(wire[p], <<p, k>>, c)
        /\ \A j \in DOMAIN wire[p] :
              wire[p][j].header.dhPub = h.dhPub /\ wire[p][j].header.counter = n => j = i
    BY <1>1, Places
  <2>2. \A c \in Nat : c < n => Sent(wire[p], h.dhPub, c)
    <3> HIDE DEF k, h, n
    <3> QED
      BY <2>1
  <2> QED
    BY <2>1, <2>2
<1>5. h.dhPub = s.dhRemote /\ a <= n /\ t.recvCounter = n + 1
      /\ Gains(s, t, h.dhPub, a .. (n - 1), root)
  OBVIOUS
<1>6. e > 0 /\ h.dhPub = <<p, e - 1>> /\ h.dhPub[2] = e - 1
  <2>1. s.dhRemote = IF e = 0 THEN NoPub ELSE <<p, e - 1>>
    BY DEF Located, Placed
  <2> HIDE DEF s, h, e, p
  <2> QED
    BY <1>2, <1>4, <1>5, <2>1
<1> HIDE DEF s, h, e, p, a, n, root
<1>7. \A c \in Nat : c < t.recvCounter => e > 0 /\ Sent(wire[p], <<p, e - 1>>, c)
  <2>1. Sent(wire[p], h.dhPub, n)
    BY <1>1 DEF Sent, n, h
  <2>2. \A c \in Nat : c < n + 1 => c < n \/ c = n
    BY <1>4
  <2> QED
    BY <1>4, <1>5, <1>6, <2>1, <2>2
<1>8. ASSUME NEW j \in DOMAIN wire[p]
      PROVE  LET g == wire[p][j].header
             IN  /\ opened[p][j] = 0 /\ j # i
                       <=> Ahead(e, t.recvCounter, g) \/ HasSlot(t, g.dhPub, g.counter)
                 /\ ~(Ahead(e, t.recvCounter, g) /\ HasSlot(t, g.dhPub, g.counter))
  <2> DEFINE g == wire[p][j].header
  <2>1. /\ opened[p][j] = 0 <=> Ahead(e, a, g) \/ HasSlot(s, g.dhPub, g.counter)
        /\ ~(Ahead(e, a, g) /\ HasSlot(s, g.dhPub, g.counter))
    BY <1>3
  <2>2. g.counter \in Nat /\ g.dhPub[2] \in Nat /\ g.dhPub = <<p, g.dhPub[2]>>
    BY <1>1, Places
  <2>3. j = i <=> g.dhPub = h.dhPub /\ g.counter = n
    BY <1>4 DEF h, n
  <2> HIDE DEF g
  <2>4. g.dhPub = h.dhPub <=> g.dhPub[2] + 1 = e
    <3>1. g.dhPub = h.dhPub <=> g.dhPub[2] = h.dhPub[2]
      BY <1>4, <2>2
    <3> QED
      BY <1>2, <1>4, <1>6, <2>2, <3>1
  <2>5. HasSlot(t, g.dhPub, g.counter) <=>
            \/ HasSlot(s, g.dhPub, g.counter)
            \/ g.dhPub = h.dhPub /\ g.counter \in a .. (n - 1)
    BY <1>5 DEF Gains
  <2>6. g.counter \in a .. (n - 1) <=> g.counter >= a /\ g.counter < n
    BY <1>2, <1>4, <2>2
  <2>7. g.counter >= n + 1 <=> g.counter >= a /\ ~(g.counter < n) /\ g.counter # n
    BY <1>2, <1>4, <1>5, <2>2
  <2>8. Ahead(e, a, g) <=> g.dhPub[2] >= e \/ (g.dhPub = h.dhPub /\ g.counter >= a)
    BY <2>4 DEF Ahead
  <2>9. Ahead(e, t.recvCounter, g) <=> g.dhPub[2] >= e \/ (g.dhPub = h.dhPub /\ g.counter >= n + 1)
    BY <1>5, <2>4 DEF Ahead
  <2>10. g.dhPub[2] >= e => g.dhPub # h.dhPub
    BY <1>2, <2>2, <2>4
  <2>12. n >= a /\ ~(n < n)
    BY <1>2, <1>4, <1>5
  <2>11. /\ opened[p][j] = 0 /\ j # i
              <=> Ahead(e, t.recvCounter, g) \/ HasSlot(t, g.dhPub, g.counter)
         /\ ~(Ahead(e, t.recvCounter, g) /\ HasSlot(t, g.dhPub, g.counter))
    BY <2>1, <2>3, <2>5, <2>6, <2>7, <2>8, <2>9, <2>10, <2>12
  <2> QED
    BY <2>11 DEF g
<1>9. ASSUME NEW r, NEW c, HasSlot(t, r, c)
      PROVE  \E j \in DOMAIN wire[p] : /\ wire[p][j].header.dhPub = r
                                       /\ wire[p][j].header.counter = c
                                       /\ wire[p][j].key = t.skipped[r][c]
  <2>1. CASE r = h.dhPub /\ c \in a .. (n - 1)
    <3>1. c \in Nat /\ c < n
      BY <1>2, <1>4, <2>1
    <3>2. PICK j \in DOMAIN wire[p] : wire[p][j].header.dhPub = r /\ wire[p][j].header.counter = c
      BY <1>4, <2>1, <3>1 DEF Sent
    <3>3. wire[p][j].key = KeyOf(Chain(p, r[2]), c)
      BY <1>1, <3>2, Places
    <3>4. r[2] = e - 1
      BY <1>6, <2>1
    <3>5. t.skipped[r][c] = KeyOf(root, c)
      BY <1>5, <2>1 DEF Gains
    <3> QED
      BY <3>2, <3>3, <3>4, <3>5 DEF root
  <2>2. CASE ~(r = h.dhPub /\ c \in a .. (n - 1))
    <3>1. HasSlot(s, r, c)
      BY <1>5, <1>9, <2>2 DEF Gains
    <3>2. t.skipped[r][c] = s.skipped[r][c]
      BY <1>5, <2>2, <3>1 DEF Gains
    <3> QED
      BY <1>3, <3>1, <3>2
  <2> QED
    BY <2>1, <2>2
<1> QED
  BY <1>7, <1>8, <1>9 DEF Kept, e, p

\* The first message of the next chain: the keys left on the old one are cached,
\* and the keys before it on the new one.
LEMMA TurnKept ==
    ASSUME Inv, Located, NEW q \in Party, NEW i \in DOMAIN wire[Peer(q)], NEW t, NEW v,
           LET h == wire[Peer(q)][i].header
               s == session[q]
           IN  /\ h.dhPub[2] = Seen(q)
               /\ t.recvCounter = h.counter + 1
               /\ Gains(s, v, s.dhRemote, Closing(s, h), Chain(Peer(q), Seen(q) - 1))
               /\ Gains(v, t, h.dhPub, 0 .. (h.counter - 1), Chain(Peer(q), Seen(q)))
    PROVE  Kept(q, i, t, Seen(q) + 1)
<1> DEFINE p == Peer(q)
           s == session[q]
           h == wire[p][i].header
           n == h.counter
           e == Seen(q)
           a == s.recvCounter
           T == Turn(q)
           closing == Closing(s, h)
           root == Chain(p, e - 1)
           next == Chain(p, e)
<1>1. p \in Party /\ i \in DOMAIN wire[p]
  BY Peers
<1>2. a \in Nat /\ e \in Nat /\ T \in Nat
  BY Numbers DEF Inv, Located
<1>3. /\ \A j \in DOMAIN wire[p] :
            LET g == wire[p][j].header
            IN  /\ opened[p][j] = 0 <=> Ahead(e, a, g) \/ HasSlot(s, g.dhPub, g.counter)
                /\ ~(Ahead(e, a, g) /\ HasSlot(s, g.dhPub, g.counter))
      /\ \A r, c : HasSlot(s, r, c) =>
            \E j \in DOMAIN wire[p] : /\ wire[p][j].header.dhPub = r
                                      /\ wire[p][j].header.counter = c
                                      /\ wire[p][j].key = s.skipped[r][c]
  BY DEF Located, Read, IsAhead
<1>4. /\ n \in Nat /\ h.dhPub = <<p, e>> /\ h.prevN \in Nat
      /\ \A c \in Nat : /\ c < n => Sent(wire[p], <<p, e>>, c)
                        /\ c < h.prevN <=> e > 0 /\ Sent(wire[p], <<p, e - 1>>, c)
      /\ \A j \in DOMAIN wire[p] :
            wire[p][j].header.dhPub = h.dhPub /\ wire[p][j].header.counter = n => j = i
  <2>1. h.dhPub[2] = e
    OBVIOUS
  <2> HIDE DEF p, e
  <2> QED
    BY <1>1, <2>1, Places
<1>5. /\ t.recvCounter = n + 1 /\ Gains(s, v, s.dhRemote, closing, root)
      /\ Gains(v, t, h.dhPub, 0 .. (n - 1), next)
  OBVIOUS
<1>6. /\ s.dhRemote = IF e = 0 THEN NoPub ELSE <<p, e - 1>>
      /\ s.recvChain = IF T = 0 THEN {} ELSE {KeyOf(root, a)}
  BY DEF Located, Placed
<1>7. p = Alice <=> q # Alice
  BY Peers
<1>8. e = IF q = Alice THEN T + 1 ELSE T
  BY DEF Seen, Expected
<1> HIDE DEF s, h, e, p, a, n, root, next, T
\* What the old chain lacks is exactly what closing it caches.
<1>9. /\ \A c : c \in closing => e > 0 /\ c \in Nat /\ c >= a /\ c < h.prevN
      /\ \A j \in DOMAIN wire[p] :
            LET g == wire[p][j].header
            IN  g.dhPub[2] + 1 = e /\ g.counter >= a => g.counter \in closing
  <2>1. ASSUME e = 0 PROVE closing = {}
    BY <1>6, <2>1 DEF Closing
  <2>2. ASSUME e > 0 PROVE closing = IF T = 0 THEN {} ELSE a .. (h.prevN - 1)
    <3>1. s.dhRemote # NoPub
      <4>1. e # 0
        BY <1>2, <2>2
      <4> QED
        BY <1>6, <4>1 DEF NoPub
    <3>2. closing = IF s.recvChain = {} THEN {} ELSE a .. (h.prevN - 1)
      BY <3>1 DEF Closing, ToSkip, NoChain, a
    <3> QED
      BY <1>6, <3>2
  <2>3. ASSUME NEW c \in closing PROVE e > 0 /\ c \in Nat /\ c >= a /\ c < h.prevN
    <3>1. e > 0 /\ T # 0
      BY <1>2, <2>1, <2>2, <2>3
    <3>2. c \in a .. (h.prevN - 1)
      BY <2>2, <2>3, <3>1
    <3> HIDE DEF closing
    <3> QED
      BY <1>2, <1>4, <3>1, <3>2
  <2>4. ASSUME NEW j \in DOMAIN wire[p],
               wire[p][j].header.dhPub[2] + 1 = e, wire[p][j].header.counter >= a
        PROVE  wire[p][j].header.counter \in closing
    <3> DEFINE g == wire[p][j].header
    <3>1. g.dhPub[2] \in Nat /\ g.dhPub = <<p, g.dhPub[2]>> /\ g.counter \in Nat
          /\ (p # Alice => g.dhPub[2] > 0)
      BY <1>1, Places
    <3>2. g.dhPub[2] + 1 = e /\ g.counter >= a
      BY <2>4
    <3>3. Sent(wire[p], g.dhPub, g.counter)
      BY DEF Sent
    <3> HIDE DEF g, closing
    <3>4. e > 0 /\ T # 0 /\ g.dhPub[2] = e - 1
      BY <1>2, <1>7, <1>8, <3>1, <3>2
    <3>5. g.counter < h.prevN
      BY <1>4, <3>1, <3>3, <3>4
    <3>6. g.counter \in a .. (h.prevN - 1)
      BY <1>2, <1>4, <3>1, <3>2, <3>5
    <3> QED
      BY <2>2, <3>4, <3>6 DEF g
  <2> QED
    BY <2>3, <2>4
<1> HIDE DEF closing
<1>10. \A c \in Nat : c < t.recvCounter => e + 1 > 0 /\ Sent(wire[p], <<p, (e + 1) - 1>>, c)
  <2>1. Sent(wire[p], <<p, e>>, n)
    BY <1>1, <1>4 DEF Sent, n, h
  <2>2. \A c \in Nat : c < n + 1 => c < n \/ c = n
    BY <1>4
  <2>3. (e + 1) - 1 = e /\ e + 1 > 0
    BY <1>2
  <2> QED
    BY <1>4, <1>5, <2>1, <2>2, <2>3
<1>11. ASSUME NEW r, NEW c
       PROVE  HasSlot(t, r, c) <=> \/ HasSlot(s, r, c)
                                   \/ r = s.dhRemote /\ c \in closing
                                   \/ r = h.dhPub /\ c \in 0 .. (n - 1)
  BY <1>5 DEF Gains
<1>12. ASSUME NEW j \in DOMAIN wire[p]
       PROVE  LET g == wire[p][j].header
              IN  /\ opened[p][j] = 0 /\ j # i
                        <=> Ahead(e + 1, t.recvCounter, g) \/ HasSlot(t, g.dhPub, g.counter)
                  /\ ~(Ahead(e + 1, t.recvCounter, g) /\ HasSlot(t, g.dhPub, g.counter))
  <2> DEFINE g == wire[p][j].header
             k == g.dhPub[2]
  <2>1. /\ opened[p][j] = 0 <=> Ahead(e, a, g) \/ HasSlot(s, g.dhPub, g.counter)
        /\ ~(Ahead(e, a, g) /\ HasSlot(s, g.dhPub, g.counter))
    BY <1>3
  <2>2. g.counter \in Nat /\ k \in Nat /\ g.dhPub = <<p, k>> /\ k <= Turn(p)
        /\ Turn(p) \in Nat
    BY <1>1, Places
  <2>3. j = i <=> g.dhPub = h.dhPub /\ g.counter = n
    BY <1>4 DEF h, n
  <2>4. k + 1 = e /\ g.counter >= a => g.counter \in closing
    BY <1>9
  <2>5. k <= e
    <3>1. Turn(p) \in {e - 1, e}
      BY DEF Located, InTurn, e, p
    <3> HIDE DEF k
    <3> QED
      BY <1>2, <2>2, <3>1
  <2> HIDE DEF g
  <2>6. g.dhPub = h.dhPub <=> k = e
    BY <1>4, <2>2
  <2>7. e > 0 => (g.dhPub = s.dhRemote <=> k + 1 = e)
    <3>1. ASSUME e > 0 PROVE s.dhRemote = <<p, e - 1>>
      <4>1. e # 0
        BY <1>2, <3>1
      <4> QED
        BY <1>6, <4>1
    <3>2. ASSUME e > 0 PROVE g.dhPub = s.dhRemote <=> k = e - 1
      BY <2>2, <3>1, <3>2
    <3> HIDE DEF k
    <3>3. k = e - 1 <=> k + 1 = e
      BY <1>2, <2>2
    <3> QED
      BY <3>2, <3>3
  <2> HIDE DEF k
  <2>8. g.dhPub = s.dhRemote /\ g.counter \in closing <=> k + 1 = e /\ g.counter >= a
    <3>1. k + 1 = e => e > 0
      BY <1>2, <2>2
    <3>2. g.counter \in closing => e > 0 /\ g.counter >= a
      BY <1>9
    <3> QED
      BY <2>4, <2>7, <3>1, <3>2
  <2>9. g.counter \in 0 .. (n - 1) <=> g.counter < n
    BY <1>4, <2>2
  <2>10. Ahead(e, a, g) <=> k = e \/ (k + 1 = e /\ g.counter >= a)
    <3>1. k >= e <=> k = e
      BY <1>2, <2>2, <2>5
    <3> QED
      BY <3>1 DEF Ahead, k
  <2>11. Ahead(e + 1, t.recvCounter, g) <=> k = e /\ g.counter >= n + 1
    <3>1. ~(k >= e + 1) /\ (k + 1 = e + 1 <=> k = e)
      BY <1>2, <2>2, <2>5
    <3> QED
      BY <1>5, <3>1 DEF Ahead, k
  <2>12. g.counter >= n + 1 <=> ~(g.counter < n) /\ g.counter # n
    BY <1>4, <2>2
  <2>13. ~(k = e /\ k + 1 = e) /\ ~(n < n)
    BY <1>2, <1>4, <2>2
  <2>14. HasSlot(t, g.dhPub, g.counter) <=>
            \/ HasSlot(s, g.dhPub, g.counter)
            \/ k + 1 = e /\ g.counter >= a
            \/ k = e /\ g.counter < n
    BY <1>11, <2>6, <2>8, <2>9
  <2>15. /\ opened[p][j] = 0 /\ j # i
               <=> Ahead(e + 1, t.recvCounter, g) \/ HasSlot(t, g.dhPub, g.counter)
         /\ ~(Ahead(e + 1, t.recvCounter, g) /\ HasSlot(t, g.dhPub, g.counter))
    BY <2>1, <2>3, <2>6, <2>10, <2>11, <2>12, <2>13, <2>14
  <2> QED
    BY <2>15 DEF g
<1>13. ASSUME NEW r, NEW c, HasSlot(t, r, c)
       PROVE  \E j \in DOMAIN wire[p] : /\ wire[p][j].header.dhPub = r
                                        /\ wire[p][j].header.counter = c
                                        /\ wire[p][j].key = t.skipped[r][c]
  <2>1. CASE r = h.dhPub /\ c \in 0 .. (n - 1)
    <3>1. c \in Nat /\ c < n /\ r = <<p, e>>
      BY <1>4, <2>1
    <3>2. PICK j \in DOMAIN wire[p] : wire[p][j].header.dhPub = r /\ wire[p][j].header.counter = c
      BY <1>4, <3>1 DEF Sent
    <3>3. wire[p][j].key = KeyOf(Chain(p, r[2]), c)
      BY <1>1, <3>2, Places
    <3>4. r[2] = e
      BY <3>1
    <3>5. t.skipped[r][c] = KeyOf(next, c)
      BY <1>5, <2>1 DEF Gains
    <3> QED
      BY <3>2, <3>3, <3>4, <3>5 DEF next
  <2>2. CASE ~(r = h.dhPub /\ c \in 0 .. (n - 1)) /\ r = s.dhRemote /\ c \in closing
    <3>1. e > 0 /\ c \in Nat /\ c < h.prevN
      BY <1>9, <2>2
    <3>2. r = <<p, e - 1>>
      <4>1. e # 0
        BY <1>2, <3>1
      <4> QED
        BY <1>6, <2>2, <4>1
    <3>3. PICK j \in DOMAIN wire[p] : wire[p][j].header.dhPub = r /\ wire[p][j].header.counter = c
      BY <1>4, <3>1, <3>2 DEF Sent
    <3>4. wire[p][j].key = KeyOf(Chain(p, r[2]), c)
      BY <1>1, <3>3, Places
    <3>5. r[2] = e - 1
      BY <3>2
    <3>6. v.skipped[r][c] = KeyOf(root, c) /\ HasSlot(v, r, c)
      BY <1>5, <2>2 DEF Gains
    <3>7. t.skipped[r][c] = v.skipped[r][c]
      BY <1>5, <2>2, <3>6 DEF Gains
    <3> QED
      BY <3>3, <3>4, <3>5, <3>6, <3>7 DEF root
  <2>3. CASE ~(r = h.dhPub /\ c \in 0 .. (n - 1)) /\ ~(r = s.dhRemote /\ c \in closing)
    <3>1. HasSlot(v, r, c) /\ t.skipped[r][c] = v.skipped[r][c]
      BY <1>5, <1>13, <2>3 DEF Gains
    <3>2. HasSlot(s, r, c) /\ v.skipped[r][c] = s.skipped[r][c]
      BY <1>5, <2>3, <3>1 DEF Gains
    <3> QED
      BY <1>3, <3>1, <3>2
  <2> QED
    BY <2>1, <2>2, <2>3
<1> QED
  BY <1>10, <1>12, <1>13 DEF Kept, e, p

LEMMA KeptReads ==
    ASSUME NEW q \in Party, NEW i, wire' = wire, Kept(q, i, session'[q], Seen(q)'),
           \A j \in DOMAIN wire[Peer(q)] :
               opened'[Peer(q)][j] = IF j = i THEN 1 ELSE opened[Peer(q)][j]
    PROVE  Read(q)'
<1> DEFINE p == Peer(q)
           t == session'[q]
<1>1. \A j \in DOMAIN wire[p] : opened'[p][j] = 0 <=> opened[p][j] = 0 /\ j # i
  OBVIOUS
<1>2. \A h : IsAhead(q, h)' <=> Ahead(Seen(q)', t.recvCounter, h)
  BY DEF IsAhead, Ahead
<1>3. /\ \A c \in Nat : c < t.recvCounter => Seen(q)' > 0 /\ Sent(wire[p], <<p, Seen(q)' - 1>>, c)
      /\ \A j \in DOMAIN wire[p] :
            LET h == wire[p][j].header
            IN  /\ opened[p][j] = 0 /\ j # i
                      <=> Ahead(Seen(q)', t.recvCounter, h) \/ HasSlot(t, h.dhPub, h.counter)
                /\ ~(Ahead(Seen(q)', t.recvCounter, h) /\ HasSlot(t, h.dhPub, h.counter))
      /\ \A r, c : HasSlot(t, r, c) =>
            \E j \in DOMAIN wire[p] : /\ wire[p][j].header.dhPub = r
                                      /\ wire[p][j].header.counter = c
                                      /\ wire[p][j].key = t.skipped[r][c]
  BY DEF Kept
<1>4. \A j \in DOMAIN wire[p] :
          LET h == wire[p][j].header
          IN  /\ opened'[p][j] = 0 <=> IsAhead(q, h)' \/ HasSlot(t, h.dhPub, h.counter)
              /\ ~(IsAhead(q, h)' /\ HasSlot(t, h.dhPub, h.counter))
  BY <1>1, <1>2, <1>3
<1> QED
  BY <1>3, <1>4 DEF Read

\* A message that turns the ratchet is of the chain the receiver expects, and the
\* sender is on that chain.
LEMMA TurnsInTurn ==
    ASSUME Inv, Located, NEW q \in Party, NEW i \in DOMAIN wire[Peer(q)],
           wire[Peer(q)][i].key.root = RecvRoot(session[q], wire[Peer(q)][i].header.dhPub)
    PROVE  /\ wire[Peer(q)][i].header.dhPub[2] = Seen(q) /\ Turn(Peer(q)) = Seen(q)
           /\ RecvRoot(session[q], wire[Peer(q)][i].header.dhPub) = Chain(Peer(q), Seen(q))
           /\ Append(Chain(Peer(q), Seen(q)), {<<q, Turn(q) + 1>>, <<Peer(q), Seen(q)>>})
                 = Chain(q, Turn(q) + 1)
<1> DEFINE p == Peer(q)
           h == wire[p][i].header
           k == h.dhPub[2]
           T == Turn(q)
           e == Seen(q)
<1>1. p \in Party /\ T \in Nat /\ e \in Nat /\ e = Expected(q, T) /\ i \in DOMAIN wire[p]
  BY Peers, Numbers DEF Inv, Located, Seen
<1>2. Turn(p) \in {e - 1, e}
  BY DEF Located, InTurn
<1>3. session[q].rootKey = Chain(q, T) /\ session[q].dhSelf = <<q, T>>
  BY DEF Located, Placed
<1>4. /\ Append(Chain(p, e), {<<q, T + 1>>, <<p, e>>}) = Chain(q, T + 1)
      /\ \A j \in Nat : \A x : Append(Chain(q, T), x) = Chain(p, j) => j = e
  <2> HIDE DEF T, e, p
  <2>1. T \in Nat
    BY <1>1
  <2>2. /\ Append(Chain(Peer(q), Expected(q, T)), {<<q, T + 1>>, <<Peer(q), Expected(q, T)>>})
              = Chain(q, T + 1)
        /\ \A j \in Nat : \A x : Append(Chain(q, T), x) = Chain(Peer(q), j) => j = Expected(q, T)
    BY <2>1, ChainsMeet
  <2> QED
    BY <1>1, <2>2 DEF p
<1>5. k \in Nat /\ k <= Turn(p) /\ Turn(p) \in Nat /\ wire[p][i].key = KeyOf(Chain(p, k), h.counter)
  <2> HIDE DEF p
  <2> QED
    BY <1>1, Places
<1>6. RecvRoot(session[q], h.dhPub) = Append(Chain(q, T), {<<q, T>>, h.dhPub})
  BY <1>3 DEF RecvRoot
<1>7. wire[p][i].key.root = Chain(p, k)
  BY <1>5 DEF KeyOf
<1>8. Append(Chain(q, T), {<<q, T>>, h.dhPub}) = Chain(p, k)
  BY <1>6, <1>7
<1> HIDE DEF k, p, h, T, e
<1>9. k = e
  BY <1>4, <1>5, <1>8
<1>10. Turn(p) = e
  BY <1>1, <1>2, <1>5, <1>9
<1> QED
  BY <1>4, <1>6, <1>8, <1>9, <1>10 DEF k, p, h, T, e

LEMMA DecryptLocated ==
    ASSUME Inv, Located, NEW q \in Party, NEW i, Decrypt(q, i)
    PROVE  Located'
<1> DEFINE p == Peer(q)
           m == wire[p][i]
           s == session[q]
           t == session'[q]
           f == FreshKey(q)
           h == m.header
           n == h.counter
           T == Turn(q)
           e == Seen(q)
           root == Chain(p, e - 1)
<1>1. /\ p \in Party /\ p # q /\ Peer(p) = q /\ \A r \in Party : r = p \/ r = q
      /\ i \in DOMAIN wire[p] /\ wire' = wire
      /\ t = AfterDecrypt(s, m, f) /\ session'[p] = session[p]
      /\ opened'[q] = opened[q]
      /\ \A j \in DOMAIN wire[p] : opened'[p][j] = IF j = i THEN 1 ELSE opened[p][j]
      /\ nextKey'[p] = nextKey[p]
      /\ nextKey'[q] = IF StepsRatchet(s, h) THEN nextKey[q] + 1 ELSE nextKey[q]
      /\ \E K : /\ IsRatchetState(s, K) /\ m \in Message(K)
                /\ \E g \in K : Opens(s, m, g) /\ AfterDecrypt(s, m, f) = AfterDecrypt(s, m, g)
                /\ StepsRatchet(s, h) => f \in K
      /\ Opens(s, m, f) /\ m.key.n = n /\ Stands(s, root)
  BY Decrypting
<1>2. PICK K : /\ IsRatchetState(s, K) /\ m \in Message(K)
               /\ \E g \in K : Opens(s, m, g) /\ AfterDecrypt(s, m, f) = AfterDecrypt(s, m, g)
               /\ StepsRatchet(s, h) => f \in K
  BY <1>1
<1>3. PICK g \in K : Opens(s, m, g) /\ t = AfterDecrypt(s, m, g)
  BY <1>1, <1>2
<1>4. Placed(q) /\ Written(q) /\ Capped(s) /\ InTurn /\ T \in Nat /\ e \in Nat
      /\ Turn(p) \in Nat /\ Turn(p) \in {e - 1, e}
  BY <1>1, Numbers DEF Inv, Located, InTurn
<1>5. Placed(p)' /\ Written(p)' /\ Read(p)' /\ Capped(session[p])'
  BY <1>1, OtherStays
<1>6. Capped(t)
  <2> HIDE DEF s, t, m, root
  <2> QED
    BY <1>1, <1>2, <1>3, <1>4, DecryptCapped
<1>7. nextKey \in [Party -> Nat] /\ nextKey[q] \in Nat
  BY DEF Inv, TypeOK
\* The ratchet did not turn.
<1>8. ASSUME ~StepsRatchet(s, h), SealsAlike(s, t), Kept(q, i, t, e),
             t.recvChain = IF T = 0 THEN {} ELSE {KeyOf(root, t.recvCounter)}
      PROVE  InTurn' /\ Placed(q)' /\ Written(q)' /\ Read(q)'
  <2>1. nextKey'[q] = nextKey[q]
    BY <1>1, <1>8
  <2>2. \A r \in Party : nextKey'[r] = nextKey[r]
    BY <1>1, <2>1
  <2>3. \A r \in Party : Turn(r)' = Turn(r) /\ Seen(r)' = Seen(r)
    BY <2>2 DEF Turn, Seen, Expected
  <2>4. InTurn'
    BY <1>4, <2>2, <2>3, Peers DEF InTurn
  <2>5. /\ t.dhSelf = s.dhSelf /\ t.dhRemote = s.dhRemote /\ t.rootKey = s.rootKey
        /\ t.sendChain = s.sendChain /\ t.sendCounter = s.sendCounter
        /\ t.prevSendCounter = s.prevSendCounter
    BY <1>8 DEF SealsAlike, SameOtherwise
  <2>6. Turn(q)' = Turn(q) /\ Seen(q)' = Seen(q)
    BY <2>3
  <2>7. Placed(q)'
    <3>1. /\ s.dhSelf = <<q, T>> /\ s.rootKey = Chain(q, T)
          /\ s.dhRemote = IF e = 0 THEN NoPub ELSE <<p, e - 1>>
          /\ s.sendChain \subseteq {KeyOf(Chain(q, T), s.sendCounter)}
          /\ q # Alice /\ T = 0 => s.sendChain = {}
      BY <1>4 DEF Placed
    <3> QED
      BY <1>8, <2>5, <2>6, <3>1 DEF Placed
  <2>8. Written(q)'
    <3>1. Counts(q)'
      BY <1>1, <1>4, <2>5, <2>6 DEF Written, Counts
    <3>2. Ordered(q)'
      BY <1>1, <1>4 DEF Written, Ordered, Before
    <3>3. \A j \in DOMAIN wire'[q] : OnChain(q, j)'
      BY <1>1, <1>4, <2>6 DEF Written, OnChain
    <3> QED
      BY <3>1, <3>2, <3>3 DEF Written
  <2>9. Read(q)'
    <3>1. Kept(q, i, session'[q], Seen(q)')
      BY <1>8, <2>6
    <3> QED
      BY <1>1, <3>1, KeptReads
  <2> QED
    BY <2>4, <2>7, <2>8, <2>9
<1>9. s.recvChain = IF T = 0 THEN {} ELSE {KeyOf(root, s.recvCounter)}
  BY <1>4 DEF Placed
\* A cached key.
<1>10. CASE HasSkipped(s, h)
  <2>1. t = DropSkipped(s, h) /\ ~StepsRatchet(s, h)
    BY <1>1, <1>10 DEF AfterDecrypt, StepsRatchet
  <2>2. Kept(q, i, t, e)
    BY <1>1, <1>10, <2>1, CachedKept
  <2>3. SealsAlike(s, t) /\ t.recvChain = s.recvChain /\ t.recvCounter = s.recvCounter
    <3> HIDE DEF s, t, h
    <3> QED
      BY <1>2, <1>10, <2>1, DropLoses
  <2>4. InTurn' /\ Placed(q)' /\ Written(q)' /\ Read(q)'
    BY <1>8, <1>9, <2>1, <2>2, <2>3
  <2> QED
    BY <1>1, <1>5, <1>6, <2>4 DEF Located
\* The chain at hand.
<1>11. CASE ~HasSkipped(s, h) /\ h.dhPub = s.dhRemote
  <2>1. ~StepsRatchet(s, h)
    BY <1>11 DEF StepsRatchet
  <2>2. /\ s.recvChain # {} /\ s.recvCounter <= n
        /\ SealsAlike(s, t)
        /\ t.recvCounter = n + 1 /\ t.recvChain = {KeyOf(root, n + 1)}
        /\ Gains(s, t, h.dhPub, s.recvCounter .. (n - 1), root)
    <3> HIDE DEF s, t, m, root
    <3> QED
      BY <1>1, <1>2, <1>3, <1>11, TakesNext
  <2>3. Kept(q, i, t, e)
    <3>1. LET hh == wire[Peer(q)][i].header
              ss == session[q]
          IN  /\ hh.dhPub = ss.dhRemote /\ ss.recvCounter <= hh.counter
              /\ t.recvCounter = hh.counter + 1
              /\ Gains(ss, t, hh.dhPub, ss.recvCounter .. (hh.counter - 1), Chain(Peer(q), Seen(q) - 1))
      BY <1>11, <2>2
    <3>2. i \in DOMAIN wire[Peer(q)]
      BY <1>1
    <3> HIDE DEF t
    <3> QED
      BY <3>1, <3>2, CurrentKept
  <2>4. T # 0
    BY <1>9, <2>2
  <2>5. InTurn' /\ Placed(q)' /\ Written(q)' /\ Read(q)'
    BY <1>8, <2>1, <2>2, <2>3, <2>4
  <2> QED
    BY <1>1, <1>5, <1>6, <2>5 DEF Located
\* The next chain.
<1>12. CASE ~HasSkipped(s, h) /\ h.dhPub # s.dhRemote
  <2> DEFINE recv == RecvRoot(s, h.dhPub)
  <2>1. StepsRatchet(s, h) /\ f \in K
    BY <1>2, <1>12 DEF StepsRatchet
  <2>2. /\ m.key = KeyOf(recv, n)
        /\ t.dhSelf = f /\ t.dhRemote = h.dhPub
        /\ t.rootKey = Append(recv, {f, h.dhPub})
        /\ t.sendChain = {KeyOf(t.rootKey, 0)}
        /\ t.sendCounter = 0 /\ t.prevSendCounter = s.sendCounter
        /\ t.recvCounter = n + 1 /\ t.recvChain = {KeyOf(recv, n + 1)}
        /\ \E v : /\ Gains(s, v, s.dhRemote, Closing(s, h), root)
                  /\ Gains(v, t, h.dhPub, 0 .. (n - 1), recv)
    <3>1. t = AfterDecrypt(s, m, f) /\ Opens(s, m, f) /\ m.key.n = m.header.counter
          /\ Stands(s, root)
      BY <1>1
    <3>2. /\ IsRatchetState(s, K) /\ m \in Message(K) /\ f \in K
          /\ m.header.dhPub # s.dhRemote /\ ~HasSkipped(s, m.header)
      BY <1>2, <1>12, <2>1
    <3> HIDE DEF s, t, m, f, root
    <3>3. Turns(s, AfterDecrypt(s, m, f), m, f, root)
      BY <3>1, <3>2, TurnsNext
    <3>4. Turns(s, t, m, f, root)
      BY <3>1, <3>3
    <3> QED
      BY <3>4 DEF Turns
  <2>3. m.key.root = recv
    <3>1. m.key = KeyOf(recv, n)
      BY <2>2
    <3> HIDE DEF m, recv, n
    <3> QED
      BY <3>1 DEF KeyOf
  <2>4. /\ h.dhPub[2] = e /\ Turn(p) = e /\ recv = Chain(p, e)
        /\ Append(Chain(p, e), {<<q, T + 1>>, <<p, e>>}) = Chain(q, T + 1)
    BY <1>1, <2>3, TurnsInTurn
  <2>5. h.dhPub = <<p, e>>
    <3>1. h.dhPub = <<p, h.dhPub[2]>>
      <4> HIDE DEF p
      <4> QED
        BY <1>1, Places
    <3> HIDE DEF h
    <3> QED
      BY <2>4, <3>1
  <2>6. f = <<q, T + 1>>
    <3>1. nextKey[q] = T + 1
      BY <1>7 DEF Turn
    <3> QED
      BY <3>1 DEF FreshKey
  <2>7. Turn(q)' = T + 1 /\ Seen(q)' = e + 1 /\ nextKey'[q] > 0 /\ Turn(p)' = Turn(p)
        /\ Seen(p)' = Seen(p) /\ T + 1 # 0 /\ e + 1 # 0 /\ (e + 1) - 1 = e /\ (T + 1) - 1 = T
    <3>1. nextKey'[q] = nextKey[q] + 1 /\ nextKey'[p] = nextKey[p]
      BY <1>1, <2>1
    <3>2. Turn(q)' = nextKey'[q] - 1 /\ T = nextKey[q] - 1 /\ Turn(p)' = Turn(p)
          /\ Seen(p)' = Seen(p)
      BY <3>1 DEF Turn, Seen, Expected
    <3>3. Turn(q)' = T + 1 /\ nextKey'[q] > 0
      BY <1>4, <1>7, <3>1, <3>2
    <3>4. e = (IF q = Alice THEN T + 1 ELSE T) /\ Seen(q)' = (IF q = Alice THEN T + 1 + 1 ELSE T + 1)
      BY <3>3 DEF Seen, Expected
    <3> HIDE DEF T, e
    <3> QED
      BY <1>4, <3>2, <3>3, <3>4
  <2>8. InTurn'
    <3>1. Turn(p)' \in {Seen(q)' - 1, Seen(q)'}
      BY <2>4, <2>7
    <3>2. Turn(q)' = Seen(p)'
      <4>1. Seen(p) = IF p = Alice THEN e + 1 ELSE e
        BY <2>4 DEF Seen, Expected
      <4>2. e = IF q = Alice THEN T + 1 ELSE T
        BY DEF Seen, Expected
      <4>3. p = Alice <=> q # Alice
        BY Peers
      <4> HIDE DEF T, e, p
      <4> QED
        BY <1>4, <2>7, <4>1, <4>2, <4>3
    <3>3. nextKey'[p] > 0
      BY <1>1, <1>4 DEF InTurn
    <3> QED
      BY <1>1, <2>7, <3>1, <3>2, <3>3 DEF InTurn
  <2>9. Placed(q)'
    <3>1. t.rootKey = Chain(q, T + 1)
      BY <2>2, <2>4, <2>5, <2>6
    <3>2. t.sendChain = {KeyOf(Chain(q, T + 1), t.sendCounter)}
      BY <2>2, <3>1
    <3>3. t.recvChain = {KeyOf(Chain(p, e), t.recvCounter)}
      BY <2>2, <2>4
    <3>4. t.dhSelf = <<q, T + 1>> /\ t.dhRemote = <<p, e>>
      BY <2>2, <2>5, <2>6
    <3> DEFINE T1 == T + 1
               e1 == e + 1
    <3>5. Turn(q)' = T1 /\ Seen(q)' = e1 /\ T1 # 0 /\ e1 # 0 /\ e1 - 1 = e
      BY <2>7
    <3>6. t.rootKey = Chain(q, T1) /\ t.dhSelf = <<q, T1>>
          /\ t.sendChain = {KeyOf(Chain(q, T1), t.sendCounter)}
      BY <3>1, <3>2, <3>4
    <3> HIDE DEF T1, e1
    <3> QED
      BY <3>3, <3>4, <3>5, <3>6 DEF Placed
  <2>10. Written(q)'
    <3>1. \A j \in DOMAIN wire[q] : OnChain(q, j)
      BY <1>4 DEF Written
    <3>2. ASSUME NEW c \in Nat PROVE ~Sent(wire[q], <<q, T + 1>>, c)
      <4>1. ASSUME NEW j \in DOMAIN wire[q], wire[q][j].header.dhPub = <<q, T + 1>> PROVE FALSE
        <5>1. wire[q][j].header.dhPub[2] \in 0..T
          BY <3>1 DEF OnChain
        <5>2. wire[q][j].header.dhPub[2] = T + 1
          BY <4>1
        <5> HIDE DEF T
        <5> QED
          BY <1>4, <5>1, <5>2
      <4> QED
        BY <4>1 DEF Sent
    <3>3. Counts(q)'
      <4> SUFFICES ASSUME NEW c \in Nat
                   PROVE  /\ c < t.sendCounter <=> Sent(wire'[q], <<q, Turn(q)'>>, c)
                          /\ c < t.prevSendCounter
                                <=> Turn(q)' > 0 /\ Sent(wire'[q], <<q, Turn(q)' - 1>>, c)
        BY DEF Counts
      <4>1. c < s.sendCounter <=> Sent(wire[q], <<q, T>>, c)
        BY <1>4 DEF Written, Counts
      <4>2. ~(c < t.sendCounter) /\ Turn(q)' > 0 /\ Turn(q)' - 1 = T
        <5>1. t.sendCounter = 0 /\ T \in Nat /\ Turn(q)' = T + 1
          BY <1>4, <2>2, <2>7
        <5> HIDE DEF t, T
        <5> QED
          BY <5>1
      <4> HIDE DEF s, t, T
      <4> QED
        BY <1>1, <2>2, <2>7, <3>2, <4>1, <4>2
    <3>4. Ordered(q)'
      BY <1>1, <1>4 DEF Written, Ordered, Before
    <3>5. \A j \in DOMAIN wire'[q] : OnChain(q, j)'
      <4> SUFFICES ASSUME NEW j \in DOMAIN wire[q] PROVE OnChain(q, j)'
        BY <1>1
      <4>1. OnChain(q, j)
        BY <3>1
      <4>2. wire[q][j].header.dhPub[2] \in 0..Turn(q) => wire[q][j].header.dhPub[2] \in 0..Turn(q)'
        <5>1. \A x : x \in 0..T => x \in 0..(T + 1)
          BY <1>4
        <5> QED
          BY <2>7, <5>1
      <4> QED
        BY <1>1, <4>1, <4>2 DEF OnChain
    <3> QED
      BY <3>3, <3>4, <3>5 DEF Written
  <2>11. Read(q)'
    <3>1. PICK v : /\ Gains(s, v, s.dhRemote, Closing(s, h), root)
                   /\ Gains(v, t, h.dhPub, 0 .. (n - 1), recv)
      BY <2>2
    <3>2. LET hh == wire[Peer(q)][i].header
              ss == session[q]
          IN  /\ hh.dhPub[2] = Seen(q)
              /\ t.recvCounter = hh.counter + 1
              /\ Gains(ss, v, ss.dhRemote, Closing(ss, hh), Chain(Peer(q), Seen(q) - 1))
              /\ Gains(v, t, hh.dhPub, 0 .. (hh.counter - 1), Chain(Peer(q), Seen(q)))
      BY <2>2, <2>4, <3>1
    <3>3. Kept(q, i, t, Seen(q) + 1)
      <4>1. i \in DOMAIN wire[Peer(q)]
        BY <1>1
      <4> HIDE DEF t
      <4> QED
        BY <3>2, <4>1, TurnKept
    <3>4. Kept(q, i, session'[q], Seen(q)')
      BY <2>7, <3>3
    <3> QED
      BY <1>1, <3>4, KeptReads
  <2> QED
    BY <1>1, <1>5, <1>6, <2>8, <2>9, <2>10, <2>11 DEF Located
<1> QED
  BY <1>10, <1>11, <1>12

----------------------------------------------------------------------------
LEMMA LocatedNext == Inv /\ Located /\ [Next]_vars => Located'
<1> SUFFICES ASSUME Inv, Located, [Next]_vars PROVE Located'
  OBVIOUS
<1>1. ASSUME NEW p \in Party, Encrypt(p) PROVE Located'
  BY <1>1, EncryptLocated
<1>2. ASSUME NEW q \in Party, NEW i \in 1..MaxMsgs, Decrypt(q, i) PROVE Located'
  BY <1>2, DecryptLocated
<1>3. CASE UNCHANGED vars
  <2>1. /\ session' = session /\ nextKey' = nextKey /\ wire' = wire /\ opened' = opened
    BY <1>3 DEF vars
  <2>2. \A p \in Party : Placed(p)' /\ Written(p)' /\ Read(p)' /\ Capped(session[p])'
    <3> TAKE p \in Party
    <3>1. session'[p] = session[p] /\ nextKey'[p] = nextKey[p] /\ opened'[Peer(p)] = opened[Peer(p)]
      BY <2>1
    <3> QED
      BY <2>1, <3>1, OtherStays
  <2>3. InTurn'
    BY <2>1 DEF Located, InTurn, Turn, Seen, Expected
  <2> QED
    BY <2>2, <2>3 DEF Located
<1> QED
  BY <1>1, <1>2, <1>3 DEF Next

\* Where the two sides stand, in every reachable state.
THEOREM AlwaysLocated == Spec => [](Inv /\ Located)
<1>1. Init => Inv /\ Located
  BY InitInv, InitLocated
<1>2. Inv /\ Located /\ [Next]_vars => Inv' /\ Located'
  BY StepInv, LocatedNext
<1> QED
  BY <1>1, <1>2, PTL DEF Spec

\* cacheSkipped and tryDecryptSkipped: the cache holds the key of a message that
\* was sealed and never opened at the slot of that message, no empty bucket, and
\* no more than the caps, whatever was lost, reordered or replayed.
THEOREM CacheIsExact == Spec => []CacheExact
<1>1. ASSUME Inv, Located PROVE CacheExact
  <2> SUFFICES ASSUME NEW q \in Party
               PROVE  LET s == session[q]
                          p == Peer(q)
                      IN  /\ \A r \in DOMAIN s.skipped :
                                /\ DOMAIN s.skipped[r] # {}
                                /\ Cardinality(DOMAIN s.skipped[r]) <= MaxSkip
                          /\ totalSkipped(s) <= GlobalSkipCap
                          /\ \A slot \in SkippedSlots(s) : \E i \in DOMAIN wire[p] :
                                /\ wire[p][i].header.dhPub = slot[1]
                                /\ wire[p][i].header.counter = slot[2]
                                /\ wire[p][i].key = s.skipped[slot[1]][slot[2]]
                                /\ opened[p][i] = 0
    BY DEF CacheExact
  <2> DEFINE s == session[q]
             p == Peer(q)
  <2>1. Capped(s) /\ Read(q)
    BY <1>1 DEF Located
  <2>2. \A i \in DOMAIN wire[p] :
            HasSlot(s, wire[p][i].header.dhPub, wire[p][i].header.counter) => opened[p][i] = 0
    BY <2>1 DEF Read
  <2>3. \A r, c : HasSlot(s, r, c) =>
            \E i \in DOMAIN wire[p] : /\ wire[p][i].header.dhPub = r
                                      /\ wire[p][i].header.counter = c
                                      /\ wire[p][i].key = s.skipped[r][c]
    BY <2>1 DEF Read
  <2> HIDE DEF s, p
  <2>4. ASSUME NEW slot \in SkippedSlots(s)
        PROVE  \E i \in DOMAIN wire[p] : /\ wire[p][i].header.dhPub = slot[1]
                                         /\ wire[p][i].header.counter = slot[2]
                                         /\ wire[p][i].key = s.skipped[slot[1]][slot[2]]
                                         /\ opened[p][i] = 0
    <3>1. PICK r, c : slot = <<r, c>> /\ HasSlot(s, r, c)
      BY SlotsAre
    <3>2. slot[1] = r /\ slot[2] = c
      BY <3>1
    <3> QED
      BY <2>2, <2>3, <3>1, <3>2
  <2>5. /\ \A r \in DOMAIN s.skipped :
              DOMAIN s.skipped[r] # {} /\ Cardinality(DOMAIN s.skipped[r]) <= MaxSkip
        /\ totalSkipped(s) <= GlobalSkipCap
    BY <2>1 DEF Capped
  <2> QED
    BY <2>4, <2>5 DEF s, p
<1> QED
  BY <1>1, AlwaysLocated, PTL

----------------------------------------------------------------------------
\* The caps leave room for new slots when all slots, old and new, belong to
\* messages the traffic shows as missing.
LEMMA RoomFor ==
    ASSUME NEW p \in Party, NEW i \in Nat, FitsCaps(p, i),
           NEW s, NEW remote, NEW new, IsFiniteSet(new),
           \A r, c : HasSlot(s, r, c) \/ (r = remote /\ c \in new) =>
               \E j \in Missing(p, i) : wire[p][j].header.dhPub = r /\ wire[p][j].header.counter = c,
           \A c \in new : ~HasSlot(s, remote, c)
    PROVE  Cardinality(new) > 0 =>
               /\ Cardinality(DOMAIN Bucket(s, remote)) + Cardinality(new) <= MaxSkip
               /\ totalSkipped(s) + Cardinality(new) <= GlobalSkipCap
<1> DEFINE M == Missing(p, i)
           g == [j \in M |-> <<wire[p][j].header.dhPub, wire[p][j].header.counter>>]
<1>1. IsFiniteSet(M)
  <2>1. IsFiniteSet(1..(i - 1))
    BY FS_Interval
  <2>2. M \in SUBSET (1..(i - 1))
    BY DEF Missing
  <2> HIDE DEF M
  <2> QED
    BY <2>1, <2>2, FS_Subset
<1>2. Cardinality(M) <= GlobalSkipCap
  BY DEF FitsCaps
<1>3. \A j \in M : Cardinality(InBucket(M, g, j)) <= MaxSkip
  <2> SUFFICES ASSUME NEW j \in M
               PROVE  Cardinality(InBucket(M, g, j)) <= MaxSkip
    OBVIOUS
  <2>1. InBucket(M, g, j) = {k \in M : wire[p][k].header.dhPub = wire[p][j].header.dhPub}
    <3> HIDE DEF M
    <3> QED
      BY DEF InBucket
  <2> QED
    BY <2>1 DEF FitsCaps
<1>4. \A r, c : HasSlot(s, r, c) \/ (r = remote /\ c \in new) => \E j \in M : g[j] = <<r, c>>
  <2> HIDE DEF M
  <2>1. \A r, c : HasSlot(s, r, c) \/ (r = remote /\ c \in new) =>
            \E j \in M : wire[p][j].header.dhPub = r /\ wire[p][j].header.counter = c
    BY DEF M
  <2> QED
    BY <2>1
<1> HIDE DEF M, g
<1>5. FitsSkipCaps(M, g) /\ HoldsPlaces(M, g, s, remote, new)
  BY <1>1, <1>2, <1>3, <1>4 DEF FitsSkipCaps, HoldsPlaces
<1> QED
  BY <1>5, RoomAmong

\* What the receiver has yet to come to, or holds a key of, is missing when it
\* was sealed before.
LEMMA MissingAre ==
    ASSUME Inv, Located, NEW p \in Party, NEW i \in DOMAIN wire[p], NEW j \in DOMAIN wire[p],
           LET h == wire[p][j].header
           IN  IsAhead(Peer(p), h) \/ HasSlot(session[Peer(p)], h.dhPub, h.counter),
           Before(wire[p][j].header, wire[p][i].header)
    PROVE  j \in Missing(p, i)
<1>1. opened[p][j] = 0
  <2>1. Read(Peer(p)) /\ Peer(Peer(p)) = p
    BY Peers DEF Located
  <2> QED
    BY <2>1 DEF Read
<1> DEFINE g == wire[p][j].header
           h == wire[p][i].header
<1>2. /\ g.counter \in Nat /\ g.dhPub[2] \in Nat /\ h.counter \in Nat /\ h.dhPub[2] \in Nat
  BY Places
<1>3. Before(g, h)
  OBVIOUS
<1>4. ~Before(h, g) /\ ~Before(g, g)
  <2> HIDE DEF g, h
  <2> QED
    BY <1>2, <1>3 DEF Before
<1>5. ~(i < j) /\ i # j
  BY <1>3, <1>4 DEF Located, Written, Ordered
<1>6. DOMAIN wire[p] = 1..Len(wire[p]) /\ Len(wire[p]) \in Nat
  BY Numbers DEF Inv, Located
<1>7. j \in 1..(i - 1)
  BY <1>5, <1>6
<1> QED
  BY <1>1, <1>7 DEF Missing

\* ... and every slot is of a message that comes before any the receiver has not
\* come to.
LEMMA SlotsMissing ==
    ASSUME Inv, Located, NEW p \in Party, NEW i \in DOMAIN wire[p],
           IsAhead(Peer(p), wire[p][i].header),
           NEW r, NEW c, HasSlot(session[Peer(p)], r, c)
    PROVE  \E j \in Missing(p, i) : wire[p][j].header.dhPub = r /\ wire[p][j].header.counter = c
<1> DEFINE q == Peer(p)
           h == wire[p][i].header
           e == Seen(q)
           a == session[q].recvCounter
<1>1. Read(q) /\ Peer(q) = p /\ e \in Nat /\ a \in Nat
  BY Peers, Numbers DEF Inv, Located
<1>2. PICK j \in DOMAIN wire[p] : wire[p][j].header.dhPub = r /\ wire[p][j].header.counter = c
  BY <1>1 DEF Read
<1> DEFINE g == wire[p][j].header
<1>3. ~IsAhead(q, g) /\ HasSlot(session[q], g.dhPub, g.counter)
  BY <1>1, <1>2 DEF Read
<1>4. /\ g.counter \in Nat /\ g.dhPub[2] \in Nat /\ h.counter \in Nat /\ h.dhPub[2] \in Nat
  BY Places
<1>5. Before(g, h)
  <2>1. IsAhead(q, h)
    OBVIOUS
  <2> HIDE DEF g, h
  <2> QED
    BY <1>1, <1>3, <1>4, <2>1 DEF IsAhead, Ahead, Before
<1>6. j \in Missing(p, i)
  BY <1>3, <1>5, MissingAre
<1> QED
  BY <1>2, <1>6

LEMMA OpensCached ==
    ASSUME Inv, Located, NEW p \in Party, NEW i \in DOMAIN wire[p], NEW f,
           HasSkipped(session[Peer(p)], wire[p][i].header)
    PROVE  Opens(session[Peer(p)], wire[p][i], f)
<1> DEFINE s == session[Peer(p)]
           h == wire[p][i].header
<1>1. Read(Peer(p)) /\ Peer(Peer(p)) = p
  BY Peers DEF Located
<1>2. HasSlot(s, h.dhPub, h.counter)
  BY DEF HasSkipped, HasSlot
<1>3. PICK j \in DOMAIN wire[p] : /\ wire[p][j].header.dhPub = h.dhPub
                                  /\ wire[p][j].header.counter = h.counter
                                  /\ wire[p][j].key = s.skipped[h.dhPub][h.counter]
  <2>1. \A r, c : HasSlot(s, r, c) =>
            \E j \in DOMAIN wire[p] : /\ wire[p][j].header.dhPub = r
                                      /\ wire[p][j].header.counter = c
                                      /\ wire[p][j].key = s.skipped[r][c]
    BY <1>1 DEF Read
  <2> HIDE DEF s, h
  <2> QED
    BY <1>2, <2>1
<1>4. j = i
  BY <1>3, Places
<1>5. s.skipped[h.dhPub][h.counter] = wire[p][i].key
  BY <1>3, <1>4
<1> QED
  BY <1>5 DEF Opens

\* The message is on the chain at hand.
LEMMA OpensAtHand ==
    ASSUME Inv, Located, NEW p \in Party, NEW i \in DOMAIN wire[p], NEW f, FitsCaps(p, i),
           ~HasSkipped(session[Peer(p)], wire[p][i].header),
           wire[p][i].header.dhPub[2] + 1 = Seen(Peer(p)),
           wire[p][i].header.counter >= session[Peer(p)].recvCounter
    PROVE  Opens(session[Peer(p)], wire[p][i], f)
<1> DEFINE q == Peer(p)
           s == session[q]
           m == wire[p][i]
           h == m.header
           n == h.counter
           e == Seen(q)
           a == s.recvCounter
           T == Turn(q)
           root == Chain(p, e - 1)
           new == a .. (n - 1)
<1>1. /\ q \in Party /\ q # p /\ Peer(q) = p /\ e \in Nat /\ a \in Nat /\ T \in Nat
      /\ (p = Alice <=> q # Alice) /\ e = IF q = Alice THEN T + 1 ELSE T
  BY Peers, Numbers DEF Inv, Located, Seen, Expected
<1>2. /\ n \in Nat /\ h.dhPub[2] \in Nat /\ h.dhPub = <<p, h.dhPub[2]>>
      /\ (p # Alice => h.dhPub[2] > 0) /\ m.key = KeyOf(Chain(p, h.dhPub[2]), n)
      /\ \A c \in Nat : c < n => Sent(wire[p], <<p, h.dhPub[2]>>, c)
  BY Places
<1>3. /\ s.dhRemote = IF e = 0 THEN NoPub ELSE <<p, e - 1>>
      /\ s.recvChain = IF T = 0 THEN {} ELSE {KeyOf(root, a)}
      /\ IsRatchetState(s, Made)
  BY <1>1 DEF Inv, TypeOK, Located, Placed
<1>4. h.dhPub[2] + 1 = e /\ n >= a
  OBVIOUS
<1>5. IsAhead(q, h)
  BY <1>4 DEF IsAhead, Ahead
<1> HIDE DEF s, e, T, m, q, root
<1>6. /\ h.dhPub = <<p, e - 1>> /\ h.dhPub = s.dhRemote /\ m.key = KeyOf(root, n)
      /\ s.recvChain = {KeyOf(root, a)}
      /\ \A c \in Nat : c < n => Sent(wire[p], h.dhPub, c)
  <2> DEFINE k == h.dhPub[2]
  <2>1. k = e - 1 /\ e # 0 /\ T # 0
    <3> HIDE DEF k
    <3> QED
      BY <1>1, <1>2, <1>4 DEF k
  <2>2. h.dhPub = <<p, k>> /\ m.key = KeyOf(Chain(p, k), n)
        /\ \A c \in Nat : c < n => Sent(wire[p], <<p, k>>, c)
    BY <1>2
  <2> HIDE DEF k
  <2>3. h.dhPub = <<p, e - 1>> /\ m.key = KeyOf(root, n)
    BY <2>1, <2>2 DEF root
  <2>4. \A c \in Nat : c < n => Sent(wire[p], h.dhPub, c)
    <3> HIDE DEF h, n
    <3> QED
      BY <2>2
  <2> QED
    BY <1>3, <2>1, <2>3, <2>4
<1>7. \A r, c : HasSlot(s, r, c) \/ (r = h.dhPub /\ c \in new) =>
          \E j \in Missing(p, i) : wire[p][j].header.dhPub = r /\ wire[p][j].header.counter = c
  <2>1. ASSUME NEW r, NEW c, HasSlot(s, r, c)
        PROVE  \E j \in Missing(p, i) : wire[p][j].header.dhPub = r /\ wire[p][j].header.counter = c
    BY <1>5, <2>1, SlotsMissing DEF s, q, m
  <2>2. ASSUME NEW c \in new
        PROVE  \E j \in Missing(p, i) :
                   wire[p][j].header.dhPub = h.dhPub /\ wire[p][j].header.counter = c
    <3>1. c \in Nat /\ c < n /\ c >= a
      BY <1>1, <1>2
    <3>2. PICK j \in DOMAIN wire[p] :
             wire[p][j].header.dhPub = h.dhPub /\ wire[p][j].header.counter = c
      BY <1>6, <3>1 DEF Sent
    <3> DEFINE g == wire[p][j].header
    <3>3. IsAhead(q, g)
      BY <1>4, <3>1, <3>2 DEF IsAhead, Ahead, s, e
    <3>4. Before(g, h)
      BY <3>1, <3>2 DEF Before
    <3>5. j \in Missing(p, i)
      BY <3>3, <3>4, MissingAre DEF q, m
    <3> QED
      BY <3>2, <3>5
  <2> QED
    BY <2>1, <2>2
<1>8. \A c \in new : ~HasSlot(s, h.dhPub, c)
  <2>1. ASSUME NEW c \in new, HasSlot(s, h.dhPub, c) PROVE FALSE
    <3>1. c \in Nat /\ c < n /\ c >= a
      BY <1>1, <1>2
    <3>2. PICK j \in DOMAIN wire[p] :
             wire[p][j].header.dhPub = h.dhPub /\ wire[p][j].header.counter = c
      BY <1>6, <3>1 DEF Sent
    <3> DEFINE g == wire[p][j].header
    <3>3. IsAhead(q, g)
      BY <1>4, <3>1, <3>2 DEF IsAhead, Ahead, s, e
    <3>4. ~(IsAhead(q, g) /\ HasSlot(s, g.dhPub, g.counter))
      BY <1>1 DEF Located, Read, s
    <3> QED
      BY <2>1, <3>2, <3>3, <3>4
  <2> QED
    BY <2>1
<1>9. IsFiniteSet(new)
  <2>1. a \in Int /\ n - 1 \in Int
    BY <1>1, <1>2
  <2> HIDE DEF a, n
  <2> QED
    BY <2>1, FS_Interval
<1>10. SkipAllowed(s, h.dhPub, n)
  <2>1. Cardinality(new) > 0 =>
            /\ Cardinality(DOMAIN Bucket(s, h.dhPub)) + Cardinality(new) <= MaxSkip
            /\ totalSkipped(s) + Cardinality(new) <= GlobalSkipCap
    <3>1. i \in Nat
      BY Numbers DEF Inv, Located
    <3> HIDE DEF new
    <3> QED
      BY <1>7, <1>8, <1>9, <3>1, RoomFor
  <2>2. ToSkip(s, n) = new
    BY <1>6 DEF ToSkip, NoChain
  <2> QED
    BY <2>1, <2>2 DEF SkipAllowed
<1>11. m.key \in cacheSkipped(s, h.dhPub, n).recvChain
  <2>1. s.recvChain = {KeyOf(root, s.recvCounter)} /\ s.recvCounter <= n /\ n \in Nat
    BY <1>1, <1>2, <1>4, <1>6
  <2> QED
    BY <1>3, <1>6, <2>1, WalksTo
<1>12. Turned(s, h, f) = s
  BY <1>6 DEF Turned
<1>13. ~HasSkipped(s, h)
  BY DEF s, q, m
<1>14. Opens(s, m, f)
  BY <1>6, <1>10, <1>11, <1>12, <1>13 DEF Opens, MessageKey
<1> QED
  BY <1>14 DEF s, q, m

\* The message is on the next chain: closing the old one fits the caps, and so
\* does walking the new one.
LEMMA OpensNext ==
    ASSUME Inv, Located, NEW p \in Party, NEW i \in DOMAIN wire[p],
           NEW K, NEW f \in K, Made \subseteq K, FitsCaps(p, i),
           ~HasSkipped(session[Peer(p)], wire[p][i].header),
           wire[p][i].header.dhPub[2] >= Seen(Peer(p))
    PROVE  Opens(session[Peer(p)], wire[p][i], f)
<1> DEFINE q == Peer(p)
           s == session[q]
           m == wire[p][i]
           h == m.header
           n == h.counter
           e == Seen(q)
           a == s.recvCounter
           T == Turn(q)
           root == Chain(p, e - 1)
           next == Chain(p, e)
           closing == Closing(s, h)
           c0 == IF s.dhRemote = NoPub THEN s ELSE cacheSkipped(s, s.dhRemote, h.prevN)
           t == Turned(s, h, f)
           new == 0 .. (n - 1)
<1>1. /\ q \in Party /\ q # p /\ Peer(q) = p /\ e \in Nat /\ a \in Nat /\ T \in Nat
      /\ e = Expected(q, T) /\ i \in Nat
  <2>1. q \in Party /\ q # p /\ Peer(q) = p
    BY Peers
  <2>2. TypeOK /\ InTurn
    BY DEF Inv, Located
  <2>3. e = Expected(q, T)
    BY DEF Seen
  <2> HIDE DEF q, e, a, T
  <2> QED
    BY <2>1, <2>2, <2>3, Numbers DEF q, e, a, T
<1>2. /\ n \in Nat /\ h.prevN \in Nat /\ h.dhPub[2] \in Nat /\ h.dhPub = <<p, h.dhPub[2]>>
      /\ h.dhPub[2] <= Turn(p) /\ Turn(p) \in Nat
      /\ m.key = KeyOf(Chain(p, h.dhPub[2]), n) /\ h.dhPub # NoPub
      /\ \A c \in Nat : /\ c < n => Sent(wire[p], <<p, h.dhPub[2]>>, c)
                        /\ c < h.prevN <=> h.dhPub[2] > 0 /\ Sent(wire[p], <<p, h.dhPub[2] - 1>>, c)
  BY Places
<1>3. /\ s.dhRemote = IF e = 0 THEN NoPub ELSE <<p, e - 1>>
      /\ s.recvChain = IF T = 0 THEN {} ELSE {KeyOf(root, a)}
      /\ s.rootKey = Chain(q, T) /\ s.dhSelf = <<q, T>>
      /\ IsRatchetState(s, K) /\ m.header.dhPub \in K
  <2>1. IsRatchetState(s, Made) /\ m \in Message(Made)
    BY <1>1, Numbers DEF Inv, TypeOK, Located
  <2>2. IsRatchetState(s, K)
    BY <2>1, StateGrows
  <2>3. m.header.dhPub \in K
    BY <2>1 DEF Message
  <2> QED
    BY <1>1, <2>2, <2>3 DEF Located, Placed
<1>4. h.dhPub[2] = e
  <2>1. Turn(p) \in {e - 1, e}
    BY <1>1 DEF Located, InTurn
  <2>2. h.dhPub[2] >= e
    OBVIOUS
  <2> DEFINE k == h.dhPub[2]
  <2> HIDE DEF k, e
  <2>3. k = e
    BY <1>1, <1>2, <2>1, <2>2 DEF k
  <2> QED
    BY <2>3 DEF k
<1>5. IsAhead(q, h)
  BY DEF IsAhead, Ahead
<1>6. ~HasSkipped(s, h)
  OBVIOUS
<1>7. \A j \in DOMAIN wire[p] :
          ~(IsAhead(q, wire[p][j].header)
            /\ HasSlot(s, wire[p][j].header.dhPub, wire[p][j].header.counter))
  BY <1>1 DEF Located, Read
<1>8. Append(Chain(q, T), {<<q, T>>, <<p, e>>}) = next
  <2> HIDE DEF T, e, q
  <2>1. Append(Chain(q, T), {<<q, T>>, <<Peer(q), Expected(q, T)>>}) = Chain(Peer(q), Expected(q, T))
    BY <1>1, ChainsMeet
  <2> QED
    BY <1>1, <2>1
<1>9. Stands(s, root)
  BY <1>3 DEF Stands
<1> HIDE DEF s, e, T, m, q, root, next, t, c0
<1>10. /\ h.dhPub = <<p, e>> /\ m.key = KeyOf(next, n)
       /\ \A c \in Nat : /\ c < n => Sent(wire[p], <<p, e>>, c)
                         /\ c < h.prevN => Sent(wire[p], <<p, e - 1>>, c)
  <2> DEFINE k == h.dhPub[2]
  <2>1. k = e
    BY <1>4
  <2> HIDE DEF k
  <2>2. /\ h.dhPub = <<p, k>> /\ m.key = KeyOf(Chain(p, k), n)
        /\ \A c \in Nat : /\ c < n => Sent(wire[p], <<p, k>>, c)
                          /\ c < h.prevN <=> k > 0 /\ Sent(wire[p], <<p, k - 1>>, c)
    BY <1>2 DEF k
  <2> HIDE DEF h, n
  <2> QED
    BY <2>1, <2>2 DEF next
<1>11. h.dhPub # s.dhRemote
  <2>1. e # 0 => <<p, e>> # <<p, e - 1>>
    BY <1>1
  <2> QED
    BY <1>2, <1>3, <1>10, <2>1
<1>12. \A r, c : HasSlot(s, r, c) =>
           \E j \in Missing(p, i) : wire[p][j].header.dhPub = r /\ wire[p][j].header.counter = c
  BY <1>5, SlotsMissing DEF s, q, m
\* What closing the old chain caches.
<1>13. ASSUME NEW c \in closing
       PROVE  /\ s.dhRemote # NoPub /\ ~HasSlot(s, s.dhRemote, c)
              /\ \E j \in Missing(p, i) :
                     wire[p][j].header.dhPub = s.dhRemote /\ wire[p][j].header.counter = c
  <2>1. s.dhRemote # NoPub /\ c \in a .. (h.prevN - 1)
    BY DEF Closing, ToSkip
  <2>2. e # 0 /\ s.dhRemote = <<p, e - 1>>
    BY <1>3, <2>1
  <2>3. c \in Nat /\ c < h.prevN /\ c >= a
    BY <1>1, <1>2, <2>1
  <2>4. PICK j \in DOMAIN wire[p] :
           wire[p][j].header.dhPub = <<p, e - 1>> /\ wire[p][j].header.counter = c
    BY <1>10, <2>3 DEF Sent
  <2> DEFINE g == wire[p][j].header
  <2>5. g.dhPub[2] = e - 1 /\ (e - 1) + 1 = e /\ e - 1 < e
    BY <1>1, <2>4
  <2>6. IsAhead(q, g)
    BY <2>3, <2>4, <2>5 DEF IsAhead, Ahead, s, e
  <2>7. Before(g, h)
    BY <1>4, <2>5 DEF Before
  <2>8. j \in Missing(p, i)
    BY <2>6, <2>7, MissingAre DEF q, m
  <2>9. ~HasSlot(s, s.dhRemote, c)
    BY <1>7, <2>2, <2>4, <2>6
  <2> QED
    BY <2>1, <2>2, <2>4, <2>8, <2>9
<1>14. ClosesAllowed(s, h)
  <2> SUFFICES ASSUME s.dhRemote # NoPub PROVE SkipAllowed(s, s.dhRemote, h.prevN)
    BY DEF ClosesAllowed
  <2>1. closing = ToSkip(s, h.prevN)
    BY DEF Closing
  <2>2. IsFiniteSet(closing)
    <3> HIDE DEF closing, h
    <3>1. h.prevN \in Nat
      BY <1>2
    <3> QED
      BY <1>3, <2>1, <3>1, ToSkipFinite
  <2> DEFINE remote == s.dhRemote
  <2>3. \A r, c : HasSlot(s, r, c) \/ (r = remote /\ c \in closing) =>
            \E j \in Missing(p, i) : wire[p][j].header.dhPub = r /\ wire[p][j].header.counter = c
    <3> HIDE DEF closing
    <3> QED
      BY <1>12, <1>13
  <2>4. \A c \in closing : ~HasSlot(s, remote, c)
    <3> HIDE DEF closing
    <3> QED
      BY <1>13
  <2> HIDE DEF closing, remote
  <2>5. Cardinality(closing) > 0 =>
            /\ Cardinality(DOMAIN Bucket(s, remote)) + Cardinality(closing) <= MaxSkip
            /\ totalSkipped(s) + Cardinality(closing) <= GlobalSkipCap
    BY <1>1, <2>2, <2>3, <2>4, RoomFor
  <2> QED
    BY <2>1, <2>5 DEF SkipAllowed, remote
\* The state after the DH step.
<1>15. IsRatchetState(c0, K) /\ SealsAlike(s, c0) /\ Gains(s, c0, s.dhRemote, closing, root)
  <2>1. CASE s.dhRemote = NoPub
    BY <1>3, <2>1 DEF SealsAlike, SameOtherwise, Gains, Closing, c0
  <2>2. CASE s.dhRemote # NoPub
    <3>1. s.dhRemote \in K /\ h.prevN \in Nat
      BY <1>2, <1>3, <2>2 DEF IsRatchetState, Fields
    <3>2. c0 = cacheSkipped(s, s.dhRemote, h.prevN) /\ closing = ToSkip(s, h.prevN)
      BY <2>2 DEF c0, Closing
    <3> HIDE DEF h, closing
    <3> QED
      BY <1>3, <1>9, <3>1, <3>2, CacheStep, CacheGains
  <2> QED
    BY <2>1, <2>2
<1>16. /\ IsRatchetState(t, K) /\ t.recvCounter = 0 /\ t.recvChain = {KeyOf(next, 0)}
       /\ t.skipped = c0.skipped
  <2>1. t = dhRatchetStep(c0, h.dhPub, f)
    BY <1>11 DEF Turned, t, c0
  <2> DEFINE d == h.dhPub
  <2>2. d \in K /\ f \in K
    BY <1>3
  <2> HIDE DEF d
  <2>3. Stepped(c0, t, d, f) /\ IsRatchetState(t, K)
    BY <1>15, <2>1, <2>2, DhStep DEF d
  <2>4. RecvRoot(c0, d) = next
    <3>1. c0.rootKey = Chain(q, T) /\ c0.dhSelf = <<q, T>>
      BY <1>3, <1>15 DEF SealsAlike, SameOtherwise
    <3>2. d = <<p, e>>
      BY <1>10 DEF d
    <3> QED
      BY <1>8, <3>1, <3>2 DEF RecvRoot
  <2> QED
    BY <2>3, <2>4 DEF Stepped, FirstChainKey, KeyOf
<1>17. \A r, c : HasSlot(t, r, c) <=> HasSlot(s, r, c) \/ (r = s.dhRemote /\ c \in closing)
  <2> HIDE DEF closing
  <2> QED
    BY <1>15, <1>16 DEF Gains, HasSlot
<1>18. ASSUME NEW c \in new
       PROVE  /\ ~HasSlot(t, h.dhPub, c)
              /\ \E j \in Missing(p, i) :
                     wire[p][j].header.dhPub = h.dhPub /\ wire[p][j].header.counter = c
  <2>1. c \in Nat /\ c < n
    BY <1>2
  <2>2. PICK j \in DOMAIN wire[p] :
           wire[p][j].header.dhPub = h.dhPub /\ wire[p][j].header.counter = c
    BY <1>10, <2>1 DEF Sent
  <2> DEFINE g == wire[p][j].header
  <2>3. IsAhead(q, g)
    BY <1>1, <1>4, <2>2 DEF IsAhead, Ahead, e
  <2>4. Before(g, h)
    BY <2>1, <2>2 DEF Before
  <2>5. j \in Missing(p, i)
    BY <2>3, <2>4, MissingAre DEF q, m
  <2>6. ~HasSlot(s, h.dhPub, c)
    BY <1>7, <2>2, <2>3
  <2>7. ~HasSlot(t, h.dhPub, c)
    <3> HIDE DEF closing, h
    <3> QED
      BY <1>11, <1>17, <2>6
  <2> QED
    BY <2>2, <2>5, <2>7
<1>19. SkipAllowed(t, h.dhPub, n)
  <2>1. ToSkip(t, n) = new
    BY <1>16 DEF ToSkip, NoChain
  <2>2. IsFiniteSet(new)
    <3>1. 0 \in Int /\ n - 1 \in Int
      BY <1>2
    <3> HIDE DEF n
    <3> QED
      BY <3>1, FS_Interval
  <2> DEFINE remote == h.dhPub
  <2>3. \A r, c : HasSlot(t, r, c) \/ (r = remote /\ c \in new) =>
            \E j \in Missing(p, i) : wire[p][j].header.dhPub = r /\ wire[p][j].header.counter = c
    <3> HIDE DEF closing, new, h
    <3> QED
      BY <1>12, <1>13, <1>17, <1>18
  <2>4. \A c \in new : ~HasSlot(t, remote, c)
    <3> HIDE DEF new, h
    <3> QED
      BY <1>18
  <2> HIDE DEF new, remote
  <2>5. Cardinality(new) > 0 =>
            /\ Cardinality(DOMAIN Bucket(t, remote)) + Cardinality(new) <= MaxSkip
            /\ totalSkipped(t) + Cardinality(new) <= GlobalSkipCap
    BY <1>1, <2>2, <2>3, <2>4, RoomFor
  <2> QED
    BY <2>1, <2>5 DEF SkipAllowed, remote
<1>20. m.key \in cacheSkipped(t, h.dhPub, n).recvChain
  <2>1. t.recvChain = {KeyOf(next, t.recvCounter)} /\ t.recvCounter <= n /\ n \in Nat
    BY <1>2, <1>16
  <2> DEFINE remote == h.dhPub
  <2> HIDE DEF n, remote
  <2>2. KeyOf(next, n) \in cacheSkipped(t, remote, n).recvChain
    BY <1>16, <2>1, WalksTo
  <2> QED
    BY <1>10, <2>2 DEF remote
<1>21. Opens(s, m, f)
  BY <1>6, <1>14, <1>19, <1>20 DEF Opens, MessageKey, t
<1> QED
  BY <1>21 DEF s, q, m

\* decryptRatchet: what was not opened yet opens now, however long it was held
\* back and whatever was lost, reordered or replayed meanwhile, unless the keys of
\* the messages still missing before it exceed a cap.
THEOREM NothingIsShutOut == Spec => []Deliverable
<1>1. ASSUME Inv, Located PROVE Deliverable
  <2> SUFFICES ASSUME NEW p \in Party, NEW i \in DOMAIN wire[p],
                      opened[p][i] = 0, FitsCaps(p, i)
               PROVE  Opens(session[Peer(p)], wire[p][i], FreshKey(Peer(p)))
    BY DEF Deliverable
  <2> DEFINE q == Peer(p)
             h == wire[p][i].header
             f == FreshKey(q)
             K == Made \union {f}
  <2>1. Read(q) /\ Peer(q) = p
    BY <1>1, Peers DEF Located
  <2>2. IsAhead(q, h) \/ HasSlot(session[q], h.dhPub, h.counter)
    BY <2>1 DEF Read
  <2>3. CASE HasSkipped(session[q], h)
    BY <1>1, <2>3, OpensCached
  <2>4. CASE ~HasSkipped(session[q], h)
    <3>1. \/ h.dhPub[2] >= Seen(q)
          \/ h.dhPub[2] + 1 = Seen(q) /\ h.counter >= session[q].recvCounter
      BY <2>2, <2>4 DEF HasSkipped, HasSlot, IsAhead, Ahead
    <3>2. CASE h.dhPub[2] >= Seen(q)
      <4>1. f \in K /\ Made \subseteq K
        OBVIOUS
      <4>2. ~HasSkipped(session[Peer(p)], wire[p][i].header)
            /\ wire[p][i].header.dhPub[2] >= Seen(Peer(p))
        BY <2>4, <3>2
      <4> HIDE DEF K, f
      <4>3. Opens(session[Peer(p)], wire[p][i], f)
        BY <1>1, <4>1, <4>2, OpensNext
      <4> QED
        BY <4>3 DEF f
    <3>3. CASE h.dhPub[2] + 1 = Seen(q) /\ h.counter >= session[q].recvCounter
      BY <1>1, <2>4, <3>3, OpensAtHand
    <3> QED
      BY <3>1, <3>2, <3>3
  <2> QED
    BY <2>3, <2>4
<1> QED
  BY <1>1, AlwaysLocated, PTL
=============================================================================
