------------------------------ MODULE DrSession ------------------------------
(***************************************************************************)
(* The session layer of client/src/lib/ratchet/session-manager.ts for one  *)
(* pair of devices: X3DH handshakes, the session record each device keeps  *)
(* in IndexedDB, the ratchets of superseded handshakes, one-time prekeys,  *)
(* and the resets a user confirms, over the ratchet of DoubleRatchet.      *)
(*                                                                         *)
(* A call reads the record, awaits, and writes it back.  runExclusive lets *)
(* a browser context (a tab) run one such call at a time on the pair, so a *)
(* context has one job; contexts of one device share the record, not the   *)
(* lock, and clearDrSession takes no lock at all.  The server may hold     *)
(* back, reorder, repeat or lose what is sealed.  Identity keys and signed *)
(* prekeys do not change here: each device keeps the ones it published.    *)
(***************************************************************************)
EXTENDS DoubleRatchet, FiniteSetsExt, SequencesExt

CONSTANTS
    Party,                  \* the two devices
    Tabs,                   \* browser contexts a device runs
    Otps,                   \* one-time prekeys each device has published
    MAX_ARCHIVED_RATCHETS,
    PENDING_INIT_MAX_RESENDS,
    MaxMsgs,                \* bound: messages a device seals or starts to seal
    MaxClears,              \* bound: resets, by either device
    MaxFaults,              \* bound: tabs closed in mid-call and failed fetches
    MaxLost                 \* bound: messages the network loses

ASSUME SessionAssumption ==
    /\ \E p, q \in Party : p # q /\ Party = {p, q}
    /\ Tabs # {}
    /\ {Otps, MAX_ARCHIVED_RATCHETS, MaxMsgs, MaxClears, MaxFaults, MaxLost} \subseteq Nat
    /\ PENDING_INIT_MAX_RESENDS \in Nat \ {0}

VARIABLES
    rec,          \* rec[p]: the record of the pair in p's store, {} if none
    job,          \* job[c]: what context c is doing under its lock
    pool,         \* pool[p]: one-time prekey ids of p the server still holds
    otpPriv,      \* otpPriv[p]: ids whose private key p still stores
    consumed,     \* consumed[p]: the ledger of ids p has used up
    nextKey,      \* nextKey[p]: the next X25519 pair p generates
    wire,         \* wire[p]: the envelopes p has sealed, in order
    lost,         \* lost[p]: indices of wire[p] that never arrive
    clears, faults,
    opened,       \* history: times wire[p][i] was decrypted
    accepted      \* history: the handshakes p ran as responder, in order

keys == <<pool, otpPriv, consumed>>
past == <<opened, accepted>>
vars == <<rec, job, keys, nextKey, wire, lost, clears, faults, past>>

Context == Party \X Tabs
Dev(c) == c[1]
Peer(p) == CHOOSE q \in Party : q # p

\* p's signed prekey, its k-th one-time prekey, the pair it generates next.
SpkOf(p) == <<p, 0>>
OtpOf(p, k) == <<p, k>>
FreshKey(p) == <<p, nextKey[p]>>

----------------------------------------------------------------------------
(* Records *)

\* The secret both ends of X3DH derive; otp is the set of one id or none.
x3dh(eph, responder, otp) ==
    {eph, SpkOf(responder)} \union {OtpOf(responder, k) : k \in otp}

\* The handshake a message was sealed under.
Handshake(m) == m.key.root[1]

\* SerializedSession.  `log` is history: the handshakes this record came from
\* since it was first created, oldest first.
NewSession(ratchet, secret) ==
    [ ratchet |-> ratchet, pendingInit |-> {}, pendingInitSends |-> 0,
      acceptedInit |-> {}, archived |-> <<>>, superseded |-> <<>>,
      log |-> <<secret>> ]

\* bootstrapSession: the initiator's record.
Initiated(p, eph, dhSelf, otp) ==
    LET secret == x3dh(eph, Peer(p), otp)
    IN  [NewSession(initRatchetAsAlice(<<secret>>, dhSelf, SpkOf(Peer(p))), secret)
            EXCEPT !.pendingInit = {[eph |-> eph, otp |-> otp]}]

Newest(s) == SubSeq(s, 1, IF Len(s) < MAX_ARCHIVED_RATCHETS THEN Len(s)
                                                            ELSE MAX_ARCHIVED_RATCHETS)

\* acceptSession: the responder's record, `existing` the one it supersedes.
\* Mutants: the retired handshakes are not remembered; the ratchet in use is
\* not archived.
Accepted_Forgets(p, init, existing) ==
    LET secret == x3dh(init.eph, p, init.otp)
        new == [NewSession(initRatchetAsBob(<<secret>>, SpkOf(p)), secret)
                  EXCEPT !.acceptedInit = {init.eph}]
    IN  IF existing = {} THEN new
        ELSE LET old == CHOOSE s \in existing : TRUE
             IN  [new EXCEPT !.archived = Newest(<<old.ratchet>> \o old.archived),
                             !.log = Append(old.log, secret)]

Accepted_DropsRatchet(p, init, existing) ==
    LET secret == x3dh(init.eph, p, init.otp)
        new == [NewSession(initRatchetAsBob(<<secret>>, SpkOf(p)), secret)
                  EXCEPT !.acceptedInit = {init.eph}]
    IN  IF existing = {} THEN new
        ELSE LET old == CHOOSE s \in existing : TRUE
             IN  [new EXCEPT
                    !.archived = Newest(old.archived),
                    !.superseded = Newest(SetToSeq(old.acceptedInit) \o old.superseded),
                    !.log = Append(old.log, secret)]

Accepted(p, init, existing) ==
    LET secret == x3dh(init.eph, p, init.otp)
        new == [NewSession(initRatchetAsBob(<<secret>>, SpkOf(p)), secret)
                  EXCEPT !.acceptedInit = {init.eph}]
    IN  IF existing = {} THEN new
        ELSE LET old == CHOOSE s \in existing : TRUE
             IN  [new EXCEPT
                    !.archived = Newest(<<old.ratchet>> \o old.archived),
                    !.superseded = Newest(SetToSeq(old.acceptedInit) \o old.superseded),
                    !.log = Append(old.log, secret)]

\* acceptIncomingInit returns early: a resend, a handshake already retired, or
\* a session this device initiated itself.
KeepsExisting(existing, init) ==
    \E s \in existing :
        \/ init.eph \in s.acceptedInit
        \/ init.eph \in ToSet(s.superseded)
        \/ s.acceptedInit = {}

\* The ledger has not seen the id, and its private key is there.
\* Mutant: neither is asked.
OtpUsable_Always(p, otp) == TRUE
OtpUsable(p, otp) == otp \intersect consumed[p] = {} /\ otp \subseteq otpPriv[p]

\* encryptForPeer after encryptRatchet: the init leaves with the message and
\* its budget shrinks.
\* Mutants: one resend fewer; the ratchet is not written back.
AfterSeal_OneLess(s) ==
    LET t == [s EXCEPT !.ratchet = AfterEncrypt(@)]
    IN  IF s.pendingInit = {} THEN t
        ELSE IF s.pendingInitSends + 1 >= PENDING_INIT_MAX_RESENDS - 1
        THEN [t EXCEPT !.pendingInit = {}, !.pendingInitSends = 0]
        ELSE [t EXCEPT !.pendingInitSends = @ + 1]

AfterSeal_RatchetStays(s) ==
    IF s.pendingInit = {} THEN s ELSE [s EXCEPT !.pendingInitSends = @ + 1]

AfterSeal(s) ==
    LET t == [s EXCEPT !.ratchet = AfterEncrypt(@)]
    IN  IF s.pendingInit = {} THEN t
        ELSE IF s.pendingInitSends + 1 >= PENDING_INIT_MAX_RESENDS
        THEN [t EXCEPT !.pendingInit = {}, !.pendingInitSends = 0]
        ELSE [t EXCEPT !.pendingInitSends = @ + 1]

Envelope(s) == [msg |-> Sealed(s.ratchet), init |-> s.pendingInit]

\* decryptFromPeer: the live ratchet is tried first, then the archived ones,
\* newest first; the one that opens advances, and the handshake is confirmed.
ArchivedOpening(s, m, fresh) ==
    {k \in DOMAIN s.archived : Opens(s.archived[k], m, fresh)}

CanOpen(s, m, fresh) ==
    Opens(s.ratchet, m, fresh) \/ ArchivedOpening(s, m, fresh) # {}

\* Mutants: the archived ratchet that opened the message is not written back;
\* the count of resends outlives the init.
AfterOpen_ArchiveStays(s, m, fresh) ==
    [ (IF Opens(s.ratchet, m, fresh)
       THEN [s EXCEPT !.ratchet = AfterDecrypt(@, m, fresh)] ELSE s)
      EXCEPT !.pendingInit = {}, !.pendingInitSends = 0 ]

AfterOpen_CountStays(s, m, fresh) ==
    [ (IF Opens(s.ratchet, m, fresh)
       THEN [s EXCEPT !.ratchet = AfterDecrypt(@, m, fresh)]
       ELSE [s EXCEPT !.archived[Min(ArchivedOpening(s, m, fresh))] =
                         AfterDecrypt(@, m, fresh)])
      EXCEPT !.pendingInit = {} ]

AfterOpen(s, m, fresh) ==
    [ (IF Opens(s.ratchet, m, fresh)
       THEN [s EXCEPT !.ratchet = AfterDecrypt(@, m, fresh)]
       ELSE [s EXCEPT !.archived[Min(ArchivedOpening(s, m, fresh))] =
                         AfterDecrypt(@, m, fresh)])
      EXCEPT !.pendingInit = {}, !.pendingInitSends = 0 ]

\* Whether the ratchet that opens m makes a DH step, and so uses the fresh pair.
UsesFresh(s, m, fresh) ==
    IF Opens(s.ratchet, m, fresh) THEN StepsRatchet(s.ratchet, m.header)
    ELSE StepsRatchet(s.archived[Min(ArchivedOpening(s, m, fresh))], m.header)

----------------------------------------------------------------------------
(* Jobs *)

\* `got` is the record the call has loaded, `msg` the envelope it works on.
Idle == [at |-> "idle", got |-> {}, msg |-> 0]
At(c, phase) == job[c].at = phase
Goto(c, phase, got) == job' = [job EXCEPT ![c] = [at |-> phase, got |-> got, msg |-> @.msg]]
Finish(c) == job' = [job EXCEPT ![c] = Idle]
Sending(p) == {c \in Context : Dev(c) = p /\ job[c].at \in {"bootstrap", "seal"}}
Incoming(c) == wire[Peer(Dev(c))][job[c].msg]

Init ==
    /\ rec = [p \in Party |-> {}]
    /\ job = [c \in Context |-> Idle]
    /\ pool = [p \in Party |-> 1..Otps]
    /\ otpPriv = [p \in Party |-> 1..Otps]
    /\ consumed = [p \in Party |-> {}]
    /\ nextKey = [p \in Party |-> Otps + 1]
    /\ wire = [p \in Party |-> <<>>]
    /\ lost = [p \in Party |-> {}]
    /\ clears = 0 /\ faults = 0
    /\ opened = [p \in Party |-> <<>>]
    /\ accepted = [p \in Party |-> <<>>]

----------------------------------------------------------------------------
(* encryptForPeer *)

StartSend(c) ==
    LET p == Dev(c)
    IN  /\ At(c, "idle")
        /\ Len(wire[p]) + Cardinality(Sending(p)) < MaxMsgs
        /\ Goto(c, IF rec[p] = {} THEN "bootstrap" ELSE "seal", rec[p])
        /\ UNCHANGED <<rec, keys, nextKey, wire, lost, clears, faults, past>>

\* fetchBundle takes the lowest one-time prekey off the server, and the new
\* record is saved over whatever is there.
Bootstrap(c) ==
    LET p == Dev(c)
        otp == IF pool[Peer(p)] = {} THEN {} ELSE {Min(pool[Peer(p)])}
        new == Initiated(p, FreshKey(p), <<p, nextKey[p] + 1>>, otp)
    IN  /\ At(c, "bootstrap")
        /\ pool' = [pool EXCEPT ![Peer(p)] = @ \ otp]
        /\ nextKey' = [nextKey EXCEPT ![p] = @ + 2]
        /\ rec' = [rec EXCEPT ![p] = {new}]
        /\ Goto(c, "seal", {new})
        /\ UNCHANGED <<otpPriv, consumed, wire, lost, clears, faults, past>>

Seal(c) ==
    LET p == Dev(c)
    IN  /\ At(c, "seal")
        /\ \E s \in job[c].got :
              IF CanEncrypt(s.ratchet)
              THEN /\ wire' = [wire EXCEPT ![p] = Append(@, Envelope(s))]
                   /\ opened' = [opened EXCEPT ![p] = Append(@, 0)]
                   /\ rec' = [rec EXCEPT ![p] = {AfterSeal(s)}]
              ELSE UNCHANGED <<wire, opened, rec>>
        /\ Finish(c)
        /\ UNCHANGED <<keys, nextKey, lost, clears, faults, accepted>>

----------------------------------------------------------------------------
(* decryptFromPeer *)

\* The server offers wire[Peer][i], for the first time or again.
StartReceive(c, i) ==
    LET p == Dev(c)
        sent == wire[Peer(p)]
    IN  /\ At(c, "idle")
        /\ i \in DOMAIN sent \ lost[Peer(p)]
        /\ job' = [job EXCEPT ![c] =
                     [at |-> IF sent[i].init = {} THEN "load" ELSE "accept",
                      got |-> IF sent[i].init = {} THEN {} ELSE rec[p], msg |-> i]]
        /\ UNCHANGED <<rec, keys, nextKey, wire, lost, clears, faults, past>>

\* acceptIncomingInit.
Accept(c) ==
    LET p == Dev(c)
        existing == job[c].got
    IN  /\ At(c, "accept")
        /\ \E init \in Incoming(c).init :
              IF KeepsExisting(existing, init) \/ ~OtpUsable(p, init.otp)
              THEN /\ Goto(c, "load", {})
                   /\ UNCHANGED <<rec, accepted>>
              ELSE /\ rec' = [rec EXCEPT ![p] = {Accepted(p, init, existing)}]
                   /\ accepted' = [accepted EXCEPT ![p] =
                                     Append(@, x3dh(init.eph, p, init.otp))]
                   /\ Goto(c, IF init.otp = {} THEN "load" ELSE "burn", {})
        /\ UNCHANGED <<keys, nextKey, wire, lost, clears, faults, opened>>

\* markOtpConsumed, and the private key deleted.
Burn(c) ==
    LET p == Dev(c)
    IN  /\ At(c, "burn")
        /\ \E init \in Incoming(c).init :
              /\ consumed' = [consumed EXCEPT ![p] = @ \union init.otp]
              /\ otpPriv' = [otpPriv EXCEPT ![p] = @ \ init.otp]
        /\ Goto(c, "load", {})
        /\ UNCHANGED <<rec, pool, nextKey, wire, lost, clears, faults, past>>

Load(c) ==
    /\ At(c, "load")
    /\ IF rec[Dev(c)] = {} THEN Finish(c) ELSE Goto(c, "open", rec[Dev(c)])
    /\ UNCHANGED <<rec, keys, nextKey, wire, lost, clears, faults, past>>

Open(c) ==
    LET p == Dev(c)
        m == Incoming(c).msg
    IN  /\ At(c, "open")
        /\ \E s \in job[c].got :
              IF CanOpen(s, m, FreshKey(p))
              THEN /\ rec' = [rec EXCEPT ![p] = {AfterOpen(s, m, FreshKey(p))}]
                   /\ opened' = [opened EXCEPT ![Peer(p)][job[c].msg] = @ + 1]
                   /\ nextKey' = [nextKey EXCEPT ![p] =
                                    IF UsesFresh(s, m, FreshKey(p)) THEN @ + 1 ELSE @]
              ELSE UNCHANGED <<rec, opened, nextKey>>
        /\ Finish(c)
        /\ UNCHANGED <<keys, wire, lost, clears, faults, accepted>>

----------------------------------------------------------------------------
(* The environment *)

\* fetchIdentity fails in acceptIncomingInit, which is not fatal.
FetchFails(c) ==
    /\ At(c, "accept")
    /\ faults < MaxFaults
    /\ faults' = faults + 1
    /\ Goto(c, "load", {})
    /\ UNCHANGED <<rec, keys, nextKey, wire, lost, clears, past>>

\* The tab is closed, or the bundle cannot be fetched.
Abandon(c) ==
    /\ ~At(c, "idle")
    /\ faults < MaxFaults
    /\ faults' = faults + 1
    /\ Finish(c)
    /\ UNCHANGED <<rec, keys, nextKey, wire, lost, clears, past>>

\* clearDrSession: deletes the records of every device of the peer, this one's
\* too, though the key that changed may be another device's.
Clear(p) ==
    /\ rec[p] # {}
    /\ clears < MaxClears
    /\ clears' = clears + 1
    /\ rec' = [rec EXCEPT ![p] = {}]
    /\ UNCHANGED <<job, keys, nextKey, wire, lost, faults, past>>

Losses == Cardinality(UNION {{p} \X lost[p] : p \in Party})

\* A message is dropped by the network, or never posted.
Lose(p, i) ==
    /\ i \in DOMAIN wire[p] \ lost[p]
    /\ Losses < MaxLost
    /\ lost' = [lost EXCEPT ![p] = @ \union {i}]
    /\ UNCHANGED <<rec, job, keys, nextKey, wire, clears, faults, past>>

Step(c) == StartSend(c) \/ Bootstrap(c) \/ Seal(c) \/ Accept(c) \/ Burn(c) \/ Load(c) \/ Open(c)

Next ==
    \/ \E c \in Context :
          \/ Step(c) \/ FetchFails(c) \/ Abandon(c)
          \/ \E i \in 1..MaxMsgs : StartReceive(c, i)
    \/ \E p \in Party : Clear(p) \/ \E i \in 1..MaxMsgs : Lose(p, i)

Spec == Init /\ [][Next]_vars

\* wire[p][i] has arrived, or may still, and is not read.
Unread(p, i) == i \in DOMAIN wire[p] \ lost[p] /\ opened[p][i] = 0

\* A call that has the lock runs on; and the client asks for what it has not
\* acknowledged on every reconnect, so an unopened message is tried again and
\* again for as long as the device is up.
Fairness ==
    /\ \A c \in Context : WF_vars(~At(c, "idle") /\ Step(c))
    /\ \A c \in Context : \A i \in 1..MaxMsgs :
          SF_vars(Unread(Peer(Dev(c)), i) /\ StartReceive(c, i))

FairSpec == Spec /\ Fairness

----------------------------------------------------------------------------
(* Properties *)

\* The public keys that exist: prekeys, and the pairs generated so far.
Made == UNION { {p} \X (0..(nextKey[p] - 1)) : p \in Party }

InitPayloads(K) == [eph : K, otp : SUBSET (1..Otps)]

\* SerializedSession, with key material from the pairs in K only.
IsSession(s, K) ==
    /\ IsRatchetState(s.ratchet, K)
    /\ \A k \in DOMAIN s.archived : IsRatchetState(s.archived[k], K)
    /\ Len(s.archived) <= MAX_ARCHIVED_RATCHETS
    /\ s.pendingInit \subseteq InitPayloads(K) /\ s.pendingInitSends \in Nat
    /\ s.pendingInit = {} => s.pendingInitSends = 0
    /\ s.acceptedInit \subseteq K
    /\ s.superseded \in Seq(K) /\ Len(s.superseded) <= MAX_ARCHIVED_RATCHETS
    /\ s.log \in Seq(SUBSET K) /\ s.log # <<>>

\* The records have the shape of SerializedSession, a context that holds the
\* lock has what its phase needs, and the prekey sets are consistent.
TypeOK ==
    /\ \A p \in Party :
          /\ Cardinality(rec[p]) <= 1 /\ \A s \in rec[p] : IsSession(s, Made)
          /\ pool[p] \subseteq 1..Otps
          /\ otpPriv[p] = (1..Otps) \ consumed[p]
          /\ \A i \in DOMAIN wire[p] :
                wire[p][i].msg \in Message(Made) /\ wire[p][i].init \subseteq InitPayloads(Made)
          /\ lost[p] \subseteq DOMAIN wire[p]
          /\ DOMAIN opened[p] = DOMAIN wire[p]
    /\ \A c \in Context :
          /\ job[c].at \in {"idle", "bootstrap", "seal", "accept", "burn", "load", "open"}
          /\ \A s \in job[c].got : IsSession(s, Made)
          /\ job[c].at \in {"seal", "open"} => job[c].got # {}

\* No message key seals two messages of a device, across handshakes, resets,
\* superseded sessions and calls that write back what a reset deleted.
NoKeyReuse ==
    \A p, q \in Party : \A i \in DOMAIN wire[p], j \in DOMAIN wire[q] :
        wire[p][i].msg.key = wire[q][j].msg.key => p = q /\ i = j

Times(seq, x) == Cardinality({k \in DOMAIN seq : seq[k] = x})

\* Superseding a session loses no message: as long as no more than
\* MAX_ARCHIVED_RATCHETS handshakes came after it, whatever is sealed under a
\* handshake this record went through opens, the first time it is offered,
\* unless the sender ran that handshake twice.  acceptSession, decryptFromPeer.
SupersededStillOpen ==
    \A p \in Party : \A s \in rec[Peer(p)] : \A i \in DOMAIN wire[p] :
        LET m == wire[p][i].msg
            kept == {k \in DOMAIN s.log : k + MAX_ARCHIVED_RATCHETS >= Len(s.log)}
        IN  /\ opened[p][i] = 0
            /\ Handshake(m) \in {s.log[k] : k \in kept}
            /\ Times(accepted[p], Handshake(m)) <= 1
            /\ Times(accepted[Peer(p)], Handshake(m)) <= 1
            => CanOpen(s, m, FreshKey(Peer(p)))

\* A handshake a device has moved on from does not come back by itself: while
\* the record is not reset, no handshake is run again until more than
\* MAX_ARCHIVED_RATCHETS others have been retired after it (`superseded` holds
\* no more of them).
RetiredStaysRetired ==
    \A p \in Party : \A s \in rec[p] : \A i, j \in DOMAIN s.log :
        i < j /\ j - i <= MAX_ARCHIVED_RATCHETS + 1 => s.log[i] # s.log[j]

\* A one-time prekey seeds one session: a second run of its handshake takes a
\* tab that died between saving the session and burning the prekey.
OtpOnce ==
    \A p \in Party : \A i, j \in DOMAIN accepted[p] :
        /\ accepted[p][i] = accepted[p][j]
        /\ accepted[p][i] \intersect {OtpOf(p, k) : k \in 1..Otps} # {}
        /\ faults = 0
        => i = j

\* Redelivery never yields a plaintext twice, under a live ratchet or an
\* archived one, unless the receiver was reset and ran the handshake again.
OpenedOncePerHandshake ==
    \A p \in Party : \A i \in DOMAIN wire[p] :
        opened[p][i] <= Max({1, Times(accepted[Peer(p)], Handshake(wire[p][i].msg))})

\* Both devices hold sessions they initiated: neither accepts the other's
\* handshake any more (session-manager.ts leaves this glare as it is).
Glare == \A p \in Party : \E s \in rec[p] : s.acceptedInit = {}

\* With fewer than PENDING_INIT_MAX_RESENDS messages lost and nothing reset,
\* every message that arrives is read in the end: the handshake reaches the
\* responder with one of the first messages, or both sides initiated.
AllRead ==
    \A p \in Party : \A i \in 1..MaxMsgs :
        Unread(p, i) ~>
            \/ ~Unread(p, i)
            \/ Glare \/ clears > 0 \/ Losses >= PENDING_INIT_MAX_RESENDS

\* What one side seals under is a session the other can follow: a device that
\* ran the handshake its peer is on now is on it too.
RepliesFollow ==
    \A p \in Party : \A s \in rec[p], t \in rec[Peer(p)] :
        t.acceptedInit = {} /\ t.log[1] \in ToSet(s.log) => Last(s.log) = t.log[1]
=============================================================================
