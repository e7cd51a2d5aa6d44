------------------------------- MODULE DrPair -------------------------------
(***************************************************************************)
(* One established session between two devices, run by session-manager.ts  *)
(* (encryptForPeer, decryptFromPeer) over double-ratchet.ts.               *)
(*                                                                         *)
(* The server between them may hold a message back, reorder it, drop it or *)
(* hand it over twice: every message ever sealed stays available to the    *)
(* receiver.  Both calls work on a copy of the session record read from    *)
(* IndexedDB and write it back only when they succeed, so a decryption     *)
(* that throws changes nothing and is no step of the model.                *)
(***************************************************************************)
EXTENDS DoubleRatchet

CONSTANTS
    Party,            \* the two devices
    Alice,            \* the one that ran X3DH as the initiator
    MaxMsgs           \* bound: messages each device seals

ASSUME PartyAssumption ==
    /\ Alice \in Party
    /\ MaxMsgs \in Nat
    /\ \E q \in Party : q # Alice /\ Party = {Alice, q}

VARIABLES
    session,          \* session[p]: the RatchetState p has stored
    nextKey,          \* nextKey[p]: the X25519 pairs p has generated
    wire,             \* wire[p]: what p has sealed, in order
    opened            \* opened[p][i]: times the peer opened wire[p][i]

vars == <<session, nextKey, wire, opened>>

Peer(p) == CHOOSE q \in Party : q # p
Bob == Peer(Alice)

\* The pair the next call of generateX25519KeyPair() returns on p.
FreshKey(p) == <<p, nextKey[p]>>

----------------------------------------------------------------------------
\* Bob's ratchet starts from the signed prekey X3DH used, Alice's from a pair
\* of her own; both hold the X3DH secret, which no model root precedes.
Init ==
    /\ session = [p \in Party |->
                    IF p = Alice
                    THEN initRatchetAsAlice(<<>>, <<Alice, 0>>, <<Bob, 0>>)
                    ELSE initRatchetAsBob(<<>>, <<Bob, 0>>)]
    /\ nextKey = [p \in Party |-> 1]
    /\ wire = [p \in Party |-> <<>>]
    /\ opened = [p \in Party |-> <<>>]

\* encryptForPeer with a session in the store.
Encrypt(p) ==
    /\ Len(wire[p]) < MaxMsgs
    /\ CanEncrypt(session[p])
    /\ wire' = [wire EXCEPT ![p] = Append(@, Sealed(session[p]))]
    /\ opened' = [opened EXCEPT ![p] = Append(@, 0)]
    /\ session' = [session EXCEPT ![p] = AfterEncrypt(@)]
    /\ UNCHANGED nextKey

\* decryptFromPeer, on q, of the i-th message p sealed.
Decrypt(q, i) ==
    LET p == Peer(q)
        m == wire[p][i]
    IN  /\ i \in DOMAIN wire[p]
        /\ Opens(session[q], m, FreshKey(q))
        /\ session' = [session EXCEPT ![q] = AfterDecrypt(@, m, FreshKey(q))]
        /\ nextKey' = [nextKey EXCEPT ![q] =
                         IF StepsRatchet(session[q], m.header) THEN @ + 1 ELSE @]
        /\ opened' = [opened EXCEPT ![p][i] = @ + 1]
        /\ UNCHANGED wire

Next == \E p \in Party : Encrypt(p) \/ \E i \in 1..MaxMsgs : Decrypt(p, i)

\* The server keeps a message pending until the device acknowledges it, and
\* the client acknowledges only what it decrypted and asks again on every
\* reconnect: a message that can be opened is eventually offered again.
Fairness == \A q \in Party, i \in 1..MaxMsgs : WF_vars(Decrypt(q, i))

Spec == Init /\ [][Next]_vars
FairSpec == Spec /\ Fairness

----------------------------------------------------------------------------
(* Properties *)

\* The public keys generated so far, by either side.
Made == UNION { {p} \X (0..(nextKey[p] - 1)) : p \in Party }

\* The records have the shapes of RatchetState and RatchetMessage, no key in them
\* comes from a pair nobody generated, and every message has its delivery count.
TypeOK ==
    /\ nextKey \in [Party -> Nat]
    /\ DOMAIN session = Party
    /\ \A p \in Party : IsRatchetState(session[p], Made)
    /\ wire \in [Party -> Seq(Message(Made))]
    /\ opened \in [Party -> Seq(Nat)]
    /\ \A p \in Party : Len(opened[p]) = Len(wire[p])

\* No message key seals two messages, of one side or of both, however DH steps
\* and sends interleave (AES-GCM with an IV derived from the key: a second use
\* would be a nonce reuse).  encryptRatchet, dhRatchetStep.
NoKeyReuse ==
    \A p, q \in Party : \A i \in DOMAIN wire[p], j \in DOMAIN wire[q] :
        wire[p][i].key = wire[q][j].key => p = q /\ i = j

\* What the receiver has not opened of what p sealed before its i-th message.
Missing(p, i) == { j \in 1..(i - 1) : opened[p][j] = 0 }

\* Told from the traffic alone: the keys the receiver would have to hold once
\* it opened the i-th message fit both caps.
FitsCaps(p, i) ==
    /\ Cardinality(Missing(p, i)) <= GlobalSkipCap
    /\ \A j \in Missing(p, i) :
          Cardinality({ k \in Missing(p, i) :
                          wire[p][k].header.dhPub = wire[p][j].header.dhPub })
             <= MaxSkip

\* A message that was not opened yet opens now, whatever was lost, reordered or
\* replayed before it and however many DH steps were made since it was sealed,
\* unless that takes more skipped keys than the caps allow.  decryptRatchet,
\* cacheSkipped, tryDecryptSkipped.
Deliverable ==
    \A p \in Party : \A i \in DOMAIN wire[p] :
        opened[p][i] = 0 /\ FitsCaps(p, i)
            => Opens(session[Peer(p)], wire[p][i], FreshKey(Peer(p)))

\* Forward secrecy: neither side still holds a key, cached or in a chain, from
\* which the key of a message it has already sealed or opened follows.
ForwardSecrecy ==
    \A p \in Party : \A i \in DOMAIN wire[p] :
        LET key == wire[p][i].key
            sender == session[p]
            receiver == session[Peer(p)]
        IN  /\ \A c \in sender.sendChain : ~Derives(c, key)
            /\ opened[p][i] > 0 =>
                  /\ \A c \in receiver.recvChain : ~Derives(c, key)
                  /\ key \notin SkippedKeys(receiver)

\* The cache holds nothing a message cannot still use: each cached key sits at
\* the slot of one message that was sealed, passed over and never opened, no
\* bucket is empty, and both caps hold.  cacheSkipped, tryDecryptSkipped.
CacheExact ==
    \A q \in Party :
        LET s == session[q]
            p == Peer(q)
        IN  /\ \A r \in DOMAIN s.skipped :
                  DOMAIN s.skipped[r] # {} /\ Cardinality(DOMAIN s.skipped[r]) <= MaxSkip
            /\ totalSkipped(s) <= GlobalSkipCap
            /\ \A slot \in SkippedSlots(s) : \E i \in DOMAIN wire[p] :
                  /\ wire[p][i].header.dhPub = slot[1]
                  /\ wire[p][i].header.counter = slot[2]
                  /\ wire[p][i].key = s.skipped[slot[1]][slot[2]]
                  /\ opened[p][i] = 0

\* The session is a channel that hands every message over exactly once: never
\* twice however often the server redelivers it, and in the end always.
Channel == INSTANCE SecureChannel WITH handed <- opened
ExactlyOnce == Channel!Spec
AtMostOnce == Channel!Safety
=============================================================================
