--------------------------- MODULE SecureChannel ---------------------------
(***************************************************************************)
(* What a ratchet session promises the two devices that share it: every    *)
(* message sealed is handed to the other side once, in any order.          *)
(***************************************************************************)
EXTENDS Naturals, Sequences

CONSTANTS Party, MaxMsgs

VARIABLE handed          \* handed[p][i]: times p's i-th message was handed over

Send(p) ==
    /\ Len(handed[p]) < MaxMsgs
    /\ handed' = [handed EXCEPT ![p] = Append(@, 0)]

Deliver(p, i) ==
    /\ i \in DOMAIN handed[p]
    /\ handed[p][i] = 0
    /\ handed' = [handed EXCEPT ![p][i] = 1]

Init == handed = [p \in Party |-> <<>>]

Next == \E p \in Party : Send(p) \/ \E i \in 1..MaxMsgs : Deliver(p, i)

Safety == Init /\ [][Next]_handed

Spec == Safety /\ \A p \in Party, i \in 1..MaxMsgs : WF_handed(Deliver(p, i))
=============================================================================
