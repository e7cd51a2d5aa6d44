------------------------------ MODULE SeatPool ------------------------------
(***************************************************************************)
(* What a guest link promises about its seats (guest-knock-store.ts:16-19, *)
(* guest.ts:192-199): an approval takes one of max_uses seats while the    *)
(* link is live, a seat is given back at most once, and the number of free *)
(* seats is known at all times.                                            *)
(***************************************************************************)
EXTENDS Naturals

CONSTANTS Ticket,   \* the approvals, each for a seat of its own
          MaxUses   \* the seats of the link

VARIABLES holders,  \* the approvals whose seat is taken
          free,     \* how many seats are left
          open      \* the link is neither revoked nor expired

vars == <<holders, free, open>>

Init == holders = {} /\ free = MaxUses /\ open = TRUE

Take(t) ==
  /\ open /\ free > 0 /\ t \notin holders
  /\ holders' = holders \cup {t}
  /\ free' = free - 1
  /\ UNCHANGED open

Return(t) ==
  /\ t \in holders
  /\ holders' = holders \ {t}
  /\ free' = free + 1
  /\ UNCHANGED open

Shut == open /\ open' = FALSE /\ UNCHANGED <<holders, free>>

Next == Shut \/ \E t \in Ticket : Take(t) \/ Return(t)

Spec == Init /\ [][Next]_vars
=============================================================================
