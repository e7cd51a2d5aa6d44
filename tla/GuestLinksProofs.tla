-------------------------- MODULE GuestLinksProofs --------------------------
(***************************************************************************)
(* What GuestLinks guarantees for every number of seats, knocks and        *)
(* requests: the seats are counted as SeatPool promises, and there are     *)
(* never more guests on their first stay than seats.  The argument follows *)
(* one seat: a request takes it, the seat holder is remembered, one        *)
(* webhook takes the holder away and gives the seat back, and the guest    *)
(* whose grant it is has left the room by then.  Three shorter arguments   *)
(* rest on it: what a knock leaves at the door until whoever ends it has   *)
(* tidied up, why the list a device hydrates from is never cut, and why a  *)
(* kick is slipped past only where the removal by the webhook failed.      *)
(***************************************************************************)
EXTENDS GuestLinks, FiniteSetTheorems, TLAPS

Early == {"form", "checked", "reserved", "stored", "waiting"}

\* The path of a seat: counted as long as it is held, remembered or taken once.
Counted == used = Cardinality(holders)

Remembered ==
  /\ seats \subseteq holders /\ taken \subseteq holders
  /\ seats \cap taken = {}

Requests ==
  \A c \in Call :
    /\ host[c].at \in {"idle", "approving"} => c \notin holders
    /\ host[c].at \in {"seated", "granted", "released"} => c \in holders \ (seats \cup taken)

Ledger == Counted /\ Remembered /\ Requests

\* The path of a grant: only the knock a request decides ever holds it.
HasGrant(k, c) == c \in {store[k].grant, poll[k].answer.grant, guest[k].grant}

Grants ==
  \A k \in Knock, c \in Call :
    HasGrant(k, c) => host[c].of = k /\ host[c].at \in {"granted", "released", "done"}

Stays ==
  \A k \in Knock :
    /\ guest[k].at \in Early => guest[k].grant = NoCall /\ guest[k].stays = 0
    /\ guest[k].at \in {"away", "in"} => guest[k].grant \in Call
    /\ guest[k].at = "in" => guest[k].stays > 0
    /\ guest[k].grant = NoCall => guest[k].stays = 0
    /\ poll[k].answer.status = "approved" => poll[k].answer.grant \in Call
    /\ store[k].status = "approved" => store[k].grant \in Call

\* The guest with this grant has left the room at least once.
HasLeft(k) == guest[k].stays > 0 /\ ~(guest[k].at = "in" /\ guest[k].stays = 1)
Gone(c) == \E k \in Knock : guest[k].grant = c /\ HasLeft(k)

Departures ==
  /\ \A c \in left \cup taken : Gone(c)
  /\ \A k \in Knock, c \in Call : HasGrant(k, c) => c \in holders \/ Gone(c)

Inv == TypeOK /\ Ledger /\ Grants /\ Stays /\ Departures

LEMMA KnockShapes ==
  /\ \A v \in Knocks : v.grant \in Call \cup {NoCall} /\ (v.status = "approved" => v.grant \in Call)
  /\ Absent \in Knocks /\ Pending \in Knocks /\ Denied \in Knocks
  /\ \A c \in Call : Granted(c) \in Knocks
<1>1. ASSUME NEW v \in Knocks
      PROVE  v.grant \in Call \cup {NoCall} /\ (v.status = "approved" => v.grant \in Call)
  <2>1. CASE v \in {Absent, Pending, Denied}
    BY <2>1 DEF Absent, Pending, Denied
  <2>2. CASE \E c \in Call : v = Granted(c)
    BY <2>2 DEF Granted
  <2> QED
    BY <1>1, <2>1, <2>2 DEF Knocks
<1>2. \A c \in Call : Granted(c) \in Knocks
  BY DEF Knocks
<1> QED
  BY <1>1, <1>2 DEF Knocks

(***************************************************************************)
(* Types.                                                                  *)
(***************************************************************************)
LEMMA Moved ==
  ASSUME guest \in [Knock -> Page], NEW k \in Knock, NEW p, At(k, p),
         p \in {"form", "checked", "reserved", "stored", "waiting", "away", "in", "gone"}
  PROVE  guest' \in [Knock -> Page]
BY DEF At, Page

LEMMA Stepped ==
  ASSUME host \in [Call -> Request], NEW c \in Call, NEW p, Step(c, p),
         p \in {"idle", "approving", "denying", "seated", "refused", "granted", "released", "cleared", "done"}
  PROVE  host' \in [Call -> Request]
BY DEF Step, Request

LEMMA SteppedTo ==
  ASSUME host \in [Call -> Request], NEW c \in Call, NEW p, Step(c, p)
  PROVE  /\ host'[c].at = p
         /\ \A d \in Call : d # c => host'[d].at = host[d].at
         /\ \A d \in Call : host'[d].of = host[d].of
BY DEF Step, Request

LEMMA FreeSeats ==
  ASSUME used \in 0..MaxUses
  PROVE  MaxUses - used \in 0..MaxUses
BY LinkAssumption DEF LinkAssumption

\* A page stays one when its place and one more field move on.
LEMMA PageMoves ==
  ASSUME NEW x \in Page
  PROVE  /\ [x EXCEPT !.at = "gone"] \in Page
         /\ \A f \in 0..MaxUses : [x EXCEPT !.at = "checked", !.free = f] \in Page
         /\ \A g \in Call \cup {NoCall} : [x EXCEPT !.at = "away", !.grant = g] \in Page
         /\ \A n \in 0..MaxStays : [x EXCEPT !.at = "in", !.stays = n] \in Page
BY DEF Page

LEMMA TypeInit == Init => TypeOK
BY LinkAssumption, KnockShapes DEF Init, TypeOK, LinkAssumption, Page, Reading, Request

LEMMA TypeGuest ==
  ASSUME TypeOK, Stays, NEW k \in Knock, GuestStep(k)
  PROVE  TypeOK'
<1> USE LinkAssumption DEF LinkAssumption, TypeOK, redis, sfu
<1>1. CASE Ask(k)
  <2>1. MaxUses - used \in 0..MaxUses
    BY FreeSeats
  <2>2. [guest[k] EXCEPT !.at = "checked", !.free = MaxUses - used] \in Page
    BY <2>1, PageMoves
  <2>3. guest' \in [Knock -> Page]
    BY <1>1, <2>2 DEF Ask
  <2> QED
    BY <1>1, <2>3 DEF Ask
<1>2. CASE Reserve(k)
  BY <1>2, Moved DEF Reserve
<1>3. CASE Save(k)
  BY <1>3, KnockShapes, Moved DEF Save
<1>4. CASE Announce(k)
  BY <1>4, Moved DEF Announce, Indexed
<1>5. CASE Hydrate(k)
  BY <1>5 DEF Hydrate
<1>6. CASE Expire(k)
  BY <1>6 DEF Expire
<1>7. CASE Poll(k)
  BY <1>7, KnockShapes DEF Poll, getKnock, Reading
<1>8. CASE PollConsume(k)
  BY <1>8, KnockShapes DEF PollConsume, ConsumeKnock, Reading
<1>9. CASE PollAnswer(k)
  <2>1. poll' \in [Knock -> Reading]
    BY <1>9, KnockShapes DEF PollAnswer, Reading
  <2>2. guest' \in [Knock -> Page]
    <3>1. CASE UNCHANGED guest
      BY <3>1
    <3>2. CASE At(k, "gone")
      BY <3>2, Moved
    <3>3. CASE guest' = [guest EXCEPT ![k] = [@ EXCEPT !.at = "away", !.grant = poll[k].answer.grant]]
      <4>1. poll[k].answer.grant \in Call \cup {NoCall}
        BY KnockShapes DEF Reading
      <4>2. [guest[k] EXCEPT !.at = "away", !.grant = poll[k].answer.grant] \in Page
        BY <4>1, PageMoves
      <4> QED
        BY <3>3, <4>2
    <3> QED
      BY <1>9, <3>1, <3>2, <3>3 DEF PollAnswer
  <2> QED
    BY <1>9, <2>1, <2>2 DEF PollAnswer, Fault, Freed
<1>10. CASE Cancel(k)
  BY <1>10, Moved DEF Cancel
<1>11. CASE CancelConsume(k)
  BY <1>11, KnockShapes DEF CancelConsume, ConsumeKnock
<1>12. CASE CancelRelease(k)
  BY <1>12 DEF CancelRelease, Freed
<1>13. CASE Quit(k)
  BY <1>13, Moved DEF Quit
<1>14. CASE Join(k)
  <2>1. guest' \in [Knock -> Page]
    <3>1. guest[k].stays + 1 \in 0..MaxStays
      BY <1>14 DEF Join, Page
    <3>2. [guest[k] EXCEPT !.at = "in", !.stays = guest[k].stays + 1] \in Page
      BY <3>1, PageMoves
    <3> QED
      BY <1>14, <3>2 DEF Join
  <2>2. guest[k].grant \in Call
    BY <1>14 DEF Join, Stays
  <2> QED
    BY <1>14, <2>1, <2>2 DEF Join
<1>15. CASE Leave(k)
  <2>1. guest[k].grant \in Call
    BY <1>15 DEF Leave, Stays
  <2> QED
    BY <1>15, <2>1, Moved DEF Leave, Out
<1> QED
  BY <1>1, <1>2, <1>3, <1>4, <1>5, <1>6, <1>7, <1>8, <1>9, <1>10, <1>11, <1>12, <1>13, <1>14, <1>15
     DEF GuestStep

LEMMA TypeHost ==
  ASSUME TypeOK, NEW c \in Call, HostStep(c)
  PROVE  TypeOK'
<1> USE LinkAssumption DEF LinkAssumption, TypeOK, redis, sfu
<1>1. CASE Decide(c)
  BY <1>1 DEF Decide, Request
<1>2. CASE ConsumeInviteSeat(c)
  <2>1. host' \in [Call -> Request]
    BY <1>2, Stepped DEF ConsumeInviteSeat
  <2> QED
    BY <1>2, <2>1 DEF ConsumeInviteSeat, SeatLeft, OneMore
<1>3. CASE Refuse(c)
  BY <1>3, KnockShapes, Stepped DEF Refuse, ConsumeKnock
<1>4. CASE SaveDecision(c)
  <2>1. host' \in [Call -> Request]
    BY <1>4, Stepped DEF SaveDecision
  <2> QED
    BY <1>4, <2>1, KnockShapes DEF SaveDecision, SaveKnock
<1>5. CASE Release(c)
  <2>1. host' \in [Call -> Request]
    BY <1>5, Stepped DEF Release
  <2> QED
    BY <1>5, <2>1 DEF Release, Freed
<1>6. CASE RememberSeatHolder(c)
  BY <1>6, Stepped DEF RememberSeatHolder
<1>7. CASE Kick(c)
  BY <1>7 DEF Kick, Listed
<1>8. CASE KickRemove(c)
  BY <1>8, Moved DEF KickRemove, Out, Fault
<1> QED
  BY <1>1, <1>2, <1>3, <1>4, <1>5, <1>6, <1>7, <1>8 DEF HostStep

LEMMA TypeHook ==
  ASSUME TypeOK, NEW c \in Call, HookStep(c)
  PROVE  TypeOK'
<1> USE LinkAssumption DEF LinkAssumption, TypeOK, redis, sfu
<1>1. CASE JoinedHook(c)
  BY <1>1 DEF JoinedHook
<1>2. CASE RemoveAgain(c)
  <2>1. guest' \in [Knock -> Page]
    BY <1>2, Moved DEF RemoveAgain, Out
  <2>2. left' \subseteq Call
    BY <1>2 DEF RemoveAgain, Out
  <2> QED
    BY <1>2, <2>1, <2>2 DEF RemoveAgain, Fault
<1>3. CASE LeftHook(c)
  BY <1>3 DEF LeftHook, Unremembered, Fault
<1>4. CASE GiveBack(c)
  BY <1>4 DEF GiveBack
<1> QED
  BY <1>1, <1>2, <1>3, <1>4 DEF HookStep

LEMMA TypeRestart ==
  ASSUME TypeOK, Restart
  PROVE  TypeOK'
<1> USE DEF TypeOK, Restart, redis
<1>1. guest' \in [Knock -> Page]
  <2>1. ASSUME NEW k \in Knock PROVE [guest[k] EXCEPT !.at = "gone"] \in Page
    BY PageMoves
  <2> QED
    BY <2>1
<1>2. poll' \in [Knock -> Reading]
  BY KnockShapes DEF Reading
<1>3. host' \in [Call -> Request]
  BY DEF Request
<1> QED
  BY <1>1, <1>2, <1>3, LinkAssumption DEF Fault, LinkAssumption

(***************************************************************************)
(* The path of a seat.                                                     *)
(***************************************************************************)
LEMMA LedgerInit == Init => Ledger
BY FS_EmptySet DEF Init, Ledger, Counted, Remembered, Requests

\* Steps that move no seat.
LEMMA LedgerKept ==
  ASSUME Ledger, UNCHANGED <<used, holders, seats, taken, host>>
  PROVE  Ledger'
BY DEF Ledger, Counted, Remembered, Requests

LEMMA LedgerGuest ==
  ASSUME Ledger, NEW k \in Knock, GuestStep(k)
  PROVE  Ledger'
<1>1. UNCHANGED <<used, holders, seats, taken, host>>
  BY DEF GuestStep, Ask, Reserve, Save, Announce, Hydrate, Expire, Poll, PollConsume, PollAnswer,
         Cancel, CancelConsume, CancelRelease, Quit, Join, Leave, redis, sfu
<1> QED
  BY <1>1, LedgerKept

LEMMA LedgerHost ==
  ASSUME TypeOK, Ledger, NEW c \in Call, HostStep(c)
  PROVE  Ledger'
<1> USE DEF Ledger, redis, sfu
<1>0. IsFiniteSet(holders) /\ host \in [Call -> Request]
  BY LinkAssumption, FS_Subset DEF LinkAssumption, TypeOK
<1>1. CASE Decide(c)
  BY <1>0, <1>1 DEF Decide, Counted, Remembered, Requests
<1>2. CASE ConsumeInviteSeat(c)
  <2>1. CASE SeatLeft
    <3>1. c \notin holders
      BY <1>2 DEF ConsumeInviteSeat, Requests
    <3>2. Cardinality(holders \cup {c}) = Cardinality(holders) + 1
      BY <1>0, <3>1, FS_AddElement
    <3>3. UNCHANGED <<seats, taken>> /\ used' = used + 1 /\ holders' = holders \cup {c} /\ Step(c, "seated")
      BY <1>2, <2>1 DEF ConsumeInviteSeat, OneMore
    <3>4. Counted'
      BY <3>2, <3>3 DEF Counted
    <3>5. Remembered' /\ Requests'
      BY <1>0, <3>1, <3>3, SteppedTo DEF Remembered, Requests
    <3> QED
      BY <3>4, <3>5
  <2>2. CASE ~SeatLeft
    BY <1>0, <1>2, <2>2, SteppedTo DEF ConsumeInviteSeat, Counted, Remembered, Requests
  <2> QED
    BY <2>1, <2>2
<1>3. CASE Refuse(c)
  BY <1>0, <1>3, SteppedTo DEF Refuse, Counted, Remembered, Requests
<1>4. CASE SaveDecision(c)
  BY <1>0, <1>4, SteppedTo DEF SaveDecision, Counted, Remembered, Requests
<1>5. CASE Release(c)
  BY <1>0, <1>5, SteppedTo DEF Release, Counted, Remembered, Requests
<1>6. CASE RememberSeatHolder(c)
  BY <1>0, <1>6, SteppedTo DEF RememberSeatHolder, Counted, Remembered, Requests
<1>7. CASE Kick(c) \/ KickRemove(c)
  BY <1>7, LedgerKept DEF Kick, KickRemove
<1> QED
  BY <1>1, <1>2, <1>3, <1>4, <1>5, <1>6, <1>7 DEF HostStep

LEMMA LedgerHook ==
  ASSUME TypeOK, Ledger, NEW c \in Call, HookStep(c)
  PROVE  Ledger'
<1> USE DEF Ledger, redis, sfu
<1>0. IsFiniteSet(holders) /\ Cardinality(holders) \in Nat
  BY LinkAssumption, FS_Subset, FS_CardinalityType DEF LinkAssumption, TypeOK
<1>1. CASE JoinedHook(c) \/ RemoveAgain(c)
  BY <1>1, LedgerKept DEF JoinedHook, RemoveAgain
<1>2. CASE LeftHook(c)
  BY <1>2 DEF LeftHook, Unremembered, Counted, Remembered, Requests
<1>3. CASE GiveBack(c)
  <2>1. c \in holders
    BY <1>3 DEF GiveBack, Remembered
  <2>2. Cardinality(holders \ {c}) = Cardinality(holders) - 1
    BY <1>0, <2>1, FS_RemoveElement
  <2>3. used > 0
    BY <1>0, <2>2, FS_RemoveElement, FS_CardinalityType DEF Counted
  <2>4. Counted'
    BY <1>3, <2>2, <2>3 DEF GiveBack, Counted
  <2> QED
    BY <1>3, <2>1, <2>4 DEF GiveBack, Remembered, Requests
<1> QED
  BY <1>1, <1>2, <1>3 DEF HookStep

LEMMA LedgerRestart ==
  ASSUME Ledger, Restart
  PROVE  Ledger'
BY DEF Ledger, Restart, redis, Counted, Remembered, Requests

(***************************************************************************)
(* The path of a grant.                                                    *)
(***************************************************************************)
Late == {"granted", "released", "done"}

\* What every step but SaveDecision keeps of grants and departures.
Onward ==
  /\ \A k \in Knock, c \in Call : HasGrant(k, c)' => HasGrant(k, c)
  /\ \A k \in Knock : HasLeft(k) => HasLeft(k)' /\ guest'[k].grant = guest[k].grant
  /\ \A c \in left' \cup taken' : c \in left \cup taken \/ Gone(c)'
  /\ \A c \in holders : c \in holders' \/ c \in taken
  /\ \A c \in Call : host[c].at \in Late => host'[c].at \in Late /\ host'[c].of = host[c].of

LEMMA GoneStays ==
  ASSUME Onward, NEW c, Gone(c)
  PROVE  Gone(c)'
BY DEF Onward, Gone

LEMMA GrantsGoOn ==
  ASSUME Grants, Departures, Onward
  PROVE  Grants' /\ Departures'
<1>1. Grants'
  BY DEF Grants, Onward, Late
<1>2. \A c \in left' \cup taken' : Gone(c)'
  BY GoneStays DEF Departures, Onward
<1>3. ASSUME NEW k \in Knock, NEW c \in Call, HasGrant(k, c)'
      PROVE  c \in holders' \/ Gone(c)'
  <2>1. c \in holders \/ Gone(c)
    BY <1>3 DEF Departures, Onward
  <2>2. CASE c \in holders /\ c \notin holders'
    BY <2>2, GoneStays DEF Departures, Onward
  <2> QED
    BY <2>1, <2>2, GoneStays
<1> QED
  BY <1>1, <1>2, <1>3 DEF Departures

\* A page that goes somewhere keeps its grant and its stays.
LEMMA MovedTo ==
  ASSUME guest \in [Knock -> Page], NEW k \in Knock, NEW p, At(k, p)
  PROVE  /\ guest'[k].at = p /\ guest'[k].grant = guest[k].grant /\ guest'[k].stays = guest[k].stays
         /\ \A j \in Knock : j # k => guest'[j] = guest[j]
BY DEF At, Page

\* Whoever is put out of the room has left it.
LEMMA OutLeaves ==
  ASSUME guest \in [Knock -> Page], Stays, NEW k \in Knock, guest[k].at = "in", Out(k),
         UNCHANGED <<store, poll, host, holders, taken>>
  PROVE  Onward /\ Stays'
<1>1. /\ guest'[k].at = "away" /\ guest'[k].grant = guest[k].grant /\ guest'[k].stays = guest[k].stays
      /\ \A j \in Knock : j # k => guest'[j] = guest[j]
  BY MovedTo DEF Out
<1>2. HasLeft(k)' /\ guest[k].grant \in Call
  BY <1>1 DEF HasLeft, Stays
<1>3. Stays'
  BY <1>1 DEF Stays, Early
<1>4. \A c \in left' \cup taken' : c \in left \cup taken \/ Gone(c)'
  BY <1>1, <1>2 DEF Out, Gone
<1>5. \A j \in Knock : HasLeft(j) => HasLeft(j)' /\ guest'[j].grant = guest[j].grant
  BY <1>1, <1>2 DEF HasLeft
<1>6. \A j \in Knock, c \in Call : HasGrant(j, c)' => HasGrant(j, c)
  BY <1>1 DEF HasGrant
<1> QED
  BY <1>3, <1>4, <1>5, <1>6 DEF Onward

\* Steps that leave the pages where they are, and write no grant.
LEMMA PagesStay ==
  ASSUME Stays, UNCHANGED <<guest, poll, left, taken, holders>>,
         \A k \in Knock : store'[k] \in {store[k], Absent, Pending, Denied},
         \A c \in Call : host[c].at \in Late => host'[c].at \in Late /\ host'[c].of = host[c].of
  PROVE  Onward /\ Stays'
<1>1. \A k \in Knock, c \in Call : HasGrant(k, c)' => HasGrant(k, c)
  BY LinkAssumption DEF HasGrant, Absent, Pending, Denied, LinkAssumption
<1>2. Stays'
  BY DEF Stays, Absent, Pending, Denied
<1> QED
  BY <1>1, <1>2 DEF Onward, HasLeft, Gone

LEMMA GrantsGuest ==
  ASSUME TypeOK, Stays, Grants, NEW k \in Knock, GuestStep(k)
  PROVE  Onward /\ Stays'
<1> USE DEF redis, sfu
<1>0. guest \in [Knock -> Page] /\ poll \in [Knock -> Reading] /\ store \in [Knock -> Knocks]
  BY DEF TypeOK
<1>1. CASE Ask(k)
  <2>1. /\ guest'[k].at = "checked" /\ guest'[k].grant = guest[k].grant /\ guest'[k].stays = guest[k].stays
        /\ \A j \in Knock : j # k => guest'[j] = guest[j]
    BY <1>0, <1>1 DEF Ask, Page
  <2> QED
    BY <1>1, <2>1 DEF Ask, Onward, Stays, Early, HasGrant, HasLeft
<1>2. CASE Reserve(k)
  <2>1. PICK p \in {"reserved", "form"} : At(k, p)
    BY <1>2 DEF Reserve
  <2>2. /\ guest'[k].at = p /\ guest'[k].grant = guest[k].grant /\ guest'[k].stays = guest[k].stays
        /\ \A j \in Knock : j # k => guest'[j] = guest[j]
    BY <1>0, <2>1, MovedTo
  <2> QED
    BY <1>2, <2>2 DEF Reserve, Onward, Stays, Early, HasGrant, HasLeft
<1>3. CASE Save(k)
  <2>1. /\ guest'[k].at = "stored" /\ guest'[k].grant = guest[k].grant /\ guest'[k].stays = guest[k].stays
        /\ \A j \in Knock : j # k => guest'[j] = guest[j]
    BY <1>0, <1>3, MovedTo DEF Save
  <2>2. store'[k] = Pending /\ \A j \in Knock : j # k => store'[j] = store[j]
    BY <1>0, <1>3 DEF Save
  <2> QED
    BY <1>3, <2>1, <2>2, LinkAssumption
       DEF Save, Onward, Stays, Early, HasGrant, HasLeft, Pending, LinkAssumption
<1>4. CASE Announce(k)
  <2>1. /\ guest'[k].at = "waiting" /\ guest'[k].grant = guest[k].grant /\ guest'[k].stays = guest[k].stays
        /\ \A j \in Knock : j # k => guest'[j] = guest[j]
    BY <1>0, <1>4, MovedTo DEF Announce
  <2> QED
    BY <1>4, <2>1 DEF Announce, Onward, Stays, Early, HasGrant, HasLeft
<1>5. CASE Hydrate(k) \/ Expire(k) \/ CancelRelease(k)
  BY <1>5, PagesStay DEF Hydrate, Expire, CancelRelease
<1>6. CASE CancelConsume(k)
  BY <1>0, <1>6, PagesStay DEF CancelConsume, ConsumeKnock
<1>7. CASE Poll(k)
  <2>1. getKnock(k) = store[k]
    BY <1>7 DEF Poll, getKnock, Absent
  <2>2. poll'[k].answer = store[k] /\ \A j \in Knock : j # k => poll'[j] = poll[j]
    BY <1>0, <1>7, <2>1 DEF Poll
  <2> QED
    BY <1>7, <2>2 DEF Poll, Onward, Stays, HasGrant, HasLeft
<1>8. CASE PollConsume(k)
  <2>1. \A j \in Knock : poll'[j].answer = poll[j].answer
    BY <1>0, <1>8 DEF PollConsume, Reading
  <2>2. \A j \in Knock : store'[j] \in {store[j], Absent}
    BY <1>0, <1>8 DEF PollConsume, ConsumeKnock
  <2> QED
    BY <1>8, <2>1, <2>2, LinkAssumption
       DEF PollConsume, Onward, Stays, HasGrant, HasLeft, Absent, LinkAssumption
<1>9. CASE PollAnswer(k)
  <2>1. poll'[k].answer = Absent /\ \A j \in Knock : j # k => poll'[j] = poll[j]
    BY <1>0, <1>9 DEF PollAnswer, Reading
  <2>2. CASE UNCHANGED guest
    BY <1>9, <2>1, <2>2, LinkAssumption
       DEF PollAnswer, Onward, Stays, HasGrant, HasLeft, Absent, LinkAssumption
  <2>3. CASE guest[k].at = "waiting" /\ At(k, "gone")
    <3>1. /\ guest'[k].at = "gone" /\ guest'[k].grant = guest[k].grant /\ guest'[k].stays = guest[k].stays
          /\ \A j \in Knock : j # k => guest'[j] = guest[j]
      BY <1>0, <2>3, MovedTo
    <3> QED
      BY <1>9, <2>1, <2>3, <3>1, LinkAssumption
         DEF PollAnswer, Onward, Stays, Early, HasGrant, HasLeft, Absent, LinkAssumption
  <2>4. CASE /\ guest[k].at = "waiting" /\ poll[k].answer.status = "approved"
             /\ guest' = [guest EXCEPT ![k] = [@ EXCEPT !.at = "away", !.grant = poll[k].answer.grant]]
    <3>1. /\ guest'[k].at = "away" /\ guest'[k].grant = poll[k].answer.grant /\ guest'[k].stays = guest[k].stays
          /\ \A j \in Knock : j # k => guest'[j] = guest[j]
      BY <1>0, <2>4 DEF Page
    <3>2. poll[k].answer.grant \in Call /\ guest[k].stays = 0
      BY <2>4 DEF Stays, Early
    <3> QED
      BY <1>9, <2>1, <3>1, <3>2, LinkAssumption
         DEF PollAnswer, Onward, Stays, Early, HasGrant, HasLeft, Absent, LinkAssumption
  <2> QED
    BY <1>9, <2>2, <2>3, <2>4 DEF PollAnswer
<1>10. CASE Cancel(k) \/ Quit(k)
  <2>1. /\ guest'[k].at = "gone" /\ guest'[k].grant = guest[k].grant /\ guest'[k].stays = guest[k].stays
        /\ \A j \in Knock : j # k => guest'[j] = guest[j]
    BY <1>0, <1>10, MovedTo DEF Cancel, Quit
  <2>2. guest[k].at # "in"
    BY <1>10 DEF Cancel, Quit
  <2> QED
    BY <1>10, <2>1, <2>2 DEF Cancel, Quit, Onward, Stays, Early, HasGrant, HasLeft
<1>11. CASE Join(k)
  <2>1. /\ guest'[k].at = "in" /\ guest'[k].grant = guest[k].grant /\ guest'[k].stays = guest[k].stays + 1
        /\ \A j \in Knock : j # k => guest'[j] = guest[j]
    BY <1>0, <1>11 DEF Join, Page
  <2>2. guest[k].stays \in Nat /\ guest[k].at = "away"
    BY <1>0, <1>11 DEF Join, Page
  <2>3. Stays'
    BY <1>11, <2>1, <2>2, LinkAssumption DEF Join, Stays, Early, LinkAssumption
  <2>4. HasLeft(k) => HasLeft(k)'
    BY <2>1, <2>2 DEF HasLeft
  <2> QED
    BY <1>11, <2>1, <2>3, <2>4 DEF Join, Onward, HasGrant, HasLeft
<1>12. CASE Leave(k)
  BY <1>0, <1>12, OutLeaves DEF Leave
<1> QED
  BY <1>1, <1>2, <1>3, <1>4, <1>5, <1>6, <1>7, <1>8, <1>9, <1>10, <1>11, <1>12 DEF GuestStep

LEMMA GrantsHost ==
  ASSUME TypeOK, Stays, Grants, Departures, Ledger, NEW c \in Call, HostStep(c)
  PROVE  Grants' /\ Departures' /\ Stays'
<1> USE DEF redis, sfu
<1>0. /\ guest \in [Knock -> Page] /\ store \in [Knock -> Knocks] /\ host \in [Call -> Request]
  BY DEF TypeOK
<1>1. CASE Decide(c)
  <2>1. \A d \in Call : d # c => host'[d] = host[d]
    BY <1>0, <1>1 DEF Decide
  <2>2. host[c].at \notin Late
    BY <1>1 DEF Decide, Late
  <2> QED
    BY <1>1, <2>1, <2>2, PagesStay, GrantsGoOn DEF Decide
<1>2. CASE ConsumeInviteSeat(c)
  <2>1. host[c].at \notin Late /\ \A d \in Call : d # c => host'[d].at = host[d].at /\ host'[d].of = host[d].of
    BY <1>0, <1>2, SteppedTo DEF ConsumeInviteSeat, Late
  <2>2. holders \subseteq holders'
    BY <1>2 DEF ConsumeInviteSeat
  <2>3. Onward /\ Stays'
    BY <1>2, <2>1, <2>2 DEF ConsumeInviteSeat, Onward, Stays, HasGrant, HasLeft
  <2> QED
    BY <2>3, GrantsGoOn
<1>3. CASE Refuse(c)
  <2>1. host[c].at \notin Late /\ \A d \in Call : d # c => host'[d].at = host[d].at /\ host'[d].of = host[d].of
    BY <1>0, <1>3, SteppedTo DEF Refuse, Late
  <2>2. \A k \in Knock : store'[k] \in {store[k], Absent}
    BY <1>0, <1>3 DEF Refuse, ConsumeKnock
  <2> QED
    BY <1>3, <2>1, <2>2, PagesStay, GrantsGoOn DEF Refuse
<1>4. CASE host[c].at = "denying" /\ SaveDecision(c)
  <2>1. host[c].at \notin Late /\ \A d \in Call : d # c => host'[d].at = host[d].at /\ host'[d].of = host[d].of
    BY <1>0, <1>4, SteppedTo DEF SaveDecision, Late
  <2>2. \A k \in Knock : store'[k] \in {store[k], Denied}
    BY <1>0, <1>4 DEF SaveDecision, SaveKnock
  <2> QED
    BY <1>4, <2>1, <2>2, PagesStay, GrantsGoOn DEF SaveDecision
<1>5. CASE host[c].at = "seated" /\ SaveDecision(c)
  <2>1. /\ host'[c].at = "granted" /\ \A d \in Call : host'[d].of = host[d].of
        /\ \A d \in Call : d # c => host'[d].at = host[d].at
    BY <1>0, <1>5, SteppedTo DEF SaveDecision
  <2>2. \A k \in Knock : store'[k] = store[k] \/ (k = host[c].of /\ store'[k] = Granted(c))
    BY <1>0, <1>5 DEF SaveDecision, SaveKnock
  <2>3. \A k \in Knock, d \in Call : HasGrant(k, d)' => HasGrant(k, d) \/ (d = c /\ k = host[c].of)
    BY <1>5, <2>2 DEF SaveDecision, HasGrant, Granted
  <2>4. c \in holders
    BY <1>5 DEF Ledger, Requests
  <2>5. Grants'
    BY <2>1, <2>3 DEF Grants
  <2>6. Departures'
    BY <1>5, <2>3, <2>4 DEF SaveDecision, Departures, Gone, HasLeft
  <2>7. Stays'
    BY <1>5, <2>2 DEF SaveDecision, Stays, Granted
  <2> QED
    BY <2>5, <2>6, <2>7
<1>6. CASE Release(c)
  <2>1. /\ \A d \in Call : host'[d].of = host[d].of
        /\ \A d \in Call : host[d].at \in Late => host'[d].at \in Late
    BY <1>0, <1>6, SteppedTo DEF Release, Late
  <2> QED
    BY <1>6, <2>1, PagesStay, GrantsGoOn DEF Release
<1>7. CASE RememberSeatHolder(c)
  <2>1. /\ \A d \in Call : host'[d].of = host[d].of
        /\ \A d \in Call : host[d].at \in Late => host'[d].at \in Late
    BY <1>0, <1>7, SteppedTo DEF RememberSeatHolder, Late
  <2> QED
    BY <1>7, <2>1, PagesStay, GrantsGoOn DEF RememberSeatHolder
<1>8. CASE Kick(c)
  BY <1>8, PagesStay, GrantsGoOn DEF Kick
<1>9. CASE KickRemove(c)
  <2>1. CASE \E k \in Knock : guest[k].at = "in" /\ guest[k].grant = c /\ Out(k)
    BY <1>0, <1>9, <2>1, OutLeaves, GrantsGoOn DEF KickRemove
  <2>2. CASE UNCHANGED <<guest, left>>
    BY <1>9, <2>2, PagesStay, GrantsGoOn DEF KickRemove
  <2> QED
    BY <1>9, <2>1, <2>2 DEF KickRemove
<1> QED
  BY <1>1, <1>2, <1>3, <1>4, <1>5, <1>6, <1>7, <1>8, <1>9 DEF HostStep, SaveDecision

LEMMA GrantsHook ==
  ASSUME TypeOK, Stays, Grants, Departures, NEW c \in Call, HookStep(c)
  PROVE  Grants' /\ Departures' /\ Stays'
<1> USE DEF redis, sfu
<1>0. guest \in [Knock -> Page]
  BY DEF TypeOK
<1>1. CASE JoinedHook(c)
  BY <1>1, PagesStay, GrantsGoOn DEF JoinedHook
<1>2. CASE RemoveAgain(c)
  <2>1. CASE \E k \in Knock : guest[k].at = "in" /\ guest[k].grant = c /\ Out(k)
    BY <1>0, <1>2, <2>1, OutLeaves, GrantsGoOn DEF RemoveAgain
  <2>2. CASE UNCHANGED <<guest, left>>
    BY <1>2, <2>2, PagesStay, GrantsGoOn DEF RemoveAgain
  <2> QED
    BY <1>2, <2>1, <2>2 DEF RemoveAgain
<1>3. CASE LeftHook(c)
  <2>1. left' \cup taken' \subseteq left \cup taken
    BY <1>3 DEF LeftHook
  <2>2. Onward /\ Stays'
    BY <1>3, <2>1 DEF LeftHook, Onward, Stays, HasGrant, HasLeft
  <2> QED
    BY <2>2, GrantsGoOn
<1>4. CASE GiveBack(c)
  <2>1. Onward /\ Stays'
    BY <1>4 DEF GiveBack, Onward, Stays, HasGrant, HasLeft
  <2> QED
    BY <2>1, GrantsGoOn
<1> QED
  BY <1>1, <1>2, <1>3, <1>4 DEF HookStep

LEMMA GrantsRestart ==
  ASSUME TypeOK, Stays, Grants, Departures, Restart
  PROVE  Grants' /\ Departures' /\ Stays'
<1>1. \A k \in Knock : /\ guest'[k].grant = guest[k].grant /\ guest'[k].stays = guest[k].stays
                       /\ guest'[k].at = guest[k].at \/ (guest[k].at \in Early /\ guest'[k].at = "gone")
  BY DEF Restart, TypeOK, Page, Early
<1>2. \A k \in Knock : poll'[k].answer = Absent
  BY DEF Restart
<1>3. \A c \in Call : host[c].at \in Late => host'[c].at \in Late /\ host'[c].of = host[c].of
  BY DEF Restart, TypeOK, Request, Late
<1>4. UNCHANGED <<store, left, holders>> /\ taken' = {}
  BY DEF Restart, redis
<1>5. Stays'
  BY <1>1, <1>2, <1>4 DEF Stays, Early, Absent
<1>6. \A k \in Knock, c \in Call : HasGrant(k, c)' => HasGrant(k, c)
  BY <1>1, <1>2, <1>4, LinkAssumption DEF HasGrant, Absent, LinkAssumption
<1>7. \A k \in Knock : HasLeft(k) => HasLeft(k)' /\ guest'[k].grant = guest[k].grant
  BY <1>1 DEF HasLeft, Stays, Early
<1>8. Onward
  BY <1>3, <1>4, <1>6, <1>7 DEF Onward
<1> QED
  BY <1>5, <1>8, GrantsGoOn

(***************************************************************************)
(* The theorems.                                                           *)
(***************************************************************************)
LEMMA InvInit == Init => Inv
<1> SUFFICES ASSUME Init PROVE Inv
  OBVIOUS
<1>1. Stays /\ Grants /\ Departures
  BY LinkAssumption DEF Init, Stays, Grants, Departures, HasGrant, Early, Absent, LinkAssumption
<1> QED
  BY <1>1, TypeInit, LedgerInit DEF Inv

LEMMA InvStutter ==
  ASSUME Inv, UNCHANGED vars
  PROVE  Inv'
<1> USE DEF Inv, vars, redis, sfu
<1>1. TypeOK'
  BY DEF TypeOK
<1>2. Ledger'
  BY LedgerKept
<1>3. Stays' /\ Grants'
  BY DEF Stays, Grants, HasGrant
<1>4. Departures'
  BY DEF Departures, HasGrant, Gone, HasLeft
<1> QED
  BY <1>1, <1>2, <1>3, <1>4

LEMMA InvShut ==
  ASSUME Inv, Shut
  PROVE  Inv'
<1> USE DEF Inv, Shut, redis, sfu
<1>1. TypeOK'
  BY DEF TypeOK
<1>2. Ledger'
  BY LedgerKept
<1>3. Stays' /\ Grants'
  BY DEF Stays, Grants, HasGrant
<1>4. Departures'
  BY DEF Departures, HasGrant, Gone, HasLeft
<1> QED
  BY <1>1, <1>2, <1>3, <1>4

LEMMA InvNext == Inv /\ [Next]_vars => Inv'
<1> SUFFICES ASSUME Inv, [Next]_vars PROVE Inv'
  OBVIOUS
<1>0. TypeOK /\ Ledger /\ Grants /\ Stays /\ Departures
  BY DEF Inv
<1>1. CASE \E k \in Knock : GuestStep(k)
  BY <1>0, <1>1, TypeGuest, LedgerGuest, GrantsGuest, GrantsGoOn DEF Inv
<1>2. CASE \E c \in Call : HostStep(c)
  BY <1>0, <1>2, TypeHost, LedgerHost, GrantsHost DEF Inv
<1>3. CASE \E c \in Call : HookStep(c)
  BY <1>0, <1>3, TypeHook, LedgerHook, GrantsHook DEF Inv
<1>4. CASE Shut
  BY <1>4, InvShut
<1>5. CASE Restart
  BY <1>0, <1>5, TypeRestart, LedgerRestart, GrantsRestart DEF Inv
<1>6. CASE UNCHANGED vars
  BY <1>6, InvStutter
<1> QED
  BY <1>1, <1>2, <1>3, <1>4, <1>5, <1>6 DEF Next

\* Every record keeps its shape and used_count stays within max_uses, for any
\* number of seats, knocks and requests (consumeInviteSeat, saveKnock).
THEOREM TypeCorrect == Spec => []TypeOK
<1>1. Inv => TypeOK
  BY DEF Inv
<1> QED
  BY <1>1, InvInit, InvNext, PTL DEF Spec

\* Two guests on their first stay have different grants, and each is a held seat.
LEMMA SeatsBoundGuests == Inv => Capacity
<1> SUFFICES ASSUME Inv PROVE Capacity
  OBVIOUS
<1> DEFINE In == {k \in Knock : guest[k].at = "in" /\ guest[k].stays = 1}
<1> DEFINE seat == [k \in In |-> guest[k].grant]
<1>1. ASSUME NEW k \in In PROVE guest[k].grant \in holders
  <2>1. guest[k].grant \in Call /\ HasGrant(k, guest[k].grant)
    BY DEF Inv, Stays, HasGrant
  <2>2. ~Gone(guest[k].grant)
    <3>1. ASSUME NEW j \in Knock, guest[j].grant = guest[k].grant, HasLeft(j) PROVE FALSE
      <4>1. j = k
        BY <2>1, <3>1 DEF Inv, Grants, HasGrant
      <4> QED
        BY <3>1, <4>1 DEF HasLeft
    <3> QED
      BY <3>1 DEF Gone
  <2> QED
    BY <2>1, <2>2 DEF Inv, Departures
<1>2. ASSUME NEW j \in In, NEW k \in In, guest[j].grant = guest[k].grant PROVE j = k
  BY <1>2 DEF Inv, Stays, Grants, HasGrant
<1>3. seat \in Injection(In, holders)
  BY <1>1, <1>2 DEF Injection, IsInjective
<1>4. IsFiniteSet(holders)
  BY LinkAssumption, FS_Subset DEF LinkAssumption, Inv, TypeOK
<1>5. Cardinality(In) <= Cardinality(holders) /\ IsFiniteSet(In)
  BY <1>3, <1>4, FS_Injection
<1>6. Cardinality(holders) \in 0..MaxUses
  BY DEF Inv, TypeOK, Ledger, Counted
<1>7. Cardinality(In) \in Nat
  BY <1>5, FS_CardinalityType
<1>8. Cardinality(In) <= MaxUses
  BY <1>5, <1>6, <1>7, LinkAssumption DEF LinkAssumption
<1> QED
  BY <1>8 DEF Capacity

\* A link never has more guests on their first stay in the room than it has
\* seats, whatever requests, departures and webhooks do (consumeInviteSeat, takeSeatHolder).
THEOREM NeverOverfull == Spec => []Capacity
BY InvInit, InvNext, SeatsBoundGuests, PTL DEF Spec

LEMMA SeatsStep == Inv /\ [Next]_vars => [Pool!Next]_(Pool!vars)
<1> SUFFICES ASSUME Inv, [Next]_vars PROVE [Pool!Next]_(Pool!vars)
  OBVIOUS
<1> USE DEF redis, sfu
<1>1. CASE \E k \in Knock : GuestStep(k)
  <2>1. UNCHANGED <<holders, used, live>>
    BY <1>1 DEF GuestStep, Ask, Reserve, Save, Announce, Hydrate, Expire, Poll, PollConsume, PollAnswer,
         Cancel, CancelConsume, CancelRelease, Quit, Join, Leave
  <2> QED
    BY <2>1 DEF Pool!vars
<1>2. ASSUME NEW c \in Call, ConsumeInviteSeat(c) PROVE [Pool!Next]_(Pool!vars)
  <2>1. CASE SeatLeft
    <3>1. c \notin holders
      BY <1>2 DEF ConsumeInviteSeat, Inv, Ledger, Requests
    <3>2. MaxUses - used > 0 /\ MaxUses - (used + 1) = MaxUses - used - 1
      BY <2>1, LinkAssumption DEF SeatLeft, Inv, TypeOK, LinkAssumption
    <3>3. Pool!Take(c)
      BY <1>2, <2>1, <3>1, <3>2 DEF Pool!Take, ConsumeInviteSeat, OneMore, SeatLeft
    <3> QED
      BY <3>3 DEF Pool!Next
  <2>2. CASE ~SeatLeft
    BY <1>2, <2>2 DEF ConsumeInviteSeat, Pool!vars
  <2> QED
    BY <2>1, <2>2
<1>3. ASSUME NEW c \in Call, HostStep(c), ~ConsumeInviteSeat(c) PROVE UNCHANGED <<holders, used, live>>
  BY <1>3 DEF HostStep, Decide, Refuse, SaveDecision, Release, RememberSeatHolder, Kick, KickRemove
<1>4. ASSUME NEW c \in Call, GiveBack(c) PROVE [Pool!Next]_(Pool!vars)
  <2>1. c \in holders
    BY <1>4 DEF GiveBack, Inv, Ledger, Remembered
  <2>2. IsFiniteSet(holders)
    BY LinkAssumption, FS_Subset DEF LinkAssumption, Inv, TypeOK
  <2>3. used > 0
    <3>1. IsFiniteSet(holders \ {c}) /\ Cardinality(holders \ {c}) = Cardinality(holders) - 1
      BY <2>1, <2>2, FS_RemoveElement
    <3>2. Cardinality(holders \ {c}) \in Nat /\ Cardinality(holders) \in Nat
      BY <2>2, <3>1, FS_CardinalityType
    <3> QED
      BY <3>1, <3>2 DEF Inv, Ledger, Counted
  <2>4. MaxUses - (used - 1) = MaxUses - used + 1
    BY LinkAssumption DEF Inv, TypeOK, LinkAssumption
  <2>5. Pool!Return(c)
    BY <1>4, <2>1, <2>3, <2>4 DEF Pool!Return, GiveBack
  <2> QED
    BY <2>5 DEF Pool!Next
<1>5. ASSUME NEW c \in Call, HookStep(c), ~GiveBack(c) PROVE UNCHANGED <<holders, used, live>>
  BY <1>5 DEF HookStep, JoinedHook, RemoveAgain, LeftHook
<1>6. CASE Shut
  BY <1>6 DEF Shut, Pool!Next, Pool!Shut
<1>7. CASE Restart \/ UNCHANGED vars
  BY <1>7 DEF Restart, vars, Pool!vars
<1> QED
  BY <1>1, <1>2, <1>3, <1>4, <1>5, <1>6, <1>7 DEF Next, Pool!vars

\* A guest link implements SeatPool: each approval, departure, revocation and
\* repeated webhook is a step of it or changes nothing it counts.
THEOREM SeatsAreCounted == Spec => SeatsCounted
<1>1. Init => Pool!Init
  BY LinkAssumption DEF Init, Pool!Init, LinkAssumption
<1> QED
  BY <1>1, InvInit, InvNext, SeatsStep, PTL DEF Spec, SeatsCounted, Pool!Spec

(***************************************************************************)
(* The door: what a knock leaves in the waiting room and in the list a     *)
(* device hydrates from, until whoever ends it has tidied up.              *)
(***************************************************************************)
NotYet == {"form", "checked", "reserved", "stored"}

Busy(k) == poll[k].at # "none" \/ cancel[k] # "none"

Freeing(k) == \E c \in Call : host[c].of = k /\ host[c].at \in {"granted", "cleared"}

\* No request but its own touches a knock before it is announced; then it is
\* listed while it waits, and its slot is its own or about to be freed.
DoorOf(k) ==
  /\ guest[k].at \in NotYet => ~Busy(k) /\ k \notin expired /\ \A c \in Call : host[c].of # k
  /\ guest[k].at = "stored" => store[k] = Pending
  /\ guest[k].at = "waiting" => cancel[k] = "none" /\ (getKnock(k).status = "pending" => k \in index)
  /\ \/ faults > 0 \/ k \notin slots \/ guest[k].at \in {"reserved", "stored"}
     \/ getKnock(k).status = "pending" \/ Busy(k) \/ Freeing(k)

Door == \A k \in Knock : DoorOf(k)

\* A step that leaves the knock alone.
LeavesAlone(k) ==
  /\ guest'[k].at = guest[k].at /\ store'[k] = store[k]
  /\ poll'[k].at = poll[k].at /\ cancel'[k] = cancel[k]
  /\ k \in expired' <=> k \in expired
  /\ k \in slots' => k \in slots
  /\ k \in index => k \in index'

\* A step after which whoever was to free the slot of the knock still is, and
\* no request is about a knock that is not announced.
HostsStay(k) ==
  /\ Freeing(k) => Freeing(k)'
  /\ guest[k].at \in NotYet => \A c \in Call : host[c].of # k => host'[c].of # k
  /\ faults' = faults \/ faults' > 0

LEMMA DoorAlone ==
  ASSUME NEW k, DoorOf(k), LeavesAlone(k), HostsStay(k)
  PROVE  DoorOf(k)'
<1>1. Busy(k)' <=> Busy(k)
  BY DEF LeavesAlone, Busy
<1>2. getKnock(k)' = getKnock(k)
  BY DEF LeavesAlone, getKnock
<1> QED
  BY <1>1, <1>2 DEF DoorOf, LeavesAlone, HostsStay

\* A guest who goes away, or into the room, leaves nothing new behind.
LEMMA DoorLeft ==
  ASSUME NEW k, DoorOf(k), HostsStay(k), UNCHANGED <<store, index, expired, slots, poll, cancel>>,
         guest[k].at \notin NotYet, guest'[k].at \notin NotYet \cup {"waiting"}
  PROVE  DoorOf(k)'
BY DEF DoorOf, HostsStay, NotYet, Busy, getKnock

LEMMA DoorInit == Init => Door
<1> SUFFICES ASSUME Init, NEW k \in Knock PROVE DoorOf(k)
  BY DEF Door
<1>1. guest[k].at = "form" /\ poll[k].at = "none" /\ cancel[k] = "none"
  BY DEF Init
<1>2. k \notin expired /\ k \notin slots
  BY DEF Init
<1>3. \A c \in Call : host[c].of # k
  BY LinkAssumption DEF Init, LinkAssumption
<1> QED
  BY <1>1, <1>2, <1>3 DEF DoorOf, Busy

LEMMA DoorGuest ==
  ASSUME TypeOK, Door, NEW k \in Knock, GuestStep(k)
  PROVE  Door'
<1> USE DEF redis, sfu
<1>0. /\ guest \in [Knock -> Page] /\ store \in [Knock -> Knocks] /\ poll \in [Knock -> Reading]
      /\ cancel \in [Knock -> {"none", "read", "consumed"}] /\ faults \in Nat
  BY LinkAssumption DEF TypeOK, LinkAssumption
<1>1. \A j : HostsStay(j)
  <2>1. host' = host /\ (faults' = faults \/ faults' > 0)
    BY <1>0 DEF GuestStep, Ask, Reserve, Save, Announce, Hydrate, Expire, Poll, PollConsume, PollAnswer,
           Cancel, CancelConsume, CancelRelease, Quit, Join, Leave, Fault
  <2> QED
    BY <2>1 DEF HostsStay, Freeing
<1>2. \A j \in Knock : j # k => LeavesAlone(j)
  BY <1>0 DEF GuestStep, Ask, Reserve, Save, Announce, Hydrate, Expire, Poll, PollConsume, PollAnswer,
         Cancel, CancelConsume, CancelRelease, Quit, Join, Leave, LeavesAlone, At, Out, Indexed,
         ConsumeKnock, Freed
<1>3. DoorOf(k)
  BY DEF Door
<1>4. /\ Freeing(k) => Freeing(k)'
      /\ guest[k].at \in NotYet => \A c \in Call : host[c].of # k => host'[c].of # k
      /\ faults' = faults \/ faults' > 0
  BY <1>1 DEF HostsStay
<1> USE <1>0, <1>3, <1>4 DEF DoorOf, NotYet
<1>5. DoorOf(k)'
  <2>1. CASE Ask(k) \/ Reserve(k)
    <3>1. \/ guest'[k].at \in {"form", "checked"} /\ guest[k].at \in {"form", "checked"}
             /\ slots' = slots
          \/ guest'[k].at = "reserved" /\ guest[k].at = "checked"
      BY <2>1, MovedTo DEF Ask, Reserve, Page
    <3>2. UNCHANGED <<store, index, expired, poll, cancel>>
      BY <2>1 DEF Ask, Reserve
    <3> QED
      BY <3>1, <3>2 DEF Busy, getKnock
  <2>2. CASE Save(k)
    <3>1. guest'[k].at = "stored" /\ guest[k].at = "reserved" /\ store'[k] = Pending
      BY <2>2, MovedTo DEF Save
    <3> QED
      BY <2>2, <3>1 DEF Save, Busy
  <2>3. CASE Announce(k)
    <3>1. guest'[k].at = "waiting" /\ guest[k].at = "stored" /\ k \in index'
      BY <2>3, MovedTo DEF Announce, Indexed
    <3>2. getKnock(k)'.status = "pending"
      BY <2>3, <3>1 DEF Announce, getKnock, Pending
    <3>3. cancel'[k] = "none"
      BY <2>3, <3>1 DEF Announce, Busy
    <3> QED
      BY <3>1, <3>2, <3>3
  <2>4. CASE Hydrate(k)
    BY <2>4 DEF Hydrate, Busy, getKnock
  <2>5. CASE Expire(k)
    BY <2>5 DEF Expire, Busy, getKnock, Absent
  <2>6. CASE Poll(k)
    <3>1. poll'[k].at = "read" /\ guest[k].at = "waiting"
      BY <2>6 DEF Poll
    <3> QED
      BY <2>6, <3>1 DEF Poll, Busy, getKnock
  <2>7. CASE PollConsume(k)
    <3>1. poll'[k].at = "consumed" /\ store'[k] = Absent /\ guest[k].at \notin NotYet
      BY <2>7 DEF PollConsume, ConsumeKnock, Reading, Busy
    <3> QED
      BY <2>7, <3>1 DEF PollConsume, Busy, getKnock, Absent
  <2>8. CASE PollAnswer(k)
    <3>1. k \notin slots' /\ UNCHANGED <<store, index, expired, cancel>>
      BY <2>8 DEF PollAnswer, Freed
    <3>2. guest[k].at \notin NotYet
      BY <2>8 DEF PollAnswer, Busy
    <3>3. guest'[k].at \notin NotYet /\ (guest'[k].at = "waiting" => guest[k].at = "waiting")
      <4>1. CASE UNCHANGED guest
        BY <3>2, <4>1
      <4>2. CASE At(k, "gone")
        BY <4>2, MovedTo
      <4>3. CASE guest' = [guest EXCEPT ![k] = [@ EXCEPT !.at = "away", !.grant = poll[k].answer.grant]]
        BY <4>3 DEF Page
      <4> QED
        BY <2>8, <4>1, <4>2, <4>3 DEF PollAnswer
    <3> QED
      BY <3>1, <3>3 DEF getKnock
  <2>9. CASE Cancel(k)
    <3>1. guest'[k].at = "gone" /\ guest[k].at = "waiting"
      BY <2>9, MovedTo DEF Cancel
    <3>2. getKnock(k)' = getKnock(k) /\ UNCHANGED <<poll, slots>>
      BY <2>9 DEF Cancel, getKnock
    <3>3. CASE getKnock(k) = Absent
      <4>1. cancel[k] = "none" /\ cancel'[k] = "none"
        BY <2>9, <3>1, <3>3 DEF Cancel
      <4>2. Busy(k)' <=> Busy(k)
        BY <3>2, <4>1 DEF Busy
      <4> QED
        BY <3>1, <3>2, <4>2
    <3>4. CASE getKnock(k) # Absent
      BY <2>9, <3>1, <3>4 DEF Cancel, Busy
    <3> QED
      BY <3>3, <3>4
  <2>10. CASE CancelConsume(k)
    <3>1. cancel'[k] = "consumed" /\ store'[k] = Absent /\ guest[k].at \notin NotYet
      BY <2>10 DEF CancelConsume, ConsumeKnock, Busy
    <3> QED
      BY <2>10, <3>1 DEF CancelConsume, Busy, getKnock, Absent
  <2>11. CASE CancelRelease(k)
    <3>1. k \notin slots' /\ guest[k].at \notin NotYet
      BY <2>11 DEF CancelRelease, Freed, Busy
    <3> QED
      BY <2>11, <3>1 DEF CancelRelease, getKnock
  <2>12. CASE Quit(k) \/ Join(k) \/ Leave(k)
    <3>1. CASE Quit(k)
      BY <1>1, <2>12, <3>1, MovedTo, DoorLeft DEF Quit
    <3>2. CASE Join(k)
      <4>1. guest'[k].at = "in"
        BY <3>2 DEF Join, Page
      <4> QED
        BY <1>1, <3>2, <4>1, DoorLeft DEF Join
    <3>3. CASE Leave(k)
      <4>1. guest'[k].at = "away"
        BY <3>3, MovedTo DEF Leave, Out
      <4> QED
        BY <1>1, <3>3, <4>1, DoorLeft DEF Leave
    <3> QED
      BY <2>12, <3>1, <3>2, <3>3
  <2> QED
    BY <2>1, <2>2, <2>3, <2>4, <2>5, <2>6, <2>7, <2>8, <2>9, <2>10, <2>11, <2>12 DEF GuestStep
<1> QED
  BY <1>1, <1>2, <1>5, DoorAlone DEF Door

LEMMA DoorHost ==
  ASSUME TypeOK, Door, NEW c \in Call, HostStep(c)
  PROVE  Door'
<1> USE DEF redis, sfu
<1>0. /\ guest \in [Knock -> Page] /\ store \in [Knock -> Knocks] /\ host \in [Call -> Request]
      /\ faults \in Nat
  BY LinkAssumption DEF TypeOK, LinkAssumption
<1>1. faults' = faults \/ faults' > 0
  BY <1>0 DEF HostStep, Decide, ConsumeInviteSeat, Refuse, SaveDecision, Release, RememberSeatHolder,
         Kick, KickRemove, Fault
<1> SUFFICES ASSUME NEW k \in Knock PROVE DoorOf(k)'
  BY DEF Door
<1>2. DoorOf(k)
  BY DEF Door
<1>3. CASE Decide(c)
  <2>1. \A d \in Call : d # c => host'[d] = host[d]
    BY <1>0, <1>3 DEF Decide
  <2>2. host[c].at = "idle"
    BY <1>3 DEF Decide
  <2>3. guest[k].at \in NotYet => host'[c].of # k
    BY <1>0, <1>3 DEF Decide, NotYet
  <2>4. HostsStay(k)
    BY <1>1, <2>1, <2>2, <2>3 DEF HostsStay, Freeing
  <2> QED
    BY <1>2, <1>3, <2>4, DoorAlone DEF Decide, LeavesAlone
<1>4. ASSUME NEW p, Step(c, p), host[c].at \notin {"granted", "cleared"} \/ p \in {"granted", "cleared"}
      PROVE  HostsStay(k)
  BY <1>0, <1>1, <1>4, SteppedTo DEF HostsStay, Freeing
<1>5. CASE ConsumeInviteSeat(c)
  <2>1. HostsStay(k)
    BY <1>4, <1>5 DEF ConsumeInviteSeat
  <2> QED
    BY <1>2, <1>5, <2>1, DoorAlone DEF ConsumeInviteSeat, LeavesAlone
<1>6. CASE Refuse(c) \/ SaveDecision(c)
  <2>1. HostsStay(k)
    BY <1>4, <1>6 DEF Refuse, SaveDecision
  <2>2. CASE k # host[c].of
    <3>1. store'[k] = store[k] /\ (k \in index => k \in index')
      BY <1>0, <1>6, <2>2 DEF Refuse, SaveDecision, ConsumeKnock, SaveKnock
    <3> QED
      BY <1>2, <1>6, <2>1, <3>1, DoorAlone DEF Refuse, SaveDecision, LeavesAlone
  <2>3. CASE k = host[c].of
    <3>1. store'[k].status # "pending"
      BY <1>0, <1>6, <2>3 DEF Refuse, SaveDecision, ConsumeKnock, SaveKnock, Absent, Denied, Granted
    <3>2. Freeing(k)'
      <4>1. host'[c].of = k /\ host'[c].at \in {"granted", "cleared"}
        BY <1>0, <1>6, <2>3, SteppedTo DEF Refuse, SaveDecision
      <4> QED
        BY <4>1 DEF Freeing
    <3>3. guest[k].at \notin NotYet /\ UNCHANGED <<guest, cancel>>
      BY <1>2, <1>6, <2>3 DEF DoorOf, Refuse, SaveDecision
    <3>4. getKnock(k)'.status # "pending"
      BY <3>1 DEF getKnock, Absent
    <3> QED
      BY <1>2, <3>2, <3>3, <3>4 DEF DoorOf, NotYet
  <2> QED
    BY <2>2, <2>3
<1>7. CASE Release(c)
  <2>1. CASE k # host[c].of
    <3>1. Freeing(k)' <=> Freeing(k)
      BY <1>0, <1>7, <2>1, SteppedTo DEF Release, Freeing
    <3>2. \A d \in Call : host'[d].of = host[d].of
      BY <1>0, <1>7, SteppedTo DEF Release
    <3>3. HostsStay(k)
      BY <1>1, <3>1, <3>2 DEF HostsStay
    <3> QED
      BY <1>2, <1>7, <3>3, DoorAlone DEF Release, LeavesAlone, Freed
  <2>2. CASE k = host[c].of
    <3>1. k \notin slots' /\ UNCHANGED <<store, index, expired, guest, poll, cancel>>
      BY <1>7, <2>2 DEF Release, Freed
    <3>2. guest[k].at \notin NotYet
      BY <1>2, <2>2 DEF DoorOf
    <3> QED
      BY <1>2, <3>1, <3>2 DEF DoorOf, getKnock, NotYet
  <2> QED
    BY <2>1, <2>2
<1>8. CASE RememberSeatHolder(c)
  <2>1. HostsStay(k)
    BY <1>4, <1>8 DEF RememberSeatHolder
  <2> QED
    BY <1>2, <1>8, <2>1, DoorAlone DEF RememberSeatHolder, LeavesAlone
<1>9. CASE Kick(c) \/ KickRemove(c)
  <2>1. HostsStay(k) /\ UNCHANGED <<store, index, expired, slots, poll, cancel>>
    BY <1>1, <1>9 DEF Kick, KickRemove, HostsStay, Freeing
  <2>2. CASE guest'[k] = guest[k]
    BY <1>2, <2>1, <2>2, DoorAlone DEF LeavesAlone
  <2>3. CASE guest[k].at = "in" /\ guest'[k].at = "away"
    BY <1>2, <2>1, <2>3, DoorLeft DEF NotYet
  <2> QED
    BY <1>0, <1>9, <2>2, <2>3, MovedTo DEF Kick, KickRemove, Out
<1> QED
  BY <1>3, <1>5, <1>6, <1>7, <1>8, <1>9 DEF HostStep

LEMMA DoorElse ==
  ASSUME TypeOK, Door, \/ \E c \in Call : HookStep(c)
                      \/ Shut \/ UNCHANGED vars
  PROVE  Door'
<1> USE DEF redis, sfu, vars
<1>0. guest \in [Knock -> Page] /\ faults \in Nat
  BY LinkAssumption DEF TypeOK, LinkAssumption
<1> SUFFICES ASSUME NEW k \in Knock PROVE DoorOf(k)'
  BY DEF Door
<1>1. DoorOf(k)
  BY DEF Door
<1>2. UNCHANGED <<host, store, index, expired, slots, poll, cancel>>
  BY DEF HookStep, JoinedHook, RemoveAgain, LeftHook, GiveBack, Shut
<1>3. faults' = faults \/ faults' > 0
  BY <1>0 DEF HookStep, JoinedHook, RemoveAgain, LeftHook, GiveBack, Shut, Fault
<1>4. HostsStay(k)
  BY <1>2, <1>3 DEF HostsStay, Freeing
<1>5. CASE guest'[k] = guest[k]
  BY <1>1, <1>2, <1>4, <1>5, DoorAlone DEF LeavesAlone
<1>6. CASE guest[k].at = "in" /\ guest'[k].at = "away"
  BY <1>1, <1>2, <1>4, <1>6, DoorLeft DEF NotYet
<1> QED
  BY <1>0, <1>5, <1>6, MovedTo DEF HookStep, JoinedHook, RemoveAgain, LeftHook, GiveBack, Shut, Out

LEMMA DoorRestart ==
  ASSUME TypeOK, Door, Restart
  PROVE  Door'
<1> SUFFICES ASSUME NEW k \in Knock PROVE DoorOf(k)'
  BY DEF Door
<1>1. DoorOf(k)
  BY DEF Door
<1>2. UNCHANGED <<store, index, expired, slots>> /\ faults' > 0
  BY LinkAssumption DEF Restart, redis, Fault, TypeOK, LinkAssumption
<1>3. poll'[k].at = "none" /\ cancel'[k] = "none"
  BY DEF Restart
<1>4. \A c \in Call : host'[c].of = host[c].of
  BY DEF Restart, TypeOK, Request
<1>5. \/ guest[k].at \in NotYet /\ guest'[k].at = "gone"
      \/ guest'[k].at = guest[k].at /\ guest[k].at # "stored"
  BY DEF Restart, TypeOK, Page, NotYet
<1> QED
  BY <1>1, <1>2, <1>3, <1>4, <1>5 DEF DoorOf, Busy, getKnock, NotYet

LEMMA DoorNext == Inv /\ Door /\ [Next]_vars => Door'
<1>1. Inv => TypeOK
  BY DEF Inv
<1> QED
  BY <1>1, DoorGuest, DoorHost, DoorElse, DoorRestart DEF Next

\* The list: what is in the index waits for a decision, and gives its place up
\* before its slot, so that there are never more of them than seats.
Placed(k) ==
  /\ store[k] = Pending /\ guest[k].at \notin NotYet /\ k \in slots \cup expired
  /\ poll[k].at # "consumed" /\ cancel[k] # "consumed" /\ ~Freeing(k)

ListOf(k) ==
  /\ k \in index => Placed(k)
  /\ guest[k].at \in {"reserved", "stored"} => k \in slots

Lists == Cardinality(slots) <= MaxUses /\ \A k \in Knock : ListOf(k)

\* A step that puts nobody on the list and frees no slot of the knock.
KeepsPlace(k) ==
  /\ k \in index' => k \in index /\ store'[k] = store[k]
  /\ k \in slots /\ k \notin slots' => k \in expired'
  /\ expired \subseteq expired'
  /\ Freeing(k)' => Freeing(k)
  /\ poll'[k].at = "consumed" => poll[k].at = "consumed"
  /\ cancel'[k] = "consumed" => cancel[k] = "consumed"
  /\ \/ guest'[k].at = guest[k].at /\ (guest[k].at \in NotYet /\ k \in slots => k \in slots')
     \/ guest'[k].at \notin NotYet

LEMMA PlaceKept ==
  ASSUME NEW k, ListOf(k), KeepsPlace(k)
  PROVE  ListOf(k)'
BY DEF ListOf, Placed, KeepsPlace, NotYet

\* Requests free nothing they were not about to.
LEMMA FreesNoMore ==
  ASSUME host \in [Call -> Request], NEW c \in Call, NEW p, Step(c, p), NEW k,
         p \notin {"granted", "cleared"} \/ k # host[c].of
  PROVE  Freeing(k)' => Freeing(k)
BY SteppedTo DEF Freeing

\* The waiting room takes as many as there are seats left, or one.
LEMMA RoomInit == Init => Lists
BY FS_EmptySet, LinkAssumption DEF Init, Lists, ListOf, LinkAssumption

LEMMA RoomBounded ==
  ASSUME TypeOK, Lists, slots' \subseteq slots \/ \E k \in Knock : Reserve(k)
  PROVE  Cardinality(slots') <= MaxUses
<1>0. IsFiniteSet(slots) /\ Cardinality(slots) \in Nat /\ Cardinality(slots) <= MaxUses /\ MaxUses \in Nat \ {0}
  BY LinkAssumption, FS_Subset, FS_CardinalityType DEF LinkAssumption, TypeOK, Lists
<1>1. CASE slots' \subseteq slots
  BY <1>0, <1>1, FS_Subset, FS_CardinalityType
<1>2. ASSUME NEW k \in Knock, Reserve(k), slots' # slots
      PROVE  Cardinality(slots') <= MaxUses
  <2>1. slots' = slots \cup {k} /\ Cardinality(slots) < Places(guest[k].free)
    BY <1>2 DEF Reserve
  <2>2. guest[k].free \in 0..MaxUses
    BY DEF TypeOK, Page
  <2>3. Cardinality(slots) < MaxUses
    BY <1>0, <2>1, <2>2 DEF Places
  <2>4. Cardinality(slots \cup {k}) \in {Cardinality(slots), Cardinality(slots) + 1}
    BY <1>0, FS_AddElement
  <2> QED
    BY <1>0, <2>1, <2>3, <2>4
<1> QED
  BY <1>1, <1>2

LEMMA RoomGuest ==
  ASSUME TypeOK, Door, Lists, NEW k \in Knock, GuestStep(k)
  PROVE  Lists'
<1> USE DEF redis, sfu
<1>0. /\ guest \in [Knock -> Page] /\ store \in [Knock -> Knocks] /\ poll \in [Knock -> Reading]
      /\ cancel \in [Knock -> {"none", "read", "consumed"}] /\ expired \subseteq expired'
  BY DEF TypeOK, GuestStep, Ask, Reserve, Save, Announce, Hydrate, Expire, Poll, PollConsume, PollAnswer,
         Cancel, CancelConsume, CancelRelease, Quit, Join, Leave
<1>1. Cardinality(slots') <= MaxUses
  BY RoomBounded DEF GuestStep, Ask, Save, Announce, Hydrate, Expire, Poll, PollConsume, PollAnswer,
         Cancel, CancelConsume, CancelRelease, Quit, Join, Leave, Freed
<1>2. \A j : Freeing(j)' => Freeing(j)
  BY DEF GuestStep, Ask, Reserve, Save, Announce, Hydrate, Expire, Poll, PollConsume, PollAnswer,
         Cancel, CancelConsume, CancelRelease, Quit, Join, Leave, Freeing
<1>3. \A j \in Knock : j # k => KeepsPlace(j)
  BY <1>0, <1>2 DEF GuestStep, Ask, Reserve, Save, Announce, Hydrate, Expire, Poll, PollConsume, PollAnswer,
         Cancel, CancelConsume, CancelRelease, Quit, Join, Leave, KeepsPlace, At, Out, Indexed,
         ConsumeKnock, Freed
<1>4. ListOf(k) /\ DoorOf(k)
  BY DEF Lists, Door
<1>5. ListOf(k)'
  <2>1. CASE Ask(k)
    <3>1. guest'[k].at = "checked" /\ guest[k].at = "form" /\ UNCHANGED index
      BY <1>0, <2>1 DEF Ask, Page
    <3> QED
      BY <1>4, <3>1 DEF ListOf, Placed, NotYet
  <2>2. CASE Reserve(k)
    <3>1. /\ guest[k].at = "checked" /\ UNCHANGED index
          /\ guest'[k].at = "form" \/ k \in slots'
      BY <1>0, <2>2, MovedTo DEF Reserve
    <3> QED
      BY <1>4, <3>1 DEF ListOf, Placed, NotYet
  <2>3. CASE Save(k)
    <3>1. guest[k].at = "reserved" /\ UNCHANGED <<index, slots>>
      BY <2>3 DEF Save
    <3> QED
      BY <1>4, <3>1 DEF ListOf, Placed, NotYet
  <2>4. CASE Announce(k)
    <3>1. guest[k].at = "stored" /\ guest'[k].at = "waiting" /\ UNCHANGED <<store, slots, poll, cancel>>
      BY <1>0, <2>4, MovedTo DEF Announce
    <3>2. store[k] = Pending /\ k \in slots /\ ~Busy(k) /\ ~Freeing(k)
      BY <1>4, <3>1 DEF ListOf, DoorOf, NotYet, Freeing
    <3> QED
      BY <1>2, <3>1, <3>2 DEF ListOf, Placed, NotYet, Busy
  <2>5. CASE Hydrate(k)
    <3>1. k \notin index' /\ UNCHANGED <<guest, slots>>
      BY <2>5 DEF Hydrate
    <3> QED
      BY <1>4, <3>1 DEF ListOf
  <2>6. CASE Expire(k)
    <3>1. k \in expired' /\ guest[k].at \notin NotYet /\ UNCHANGED <<guest, store, index, poll, cancel>>
      BY <2>6 DEF Expire, NotYet
    <3> QED
      BY <1>2, <1>4, <3>1 DEF ListOf, Placed, NotYet
  <2>7. CASE Poll(k) \/ Cancel(k) \/ Quit(k) \/ Join(k) \/ Leave(k)
    <3>1. UNCHANGED <<store, index, slots, expired>>
      BY <2>7 DEF Poll, Cancel, Quit, Join, Leave
    <3>2. poll'[k].at # "consumed" \/ poll' = poll
      BY <1>0, <2>7 DEF Poll, Cancel, Quit, Join, Leave
    <3>3. cancel'[k] # "consumed" \/ cancel' = cancel
      BY <1>0, <2>7 DEF Poll, Cancel, Quit, Join, Leave
    <3>4. guest' = guest \/ guest'[k].at \notin NotYet
      <4>1. CASE Join(k)
        BY <1>0, <4>1 DEF Join, Page, NotYet
      <4>2. CASE Poll(k)
        BY <4>2 DEF Poll
      <4>3. CASE Cancel(k) \/ Quit(k) \/ Leave(k)
        BY <1>0, <4>3, MovedTo DEF Cancel, Quit, Leave, Out, NotYet
      <4> QED
        BY <2>7, <4>1, <4>2, <4>3
    <3>5. KeepsPlace(k)
      BY <1>2, <3>1, <3>2, <3>3, <3>4 DEF KeepsPlace
    <3> QED
      BY <1>4, <3>5, PlaceKept
  <2>8. CASE PollConsume(k) \/ CancelConsume(k)
    <3>1. k \notin index' /\ UNCHANGED <<guest, slots>>
      BY <1>4, <2>8 DEF PollConsume, CancelConsume, ConsumeKnock, ListOf, Placed, Absent, Pending
    <3> QED
      BY <1>4, <3>1 DEF ListOf
  <2>9. CASE PollAnswer(k)
    <3>1. k \notin index'
      BY <1>4, <2>9 DEF PollAnswer, ListOf, Placed
    <3>2. guest[k].at \notin NotYet
      BY <1>4, <2>9 DEF PollAnswer, DoorOf, Busy
    <3>3. guest'[k].at \notin NotYet
      <4>1. CASE UNCHANGED guest
        BY <3>2, <4>1
      <4>2. CASE At(k, "gone")
        BY <1>0, <4>2, MovedTo DEF NotYet
      <4>3. CASE guest' = [guest EXCEPT ![k] = [@ EXCEPT !.at = "away", !.grant = poll[k].answer.grant]]
        BY <1>0, <4>3 DEF Page, NotYet
      <4> QED
        BY <2>9, <4>1, <4>2, <4>3 DEF PollAnswer
    <3> QED
      BY <3>1, <3>3 DEF ListOf, NotYet
  <2>10. CASE CancelRelease(k)
    <3>1. k \notin index' /\ guest[k].at \notin NotYet /\ UNCHANGED guest
      BY <1>4, <2>10 DEF CancelRelease, ListOf, Placed, DoorOf, Busy
    <3> QED
      BY <3>1 DEF ListOf, NotYet
  <2> QED
    BY <2>1, <2>2, <2>3, <2>4, <2>5, <2>6, <2>7, <2>8, <2>9, <2>10 DEF GuestStep
<1> QED
  BY <1>1, <1>3, <1>5, PlaceKept DEF Lists

LEMMA RoomHost ==
  ASSUME TypeOK, Door, Lists, NEW c \in Call, HostStep(c)
  PROVE  Lists'
<1> USE DEF redis, sfu
<1>0. /\ guest \in [Knock -> Page] /\ store \in [Knock -> Knocks] /\ host \in [Call -> Request]
      /\ UNCHANGED <<expired, poll, cancel>>
  BY DEF TypeOK, HostStep, Decide, ConsumeInviteSeat, Refuse, SaveDecision, Release, RememberSeatHolder,
         Kick, KickRemove
<1>1. Cardinality(slots') <= MaxUses
  BY RoomBounded DEF HostStep, Decide, ConsumeInviteSeat, Refuse, SaveDecision, Release,
         RememberSeatHolder, Kick, KickRemove, Freed
<1> SUFFICES ASSUME NEW k \in Knock PROVE ListOf(k)'
  BY <1>1 DEF Lists
<1>2. ListOf(k) /\ DoorOf(k)
  BY DEF Lists, Door
<1>3. CASE Decide(c)
  <2>1. Freeing(k)' => Freeing(k)
    BY <1>0, <1>3 DEF Decide, Freeing
  <2> QED
    BY <1>0, <1>2, <1>3, <2>1, PlaceKept DEF Decide, KeepsPlace
<1>4. CASE ConsumeInviteSeat(c) \/ RememberSeatHolder(c)
  <2>1. Freeing(k)' => Freeing(k)
    BY <1>0, <1>4, FreesNoMore DEF ConsumeInviteSeat, RememberSeatHolder
  <2> QED
    BY <1>0, <1>2, <1>4, <2>1, PlaceKept DEF ConsumeInviteSeat, RememberSeatHolder, KeepsPlace
<1>5. CASE Refuse(c) \/ SaveDecision(c)
  <2>1. UNCHANGED <<guest, slots>>
    BY <1>5 DEF Refuse, SaveDecision
  <2>2. CASE k = host[c].of
    <3>1. k \notin index'
      BY <1>2, <1>5, <2>2 DEF Refuse, SaveDecision, ConsumeKnock, SaveKnock, ListOf, Placed, Absent, Pending
    <3> QED
      BY <1>2, <2>1, <3>1 DEF ListOf
  <2>3. CASE k # host[c].of
    <3>1. Freeing(k)' => Freeing(k)
      BY <1>0, <1>5, <2>3, FreesNoMore DEF Refuse, SaveDecision
    <3>2. store'[k] = store[k] /\ (k \in index' => k \in index)
      BY <1>0, <1>5, <2>3 DEF Refuse, SaveDecision, ConsumeKnock, SaveKnock
    <3> QED
      BY <1>0, <1>2, <2>1, <3>1, <3>2, PlaceKept DEF KeepsPlace
  <2> QED
    BY <2>2, <2>3
<1>6. CASE Release(c)
  <2>1. Freeing(k)' => Freeing(k)
    BY <1>0, <1>6, FreesNoMore DEF Release
  <2>2. CASE k = host[c].of
    <3>1. Freeing(k)
      BY <1>6, <2>2 DEF Release, Freeing
    <3>2. k \notin index' /\ guest[k].at \notin NotYet /\ UNCHANGED guest
      BY <1>2, <1>6, <2>2, <3>1 DEF Release, ListOf, Placed, DoorOf
    <3> QED
      BY <3>2 DEF ListOf, NotYet
  <2>3. CASE k # host[c].of
    BY <1>0, <1>2, <1>6, <2>1, <2>3, PlaceKept DEF Release, Freed, KeepsPlace
  <2> QED
    BY <2>2, <2>3
<1>7. CASE Kick(c) \/ KickRemove(c)
  <2>1. UNCHANGED <<store, index, slots, host>>
    BY <1>7 DEF Kick, KickRemove
  <2>2. guest'[k].at = guest[k].at \/ guest'[k].at \notin NotYet
    BY <1>0, <1>7, MovedTo DEF Kick, KickRemove, Out, NotYet
  <2> QED
    BY <1>0, <1>2, <2>1, <2>2, PlaceKept DEF KeepsPlace, Freeing
<1> QED
  BY <1>3, <1>4, <1>5, <1>6, <1>7 DEF HostStep

LEMMA RoomElse ==
  ASSUME TypeOK, Lists, \/ \E c \in Call : HookStep(c)
                        \/ Shut \/ Restart \/ UNCHANGED vars
  PROVE  Lists'
<1> USE DEF redis, sfu, vars
<1>0. guest \in [Knock -> Page] /\ host \in [Call -> Request]
  BY DEF TypeOK
<1>1. UNCHANGED <<store, index, slots, expired>>
  BY DEF HookStep, JoinedHook, RemoveAgain, LeftHook, GiveBack, Shut, Restart
<1>2. Cardinality(slots') <= MaxUses
  BY <1>1, RoomBounded
<1> SUFFICES ASSUME NEW k \in Knock PROVE ListOf(k)'
  BY <1>2 DEF Lists
<1>3. ListOf(k)
  BY DEF Lists
<1>4. CASE Restart
  <2>1. Freeing(k)' => Freeing(k)
    BY <1>0, <1>4 DEF Restart, Freeing, Request
  <2>2. poll'[k].at = "none" /\ cancel'[k] = "none"
    BY <1>4 DEF Restart
  <2>3. guest'[k].at = guest[k].at \/ guest'[k].at \notin NotYet
    BY <1>0, <1>4 DEF Restart, Page, NotYet
  <2> QED
    BY <1>1, <1>3, <2>1, <2>2, <2>3, PlaceKept DEF KeepsPlace
<1>5. CASE ~Restart
  <2>1. UNCHANGED <<host, poll, cancel>>
    BY <1>5 DEF HookStep, JoinedHook, RemoveAgain, LeftHook, GiveBack, Shut, Restart
  <2>2. guest'[k].at = guest[k].at \/ guest'[k].at \notin NotYet
    BY <1>0, <1>5, MovedTo DEF HookStep, JoinedHook, RemoveAgain, LeftHook, GiveBack, Shut, Out, NotYet
  <2> QED
    BY <1>1, <1>3, <2>1, <2>2, PlaceKept DEF KeepsPlace, Freeing
<1> QED
  BY <1>4, <1>5

LEMMA RoomNext == Inv /\ Door /\ Lists /\ [Next]_vars => Lists'
<1>1. Inv => TypeOK
  BY DEF Inv
<1> QED
  BY <1>1, RoomGuest, RoomHost, RoomElse DEF Next

\* One hydration reads all that is listed: it holds no more than the link has
\* seats, which is no more than the cap.
LEMMA AllIsRead ==
  ASSUME TypeOK, Lists, NEW r \in Reads
  PROVE  r = index \ expired
<1> DEFINE now == index \ expired
<1>0. IsFiniteSet(slots) /\ now \subseteq slots /\ r \subseteq now
  BY LinkAssumption, FS_Subset DEF LinkAssumption, TypeOK, Lists, ListOf, Placed, Reads
<1>1. IsFiniteSet(now) /\ Cardinality(now) <= Cardinality(slots)
  BY <1>0, FS_Subset
<1>2. Cardinality(now) <= MAX_HYDRATED_KNOCKS
  BY <1>0, <1>1, LinkAssumption, FS_CardinalityType DEF LinkAssumption, Lists
<1>3. CASE Cardinality(r) = MAX_HYDRATED_KNOCKS
  <2>1. Cardinality(r) <= Cardinality(now) /\ (Cardinality(r) = Cardinality(now) => r = now)
    BY <1>0, <1>1, FS_Subset
  <2> QED
    BY <1>0, <1>1, <1>2, <1>3, <2>1, FS_CardinalityType, LinkAssumption DEF LinkAssumption
<1> QED
  BY <1>3 DEF Reads

\* A guest who waits at the door is in the list GET /guest/knocks answers, for any
\* number of guests and devices of one link: saveKnock indexes before it announces,
\* and whoever ends a knock drops it from the index before it frees the slot, so
\* that the index never holds more than max_uses, whose maximum is the cap.
THEOREM WaitingIsListed == Spec => []Hydrated
<1>1. Inv /\ Door /\ Lists => Hydrated
  <2> SUFFICES ASSUME Inv, Door, Lists, NEW r \in Reads, NEW k \in Knock,
                      guest[k].at = "waiting", getKnock(k).status = "pending"
               PROVE  k \in r
    BY DEF Hydrated
  <2>1. r = index \ expired
    BY AllIsRead DEF Inv
  <2>2. k \in index
    BY DEF Door, DoorOf
  <2>3. k \notin expired
    BY DEF getKnock, Absent
  <2> QED
    BY <2>1, <2>2, <2>3
<1> QED
  BY <1>1, InvInit, InvNext, DoorInit, DoorNext, RoomInit, RoomNext, PTL DEF Spec

\* Whoever ends a knock frees its slot of the waiting room: unless the server
\* restarted or an answer was lost, a slot that is held is one of a guest who
\* knocks, or of a handler about to free it (releaseKnockSlot, guest.ts).
THEOREM SlotsAreFreed == Spec => []NoGhostSlot
<1>1. Inv /\ Door => NoGhostSlot
  <2> SUFFICES ASSUME Inv, Door, NEW k \in slots, ~(faults > 0)
               PROVE  \/ guest[k].at \in {"reserved", "stored"}
                      \/ getKnock(k).status = "pending"
                      \/ poll[k].at # "none" \/ cancel[k] # "none"
                      \/ \E c \in Call : host[c].of = k /\ host[c].at \in {"granted", "cleared"}
    BY DEF NoGhostSlot
  <2>1. DoorOf(k)
    BY DEF Door, Inv, TypeOK
  <2> QED
    BY <2>1 DEF DoorOf, Busy, Freeing
<1> QED
  BY <1>1, InvInit, InvNext, DoorInit, DoorNext, PTL DEF Spec

(***************************************************************************)
(* A kick: whoever is reported as put out is on the denylist, and nobody   *)
(* else holds the same grant.                                              *)
(***************************************************************************)
KickListed == \A c \in Call : kick[c] \in {"listed", "ok"} => c \in banned

Kicks == KickListed /\ KickBites

\* Nobody comes into the room.
NobodyEnters == \A c \in Call : InRoom(c)' => InRoom(c)

LEMMA RoomKept ==
  ASSUME \A k \in Knock : guest'[k].at = "in" => guest'[k] = guest[k]
  PROVE  NobodyEnters
BY DEF NobodyEnters, InRoom

\* A step that does nothing about kicks, while nobody comes in.
LEMMA KicksKept ==
  ASSUME Kicks, NobodyEnters, UNCHANGED <<banned, joined, removing, missed>>,
         \A c \in Call : kick'[c] \in {kick[c], "no", "failed"}
  PROVE  Kicks'
BY DEF Kicks, KickListed, KickBites, NobodyEnters

\* The one guest with the grant is put out of the room.
LEMMA OutOfRoom ==
  ASSUME TypeOK, Grants, NEW k \in Knock, NEW c \in Call,
         guest[k].at = "in", guest[k].grant = c, Out(k)
  PROVE  NobodyEnters /\ ~InRoom(c)'
<1>1. /\ guest'[k].at = "away" /\ guest'[k].grant = c
      /\ \A j \in Knock : j # k => guest'[j] = guest[j]
  BY MovedTo DEF TypeOK, Out
<1>2. \A j \in Knock : guest[j].grant = c => j = k
  BY DEF Grants, HasGrant
<1>3. ~InRoom(c)'
  BY <1>1, <1>2 DEF InRoom
<1>4. NobodyEnters
  BY <1>1, RoomKept
<1> QED
  BY <1>3, <1>4

LEMMA KicksGuest ==
  ASSUME TypeOK, Stays, Kicks, NEW k \in Knock, GuestStep(k)
  PROVE  Kicks'
<1> USE DEF redis, sfu
<1>0. guest \in [Knock -> Page]
  BY DEF TypeOK
<1>1. CASE Join(k)
  <2>1. guest'[k].grant = guest[k].grant /\ \A j \in Knock : j # k => guest'[j] = guest[j]
    BY <1>0, <1>1 DEF Join, Page
  <2>2. \A c \in Call : InRoom(c)' => InRoom(c) \/ c = guest[k].grant
    BY <2>1 DEF InRoom
  <2> QED
    BY <1>1, <2>2 DEF Join, Kicks, KickListed, KickBites
<1>2. CASE ~Join(k)
  <2>1. UNCHANGED <<banned, joined, removing, missed, kick>>
    BY <1>2 DEF GuestStep, Ask, Reserve, Save, Announce, Hydrate, Expire, Poll, PollConsume, PollAnswer,
           Cancel, CancelConsume, CancelRelease, Quit, Leave, Out
  <2>2. \A j \in Knock : guest'[j].at = "in" => guest'[j] = guest[j]
    <3>1. CASE UNCHANGED guest
      BY <3>1
    <3>2. ASSUME NEW p, At(k, p), p # "in" PROVE \A j \in Knock : guest'[j].at = "in" => guest'[j] = guest[j]
      BY <1>0, <3>2, MovedTo
    <3>3. CASE Ask(k)
      BY <1>0, <3>3 DEF Ask, Page
    <3>4. CASE Reserve(k)
      BY <3>2, <3>4 DEF Reserve
    <3>5. CASE guest' = [guest EXCEPT ![k] = [@ EXCEPT !.at = "away", !.grant = poll[k].answer.grant]]
      BY <1>0, <3>5 DEF Page
    <3>6. CASE Save(k) \/ Announce(k) \/ Cancel(k) \/ Quit(k) \/ Leave(k)
      BY <3>2, <3>6 DEF Save, Announce, Cancel, Quit, Leave, Out
    <3>7. CASE PollAnswer(k)
      BY <3>1, <3>2, <3>5, <3>7 DEF PollAnswer
    <3>8. CASE Hydrate(k) \/ Expire(k) \/ Poll(k) \/ PollConsume(k) \/ CancelConsume(k) \/ CancelRelease(k)
      BY <3>1, <3>8 DEF Hydrate, Expire, Poll, PollConsume, CancelConsume, CancelRelease
    <3> QED
      BY <1>2, <3>3, <3>4, <3>6, <3>7, <3>8 DEF GuestStep
  <2> QED
    BY <2>1, <2>2, RoomKept, KicksKept
<1> QED
  BY <1>1, <1>2

LEMMA KicksHost ==
  ASSUME TypeOK, Grants, Kicks, NEW c \in Call, HostStep(c)
  PROVE  Kicks'
<1> USE DEF redis, sfu
<1>0. guest \in [Knock -> Page] /\ kick \in [Call -> {"no", "listed", "ok", "failed"}]
  BY DEF TypeOK
<1>1. CASE Kick(c)
  BY <1>0, <1>1 DEF Kick, Listed, Kicks, KickListed, KickBites, InRoom
<1>2. CASE KickRemove(c)
  <2>1. UNCHANGED <<banned, joined, removing, missed>> /\ kick[c] = "listed"
    BY <1>2 DEF KickRemove
  <2>2. CASE UNCHANGED guest /\ kick' = [kick EXCEPT ![c] = "failed"]
    <3>1. NobodyEnters
      BY <2>2, RoomKept
    <3>2. \A d \in Call : kick'[d] \in {kick[d], "no", "failed"}
      BY <1>0, <2>2
    <3> QED
      BY <2>1, <3>1, <3>2, KicksKept
  <2>3. CASE /\ \E k \in Knock : guest[k].at = "in" /\ guest[k].grant = c /\ Out(k)
             /\ kick' = [kick EXCEPT ![c] = "ok"]
    <3>1. NobodyEnters /\ ~InRoom(c)'
      BY <2>3, OutOfRoom
    <3>2. \A d \in Call : d # c => kick'[d] = kick[d]
      BY <1>0, <2>3
    <3>3. c \in banned
      BY <2>1 DEF Kicks, KickListed
    <3> QED
      BY <2>1, <3>1, <3>2, <3>3 DEF Kicks, KickListed, KickBites, NobodyEnters
  <2> QED
    BY <1>2, <2>2, <2>3 DEF KickRemove
<1>3. CASE ~Kick(c) /\ ~KickRemove(c)
  <2>1. UNCHANGED <<guest, banned, joined, removing, missed, kick>>
    BY <1>3 DEF HostStep, Decide, ConsumeInviteSeat, Refuse, SaveDecision, Release, RememberSeatHolder
  <2> QED
    BY <2>1, RoomKept, KicksKept
<1> QED
  BY <1>1, <1>2, <1>3

LEMMA KicksHook ==
  ASSUME TypeOK, Grants, Kicks, NEW c \in Call, HookStep(c)
  PROVE  Kicks'
<1> USE DEF redis, sfu
<1>0. kick \in [Call -> {"no", "listed", "ok", "failed"}]
  BY DEF TypeOK
<1>1. CASE JoinedHook(c)
  BY <1>1 DEF JoinedHook, Kicks, KickListed, KickBites, InRoom
<1>2. CASE RemoveAgain(c)
  <2>1. UNCHANGED <<banned, joined, kick>> /\ removing' = removing \ {c} /\ missed \subseteq missed'
    BY <1>2 DEF RemoveAgain
  <2>2. ASSUME NobodyEnters, ~InRoom(c)' \/ c \in missed'
        PROVE  Kicks'
    BY <2>1, <2>2 DEF Kicks, KickListed, KickBites, NobodyEnters
  <2>3. CASE \E k \in Knock : guest[k].at = "in" /\ guest[k].grant = c /\ Out(k)
    BY <2>2, <2>3, OutOfRoom
  <2>4. CASE ~InRoom(c) /\ UNCHANGED guest
    BY <2>2, <2>4, RoomKept DEF InRoom
  <2>5. CASE missed' = missed \cup {c} /\ UNCHANGED guest
    BY <2>2, <2>5, RoomKept
  <2> QED
    BY <1>2, <2>3, <2>4, <2>5 DEF RemoveAgain
<1>3. CASE LeftHook(c) \/ GiveBack(c)
  <2>1. UNCHANGED <<guest, banned, joined, removing, missed, kick>>
    BY <1>3 DEF LeftHook, GiveBack
  <2> QED
    BY <2>1, RoomKept, KicksKept
<1> QED
  BY <1>1, <1>2, <1>3 DEF HookStep

LEMMA KicksRestart ==
  ASSUME TypeOK, Kicks, Restart
  PROVE  Kicks'
<1>1. \A k \in Knock : guest'[k].at = "in" => guest'[k] = guest[k]
  BY DEF Restart, TypeOK, Page
<1>2. NobodyEnters
  BY <1>1, RoomKept
<1>3. UNCHANGED <<banned, joined>>
  BY DEF Restart, redis
<1>4. /\ \A c \in Call : kick'[c] \in {kick[c], "failed"}
      /\ missed' = missed \cup removing
  BY DEF Restart
<1> QED
  BY <1>2, <1>3, <1>4 DEF Kicks, KickListed, KickBites, NobodyEnters

LEMMA KicksNext == Inv /\ Kicks /\ [Next]_vars => Kicks'
<1> SUFFICES ASSUME Inv, Kicks, [Next]_vars PROVE Kicks'
  OBVIOUS
<1>0. TypeOK /\ Grants /\ Stays
  BY DEF Inv
<1>1. CASE Shut \/ UNCHANGED vars
  <2>1. UNCHANGED <<guest, banned, joined, removing, missed, kick>>
    BY <1>1 DEF Shut, vars, redis, sfu
  <2> QED
    BY <2>1, RoomKept, KicksKept
<1> QED
  BY <1>0, <1>1, KicksGuest, KicksHost, KicksHook, KicksRestart DEF Next

\* A guest whose kick was reported as done is back in the room only while the
\* webhook of the rejoin, or the removal it starts, is under way, or because that
\* removal failed or was cut by a restart, however all of them interleave
\* (guest.ts writes the denylist before removeLivekitParticipant; call.ts reads
\* it at participant_joined, and discards how the removal went).
THEOREM KicksBite == Spec => []KickBites
<1>1. Init => Kicks
  BY DEF Init, Kicks, KickListed, KickBites
<1>2. Kicks => KickBites
  BY DEF Kicks
<1> QED
  BY <1>1, <1>2, InvInit, InvNext, KicksNext, PTL DEF Spec
=============================================================================
