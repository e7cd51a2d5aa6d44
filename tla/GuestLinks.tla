----------------------------- MODULE GuestLinks -----------------------------
(***************************************************************************)
(* One guest link to a call (server/src/routes/guest.ts, lib/              *)
(* guest-knock-store.ts, the LiveKit webhook of routes/call.ts) and the    *)
(* page a guest waits on (client/src/app/guest/call/[token]).  A guest     *)
(* knocks: the server reserves a slot of the waiting room, stores the      *)
(* knock in Redis, lists it for the creator of the link and announces it.  *)
(* The page polls.  A device of the creator approves or denies; an         *)
(* approval takes a seat of the link (used_count in Postgres), writes the  *)
(* grant over the knock, frees the slot and remembers whose seat it is.    *)
(* The guest picks the grant up once and joins the room of the SFU, whose  *)
(* webhooks give the seat back and put a kicked guest out again.           *)
(*                                                                         *)
(* Every handler is cut where it awaits Redis, Postgres or LiveKit; the    *)
(* ZREM that follows a SET or GETDEL is taken with it, since nothing but   *)
(* the first save of a knock adds to the index.  A try is one knock, and   *)
(* one request of a host is one Call, whose name is also the LiveKit       *)
(* identity an approval mints.  Time is left out: a knock may expire at    *)
(* any time after it was announced, in the store and in the waiting room   *)
(* at once, and the index drops it when it is next read.                   *)
(***************************************************************************)
EXTENDS Naturals, FiniteSets

CONSTANTS Knock,      \* the knocks, one for each time a guest tries
          NoKnock,    \* of a request that is not made yet
          Call,       \* the approve and deny requests of the creator's devices
          NoCall,     \* no grant
          MaxUses,    \* guest_invites.max_uses
          MAX_HYDRATED_KNOCKS,  \* how many knocks one hydration reads
          MaxStays,   \* bound: how often one grant is used to join
          MaxFaults   \* bound: restarts, lost answers, repeated webhooks, failed removals

ASSUME LinkAssumption ==
  /\ IsFiniteSet(Knock) /\ IsFiniteSet(Call)
  /\ NoCall \notin Call /\ NoKnock \notin Knock
  /\ MAX_HYDRATED_KNOCKS \in Nat
  /\ MaxUses \in 1..MAX_HYDRATED_KNOCKS   \* SEATS_MAX of guest.ts is 50, and so is the cap
  /\ MaxStays \in Nat /\ MaxFaults \in Nat

VARIABLES
  used,      \* guest_invites.used_count
  live,      \* the link is neither revoked nor expired
  slots,     \* Redis: the waiting room of the link
  store,     \* Redis: the knocks
  index,     \* Redis: the creator's knocks, the list a device hydrates from
  expired,   \* the knocks whose five minutes are over
  seats,     \* Redis: the identities whose seat is remembered
  guest,     \* the page of each guest, and its knock request until it is answered
  poll,      \* the poll of each guest that has read a decision
  cancel,    \* the cancel request of each guest
  host,      \* where each request of a host stands, and the knock it decides
  joined,    \* participant_joined webhooks under way
  left,      \* participant_left webhooks under way
  taken,     \* participant_left handlers that hold a seat to give back
  removing,  \* removals the participant_joined webhook has started
  banned,    \* Redis: the denylist of the room
  kick,      \* what the last kick of each identity answered
  missed,    \* (history) guests whose removal by the webhook failed since they came in
  holders,   \* (history) approvals whose seat is counted
  faults

redis == <<slots, store, index, expired, seats, banned>>
sfu   == <<joined, left, taken, removing, kick, missed>>
vars  == <<used, live, redis, guest, poll, cancel, host, sfu, holders, faults>>
-----------------------------------------------------------------------------
(* Knocks.                                                                  *)

Absent     == [status |-> "none",    grant |-> NoCall]
Pending    == [status |-> "pending", grant |-> NoCall]
Denied     == [status |-> "denied",  grant |-> NoCall]
Granted(c) == [status |-> "approved", grant |-> c]

Knocks == {Absent, Pending, Denied} \cup {Granted(c) : c \in Call}

Page    == [at : {"form", "checked", "reserved", "stored", "waiting", "away", "in", "gone"},
            free : 0..MaxUses, grant : Call \cup {NoCall}, stays : 0..MaxStays]
Reading == [at : {"none", "read", "consumed"}, answer : Knocks]
Request == [at : {"idle", "approving", "denying", "seated", "refused", "granted", "released", "cleared", "done"},
            of : Knock \cup {NoKnock}]

\* getKnock: what is past its deadline does not count, whatever is stored
getKnock(k) == IF k \in expired THEN Absent ELSE store[k]

SaveKnock(k, v) ==
  /\ store' = [store EXCEPT ![k] = v]
  /\ index' = index \ {k}

\* consumeKnock: GETDEL, and the index follows only if something was there
ConsumeKnock(k) ==
  /\ store' = [store EXCEPT ![k] = Absent]
  /\ index' = IF store[k] = Absent THEN index ELSE index \ {k}

\* releaseKnockSlot
Freed(k) == slots \ {k}

\* the slots a knock may compete for, as its handler saw them
Places(n) == IF n > 1 THEN n ELSE 1

InRoom(c) == \E k \in Knock : guest[k].at = "in" /\ guest[k].grant = c

At(k, p) == guest' = [guest EXCEPT ![k].at = p]

Step(c, p) == host' = [host EXCEPT ![c].at = p]

Fault == faults < MaxFaults /\ faults' = faults + 1
-----------------------------------------------------------------------------
Init ==
  /\ used = 0 /\ live = TRUE
  /\ slots = {} /\ store = [k \in Knock |-> Absent] /\ index = {} /\ expired = {} /\ seats = {}
  /\ guest = [k \in Knock |-> [at |-> "form", free |-> 0, grant |-> NoCall, stays |-> 0]]
  /\ poll = [k \in Knock |-> [at |-> "none", answer |-> Absent]]
  /\ cancel = [k \in Knock |-> "none"]
  /\ host = [c \in Call |-> [at |-> "idle", of |-> NoKnock]]
  /\ joined = {} /\ left = {} /\ taken = {} /\ removing = {} /\ banned = {}
  /\ kick = [c \in Call |-> "no"] /\ missed = {}
  /\ holders = {} /\ faults = 0
-----------------------------------------------------------------------------
(* POST /guest/knock.                                                       *)

\* findLiveInviteByToken: the free seats are read here and used below
Ask(k) ==
  /\ guest[k].at = "form"
  /\ live /\ used < MaxUses
  /\ guest' = [guest EXCEPT ![k] = [@ EXCEPT !.at = "checked", !.free = MaxUses - used]]
  /\ UNCHANGED <<used, live, redis, poll, cancel, host, sfu, holders, faults>>

\* reserveKnockSlot: one script, or 429 KNOCK_PENDING and back to the form
Reserve(k) ==
  /\ guest[k].at = "checked"
  /\ IF Cardinality(slots) < Places(guest[k].free)
       THEN slots' = slots \cup {k} /\ At(k, "reserved")
       ELSE At(k, "form") /\ UNCHANGED slots
  /\ UNCHANGED <<used, live, store, index, expired, seats, banned, poll, cancel, host, sfu, holders, faults>>

\* saveKnock of a new knock: first the knock ...
Save(k) ==
  /\ guest[k].at = "reserved"
  /\ store' = [store EXCEPT ![k] = Pending]
  /\ At(k, "stored")
  /\ UNCHANGED <<used, live, slots, index, expired, seats, banned, poll, cancel, host, sfu, holders, faults>>

\* ... then (indexKnockForCreator) the index, the guest_knock event and the answer
Indexed_EventOnly(k) == index
Indexed(k) == index \cup {k}

Announce(k) ==
  /\ guest[k].at = "stored"
  /\ index' = Indexed(k)
  /\ At(k, "waiting")
  /\ UNCHANGED <<used, live, slots, store, expired, seats, banned, poll, cancel, host, sfu, holders, faults>>

\* zrange 0..MAX_HYDRATED_KNOCKS-1 of what is not expired: the oldest, whose order is left out
Reads ==
  {r \in SUBSET (index \ expired) :
     Cardinality(r) = MAX_HYDRATED_KNOCKS \/ (r = index \ expired /\ Cardinality(r) < MAX_HYDRATED_KNOCKS)}

\* listPendingKnocksForCreator drops what is expired, and what it reads that is not pending
Hydrate(k) ==
  /\ k \in index /\ getKnock(k).status # "pending"
  /\ k \in expired \cup UNION Reads
  /\ index' = index \ {k}
  /\ UNCHANGED <<used, live, slots, store, expired, seats, banned, guest, poll, cancel, host, sfu, holders, faults>>

\* KNOCK_TTL_S is over
Expire(k) ==
  /\ k \notin expired
  /\ guest[k].at \notin {"form", "checked", "reserved", "stored"}
  /\ expired' = expired \cup {k}
  /\ slots' = slots \ {k}
  /\ UNCHANGED <<used, live, store, index, seats, banned, guest, poll, cancel, host, sfu, holders, faults>>
-----------------------------------------------------------------------------
(* The page of the guest, and the handlers of its requests.                 *)

\* GET /guest/knock/:id; 404 and "pending" make the page poll again
Poll(k) ==
  /\ guest[k].at = "waiting" /\ poll[k].at = "none"
  /\ getKnock(k).status \in {"approved", "denied"}
  /\ poll' = [poll EXCEPT ![k] = [at |-> "read", answer |-> getKnock(k)]]
  /\ UNCHANGED <<used, live, redis, guest, cancel, host, sfu, holders, faults>>

PollConsume(k) ==
  /\ poll[k].at = "read"
  /\ ConsumeKnock(k)
  /\ poll' = [poll EXCEPT ![k].at = "consumed"]
  /\ UNCHANGED <<used, live, slots, expired, seats, banned, guest, cancel, host, sfu, holders, faults>>

\* the slot, and the answer: a page that has stopped waiting ignores it
PollAnswer(k) ==
  /\ poll[k].at = "consumed"
  /\ slots' = Freed(k)
  /\ poll' = [poll EXCEPT ![k] = [at |-> "none", answer |-> Absent]]
  /\ \/ /\ guest[k].at = "waiting"
        /\ IF poll[k].answer.status = "approved"
             THEN guest' = [guest EXCEPT ![k] = [@ EXCEPT !.at = "away", !.grant = poll[k].answer.grant]]
             ELSE At(k, "gone")
        /\ UNCHANGED faults
     \/ guest[k].at = "waiting" /\ Fault /\ UNCHANGED guest   \* the answer is lost
     \/ guest[k].at # "waiting" /\ UNCHANGED <<guest, faults>>
  /\ UNCHANGED <<used, live, store, index, expired, seats, banned, cancel, host, sfu, holders>>

\* cancelWaiting, or the page is left: POST /guest/knock/:id/cancel
Cancel(k) ==
  /\ guest[k].at = "waiting"
  /\ At(k, "gone")
  /\ cancel' = [cancel EXCEPT ![k] = IF getKnock(k) = Absent THEN "none" ELSE "read"]
  /\ UNCHANGED <<used, live, redis, poll, host, sfu, holders, faults>>

CancelConsume(k) ==
  /\ cancel[k] = "read"
  /\ ConsumeKnock(k)
  /\ cancel' = [cancel EXCEPT ![k] = "consumed"]
  /\ UNCHANGED <<used, live, slots, expired, seats, banned, guest, poll, host, sfu, holders, faults>>

CancelRelease(k) ==
  /\ cancel[k] = "consumed"
  /\ slots' = Freed(k)
  /\ cancel' = [cancel EXCEPT ![k] = "none"]
  /\ UNCHANGED <<used, live, store, index, expired, seats, banned, guest, poll, host, sfu, holders, faults>>

\* the tab is closed while it waits or holds a grant, or the deadline of the poll is over
Quit(k) ==
  /\ guest[k].at \in {"waiting", "away"}
  /\ At(k, "gone")
  /\ UNCHANGED <<used, live, redis, poll, cancel, host, sfu, holders, faults>>

\* joinRoom, and every reconnect of the room's client with the same token
Join(k) ==
  /\ guest[k].at = "away" /\ guest[k].stays < MaxStays
  /\ guest' = [guest EXCEPT ![k] = [@ EXCEPT !.at = "in", !.stays = guest[k].stays + 1]]
  /\ joined' = joined \cup {guest[k].grant}
  /\ missed' = missed \ {guest[k].grant}
  /\ UNCHANGED <<used, live, redis, poll, cancel, host, left, taken, removing, kick, holders, faults>>

\* the SFU takes the guest out of the room and says so
Out(k) ==
  /\ At(k, "away")
  /\ left' = left \cup {guest[k].grant}

Leave(k) ==
  /\ guest[k].at = "in"
  /\ Out(k)
  /\ UNCHANGED <<used, live, redis, poll, cancel, host, joined, taken, removing, kick, missed, holders, faults>>
-----------------------------------------------------------------------------
(* Requests of the host.                                                    *)

\* approve and deny: getKnock, and 404 unless it is pending
Decide(c) ==
  /\ host[c].at = "idle"
  /\ \E k \in Knock, p \in {"approving", "denying"} :
       /\ guest[k].at \notin {"form", "checked", "reserved", "stored"}
       /\ getKnock(k).status = "pending"
       /\ host' = [host EXCEPT ![c] = [at |-> p, of |-> k]]
  /\ UNCHANGED <<used, live, redis, guest, poll, cancel, sfu, holders, faults>>

\* the condition of the UPDATE in consumeInviteSeat
SeatLeft_Live == live
SeatLeft == live /\ used < MaxUses
OneMore_Forgotten == used
OneMore == used + 1

ConsumeInviteSeat(c) ==
  /\ host[c].at = "approving"
  /\ IF SeatLeft
       THEN used' = OneMore /\ holders' = holders \cup {c} /\ Step(c, "seated")
       ELSE Step(c, "refused") /\ UNCHANGED <<used, holders>>
  /\ UNCHANGED <<live, redis, guest, poll, cancel, sfu, faults>>

\* 409 INVITE_GONE: the knock goes, then (Release) its slot
Refuse_KeepsSlot(c) ==
  /\ host[c].at = "refused"
  /\ ConsumeKnock(host[c].of)
  /\ Step(c, "done")
  /\ UNCHANGED <<used, live, slots, expired, seats, banned, guest, poll, cancel, sfu, holders, faults>>
Refuse(c) ==
  /\ host[c].at = "refused"
  /\ ConsumeKnock(host[c].of)
  /\ Step(c, "cleared")
  /\ UNCHANGED <<used, live, slots, expired, seats, banned, guest, poll, cancel, sfu, holders, faults>>

\* saveKnock of the decision: no condition on what is stored by now
SaveDecision(c) ==
  /\ \/ host[c].at = "seated" /\ SaveKnock(host[c].of, Granted(c)) /\ Step(c, "granted")
     \/ host[c].at = "denying" /\ SaveKnock(host[c].of, Denied) /\ Step(c, "cleared")
  /\ UNCHANGED <<used, live, slots, expired, seats, banned, guest, poll, cancel, sfu, holders, faults>>

Release(c) ==
  /\ \/ host[c].at = "granted" /\ Step(c, "released")
     \/ host[c].at = "cleared" /\ Step(c, "done")
  /\ slots' = Freed(host[c].of)
  /\ UNCHANGED <<used, live, store, index, expired, seats, banned, guest, poll, cancel, sfu, holders, faults>>

RememberSeatHolder(c) ==
  /\ host[c].at = "released"
  /\ seats' = seats \cup {c}
  /\ Step(c, "done")
  /\ UNCHANGED <<used, live, slots, store, index, expired, banned, guest, poll, cancel, sfu, holders, faults>>

\* one link or all are revoked, expires_at passes, or the creator leaves the chat
Shut ==
  /\ live /\ live' = FALSE
  /\ UNCHANGED <<used, redis, guest, poll, cancel, host, sfu, holders, faults>>

\* POST /guest-calls/kick: the denylist first ...
Listed_Not(c) == banned
Listed(c) == banned \cup {c}

Kick(c) ==
  /\ InRoom(c) /\ kick[c] # "listed"
  /\ banned' = Listed(c)
  /\ kick' = [kick EXCEPT ![c] = "listed"]
  /\ UNCHANGED <<used, live, slots, store, index, expired, seats, guest, poll, cancel, host, joined, left, taken, removing, missed, holders, faults>>

\* ... then removeLivekitParticipant, which fails when the guest is not there
KickRemove(c) ==
  /\ kick[c] = "listed"
  /\ \/ /\ \E k \in Knock : guest[k].at = "in" /\ guest[k].grant = c /\ Out(k)
        /\ kick' = [kick EXCEPT ![c] = "ok"]
        /\ UNCHANGED faults
     \/ /\ (~InRoom(c) /\ UNCHANGED faults) \/ Fault
        /\ kick' = [kick EXCEPT ![c] = "failed"]
        /\ UNCHANGED <<guest, left>>
  /\ UNCHANGED <<used, live, redis, poll, cancel, host, joined, taken, removing, missed, holders>>
-----------------------------------------------------------------------------
(* The webhook of the SFU, which repeats what was not answered.             *)

JoinedHook(c) ==
  /\ c \in joined
  /\ joined' = joined \ {c}
  /\ removing' = IF c \in banned THEN removing \cup {c} ELSE removing
  /\ UNCHANGED <<used, live, redis, guest, poll, cancel, host, left, taken, kick, missed, holders, faults>>

\* the removal nobody waits for: no one learns that it failed
RemoveAgain(c) ==
  /\ c \in removing
  /\ removing' = removing \ {c}
  /\ \/ /\ \E k \in Knock : guest[k].at = "in" /\ guest[k].grant = c /\ Out(k)
        /\ UNCHANGED <<missed, faults>>
     \/ ~InRoom(c) /\ UNCHANGED <<guest, left, missed, faults>>
     \/ Fault /\ missed' = missed \cup {c} /\ UNCHANGED <<guest, left>>
  /\ UNCHANGED <<used, live, redis, poll, cancel, host, joined, taken, kick, holders>>

\* takeSeatHolder is a GETDEL: a repeated webhook finds nothing
Unremembered_Kept(c) == seats
Unremembered(c) == seats \ {c}

LeftHook(c) ==
  /\ c \in left
  /\ \/ left' = left \ {c} /\ UNCHANGED faults
     \/ Fault /\ UNCHANGED left                   \* it will come again
  /\ IF c \in seats
       THEN seats' = Unremembered(c) /\ taken' = taken \cup {c}
       ELSE UNCHANGED <<seats, taken>>
  /\ UNCHANGED <<used, live, slots, store, index, expired, banned, guest, poll, cancel, host, joined, removing, kick, missed, holders>>

\* greatest(used_count - 1, 0)
GiveBack(c) ==
  /\ c \in taken
  /\ taken' = taken \ {c}
  /\ used' = IF used > 0 THEN used - 1 ELSE 0
  /\ holders' = holders \ {c}
  /\ UNCHANGED <<live, redis, guest, poll, cancel, host, joined, left, removing, kick, missed, faults>>

\* the server restarts: every handler under way ends where it stands
Restart ==
  /\ Fault
  /\ guest' = [k \in Knock |-> IF guest[k].at \in {"checked", "reserved", "stored"}
                                 THEN [guest[k] EXCEPT !.at = "gone"] ELSE guest[k]]
  /\ poll' = [k \in Knock |-> [at |-> "none", answer |-> Absent]]
  /\ cancel' = [k \in Knock |-> "none"]
  /\ host' = [c \in Call |-> IF host[c].at = "idle" THEN host[c] ELSE [host[c] EXCEPT !.at = "done"]]
  /\ kick' = [c \in Call |-> IF kick[c] = "listed" THEN "failed" ELSE kick[c]]
  /\ taken' = {} /\ removing' = {} /\ missed' = missed \cup removing
  /\ UNCHANGED <<used, live, redis, joined, left, holders>>
-----------------------------------------------------------------------------
GuestStep(k) ==
  \/ Ask(k) \/ Reserve(k) \/ Save(k) \/ Announce(k) \/ Hydrate(k) \/ Expire(k)
  \/ Poll(k) \/ PollConsume(k) \/ PollAnswer(k)
  \/ Cancel(k) \/ CancelConsume(k) \/ CancelRelease(k)
  \/ Quit(k) \/ Join(k) \/ Leave(k)

HostStep(c) ==
  \/ Decide(c) \/ ConsumeInviteSeat(c) \/ Refuse(c) \/ SaveDecision(c) \/ Release(c)
  \/ RememberSeatHolder(c) \/ Kick(c) \/ KickRemove(c)

HookStep(c) == JoinedHook(c) \/ RemoveAgain(c) \/ LeftHook(c) \/ GiveBack(c)

Next ==
  \/ \E k \in Knock : GuestStep(k)
  \/ \E c \in Call : HostStep(c) \/ HookStep(c)
  \/ Shut \/ Restart

Spec == Init /\ [][Next]_vars
-----------------------------------------------------------------------------
(* Properties.                                                              *)

\* The counter of a link stays within its seats and every record keeps its
\* shape (guest.ts:200-221, guest-knock-store.ts:28-52).
TypeOK ==
  /\ used \in 0..MaxUses /\ live \in BOOLEAN
  /\ slots \subseteq Knock /\ index \subseteq Knock /\ expired \subseteq Knock
  /\ store \in [Knock -> Knocks]
  /\ seats \subseteq Call /\ banned \subseteq Call /\ joined \subseteq Call /\ left \subseteq Call
  /\ taken \subseteq Call /\ removing \subseteq Call /\ holders \subseteq Call
  /\ guest \in [Knock -> Page]
  /\ poll \in [Knock -> Reading]
  /\ cancel \in [Knock -> {"none", "read", "consumed"}]
  /\ host \in [Call -> Request]
  /\ kick \in [Call -> {"no", "listed", "ok", "failed"}] /\ missed \subseteq Call
  /\ faults \in 0..MaxFaults

\* used_count is the number of approvals whose seat is not given back, and
\* every approval, repeated webhook and revocation moves it as SeatPool allows
\* (consumeInviteSeat, takeSeatHolder; guest-knock-store.ts:257-261).
Pool == INSTANCE SeatPool WITH Ticket <- Call, free <- MaxUses - used, open <- live
SeatsCounted == Pool!Spec

\* There are never more guests in the room on their first stay than the link
\* has seats, however approvals, departures and repeated webhooks interleave
\* (guest-knock-store.ts:76-81: max_uses is concurrent capacity).
Capacity == Cardinality({k \in Knock : guest[k].at = "in" /\ guest[k].stays = 1}) <= MaxUses

\* A guest who waits at the door is in the list GET /guest/knocks answers, so
\* that the knock is seen even if the event was not (guest-knock-store.ts:66-71,
\* guest.ts:919-929).  The list is cut at MAX_HYDRATED_KNOCKS: whatever the order,
\* the knocks of one link never fill it, as none keeps its place in the index
\* longer than its slot.
Hydrated ==
  \A r \in Reads, k \in Knock :
    guest[k].at = "waiting" /\ getKnock(k).status = "pending" => k \in r

\* No slot of the waiting room is held by a knock that is decided or gone:
\* whoever ends a knock frees its slot (guest-knock-store.ts:55-64, a slot that
\* stays behind keeps a one-seat link shut).  A restart may leave one to expire.
NoGhostSlot ==
  faults > 0 \/ \A k \in slots :
    \/ guest[k].at \in {"reserved", "stored"}
    \/ getKnock(k).status = "pending"
    \/ poll[k].at # "none" \/ cancel[k] # "none"
    \/ \E c \in Call : host[c].of = k /\ host[c].at \in {"granted", "cleared"}

\* A guest whose kick was reported as done is back in the room only until the
\* webhook of the rejoin and the removal it starts have run, or because that
\* removal failed: the denylist is written before the first removal, so no rejoin
\* slips between the two (guest.ts:1000-1018, call.ts:398-405).
KickBites ==
  \A c \in Call : kick[c] = "ok" /\ InRoom(c) => c \in joined \cup removing \cup missed

\* A kick that was reported as done holds: a guest who comes back is removed again
\* (call.ts:398-400: "re-remove denylisted identities the moment the SFU reports
\* them back in").
KickHolds ==
  \A c \in Call : kick[c] = "ok" /\ InRoom(c) => c \in joined \cup removing

\* Every seat is that of a request under way, of a guest who can still use the
\* grant, or is about to be given back (guest-knock-store.ts:18-19: "an approve
\* takes a real seat in Postgres (used_count), given back when the guest leaves
\* the room").
NoSeatLost ==
  faults > 0 \/ \A c \in holders :
    \/ host[c].at \in {"seated", "granted", "released"}
    \/ c \in taken \/ (c \in left /\ c \in seats)
    \/ \E k \in Knock :
         \/ guest[k].at \in {"away", "in"} /\ guest[k].grant = c
         \/ guest[k].at = "waiting" /\ c \in {getKnock(k).grant, poll[k].answer.grant}

\* Nobody is in the room beyond the seats of the link, reconnects included
\* (guest-knock-store.ts:76-81: "max_uses is CONCURRENT capacity").
ConcurrentCapacity == Cardinality({k \in Knock : guest[k].at = "in"}) <= MaxUses
=============================================================================
