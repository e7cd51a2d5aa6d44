------------------------------ MODULE GroupKeys ------------------------------
(***************************************************************************)
(* The key of one SECTOR (group_e2e) chat.  The server keeps the roster,   *)
(* the epoch and one wrapped key per member (server/src/routes/chats.ts);  *)
(* every change of the roster bumps the epoch.  A client of the owner sees *)
(* that its own key is behind and rotates: it claims the next epoch with   *)
(* its first upload and wraps a new key for each member, one request at a  *)
(* time (client/src/lib/group-key-rotation.ts); a scan hands the owner's   *)
(* key to members who are behind (use-group-key-distribution.ts).          *)
(*                                                                         *)
(* The owner may run several clients, and a client several of these calls  *)
(* at once: a task is one call in progress, <<user, client, number>>.  The *)
(* flags that admit one rotation are per client.  GET /chats/:id reads the *)
(* chat before the roster, in two statements; PUT wrapped-key checks and   *)
(* claims in one step and stores in another.  A request may be lost, or be *)
(* answered late or never; a tab may be closed at any point.  Rosters are  *)
(* in the order of joining, as GET returns them; everybody has published   *)
(* an ECDH key no pin contradicts.                                         *)
(***************************************************************************)
EXTENDS Integers, Sequences, FiniteSets, SequencesExt

CONSTANTS
    User,           \* the users who are ever in the chat
    Creator, First, \* the owner and the other member the chat starts with
    Task,           \* the calls clients may have in progress
    Key, CreationKey, \* the sector keys there are, and the one the chat starts with
    MaxChanges,     \* bound: joins, departures and kicks
    MaxTransfers,   \* bound: times the owner hands the chat over
    MaxFaults,      \* bound: answers not waited for, tabs closed
    MaxEpoch        \* bound: no key is minted from this epoch on (nor if all are in use)

ASSUME GroupAssumption ==
    /\ Creator \in User /\ First \in User \ {Creator}
    /\ Task \subseteq User \X Nat \X Nat
    /\ CreationKey \in Key
    /\ {MaxChanges, MaxTransfers, MaxFaults, MaxEpoch} \subseteq Nat

VARIABLES
    members,    \* chat_members, in the order of joined_at
    owner,      \* the member with role owner
    epoch,      \* chats.key_epoch
    row,        \* row[u]: encrypted_group_key of u, {} if null
    task,       \* task[t]: where the call t is
    reqs,       \* PUT wrapped-key requests the server has not answered
    got,        \* history: every wrapped key that was ever stored for u
    since,      \* history: the epoch at which u first became a member
    changes, transfers, faults

server == <<members, owner, epoch, row>>
bounds == <<changes, transfers, faults>>
vars == <<server, task, reqs, got, since, bounds>>

UserOf(t) == t[1]
SameClient(s, t) == s[1] = t[1] /\ s[2] = t[2]
Roster == {members[i] : i \in DOMAIN members}
Without(u) == RemoveAt(members, CHOOSE i \in DOMAIN members : members[i] = u)

\* A wrapped key: the sector key, the epoch it is stamped with, and whose ECDH
\* key wrapped it.
Blob == [epoch : Nat, key : Key, by : User]

\* A call: what it is at, what for, the epoch it has read, the members left, the
\* key it hands out and the epoch it claims with its next upload.
Idle == [pc |-> "idle", op |-> "none", epoch |-> 0, todo |-> <<>>,
         blob |-> {}, claim |-> {}]

\* createKeyedGroupChat has stored the creation keys and is about to rotate.
Creating == [Idle EXCEPT !.pc = "chat", !.op = "create"]

Init ==
    /\ members = <<Creator, First>>
    /\ owner = Creator
    /\ epoch = 0
    /\ row = [u \in User |-> IF u \in {Creator, First}
                             THEN {[epoch |-> 0, key |-> CreationKey, by |-> Creator]}
                             ELSE {}]
    /\ \E c \in Task : /\ c[1] = Creator
                     /\ task = [t \in Task |-> IF t = c THEN Creating ELSE Idle]
    /\ reqs = {}
    /\ got = row
    /\ since = [u \in User |-> IF u \in {Creator, First} THEN 0 ELSE MaxEpoch + 1]
    /\ changes = 0 /\ transfers = 0 /\ faults = 0

----------------------------------------------------------------------------
(* The owner's clients *)

Owned(t) == UserOf(t) = owner /\ UserOf(t) \in Roster

\* The two rotationsInFlight: the hook's, which a staleness check takes, and the
\* one of rotateGroupKeyForChat, which the rotation after creation takes too.
Others(t) == {s \in Task \ {t} : SameClient(s, t)}
Rotating(t) == \E s \in Others(t) : task[s].op \in {"stale", "rotate"}
Minting(t) == \E s \in Others(t) : task[s].op \in {"rotate", "create"}

\* shouldRotateGroupKey, for an owner whose stored key is `mine`.
ShouldRotate_Missing(mine, e) == mine = {} /\ e > 0
ShouldRotate(mine, e) == IF mine = {} THEN e > 0 ELSE \A b \in mine : b.epoch < e

\* Somebody whose key is missing or stamped lower than the owner's.
Behind_Missing(u, mine) == row[u] = {}
Behind(u, mine) == \A b \in row[u] : b.epoch < mine.epoch

UsedKeys ==
    (UNION {{b.key : b \in got[u]} : u \in User})
        \union (UNION {{b.key : b \in task[t].blob} : t \in Task})
        \union {r.blob.key : r \in reqs}

\* crypto.subtle.generateKey: a key nobody has.
FreshKey == CHOOSE k \in Key \ UsedKeys : TRUE

Does(t, f) == task' = [task EXCEPT ![t] = f]

\* fetchChatDetail, first half: GET /chats/:id authorizes and reads the chat.
\* What is fetched for: a staleness check ("stale"), the delivery to a member who
\* joined ("deliver") or a scan of the roster ("scan").  Whoever is not the owner
\* stops here.
ReadChat(t, op) ==
    /\ task[t] = Idle
    /\ Owned(t)
    /\ op = "stale" => ~Rotating(t)
    /\ Does(t, [Idle EXCEPT !.pc = "roster", !.op = op, !.epoch = epoch])
    /\ UNCHANGED <<server, reqs, got, since, bounds>>

\* The fetch with which runRotation starts, and the one of rotateGroupKeyIfStale
\* when a scan finds the owner's own key behind.
ReadChatAgain(t) ==
    /\ task[t].pc = "chat"
    /\ Does(t, IF Owned(t) THEN [task[t] EXCEPT !.pc = "roster", !.epoch = epoch]
                           ELSE Idle)
    /\ UNCHANGED <<server, reqs, got, since, bounds>>

\* fetchChatDetail, second half: GET /chats/:id reads the roster with the keys.

\* rotateGroupKeyIfStale goes on to rotateGroupKeyForChat, or has nothing to do.
CheckStale(t) ==
    /\ task[t].pc = "roster" /\ task[t].op = "stale"
    /\ Does(t, IF /\ UserOf(t) \in Roster
                  /\ ShouldRotate(row[UserOf(t)], task[t].epoch)
                  /\ ~Minting(t)
               THEN [task[t] EXCEPT !.pc = "chat", !.op = "rotate"]
               ELSE Idle)
    /\ UNCHANGED <<server, reqs, got, since, bounds>>

\* runRotation mints a key for everybody on the roster.
Rotation(t) ==
    [task[t] EXCEPT !.pc = "put", !.todo = members, !.claim = {task[t].epoch},
                    !.blob = {[epoch |-> task[t].epoch + 1,
                               key |-> FreshKey, by |-> UserOf(t)]}]

Mint(t) ==
    /\ task[t].pc = "roster" /\ task[t].op \in {"rotate", "create"}
    /\ task[t].epoch < MaxEpoch /\ Key \ UsedKeys # {}
    /\ Does(t, IF UserOf(t) \in Roster THEN Rotation(t) ELSE Idle)
    /\ UNCHANGED <<server, reqs, got, since, bounds>>

\* What a client that holds `mine` does for the members `who`: it rotates if its
\* key is behind the chat, and else hands its key out, which it can unwrap only if
\* it has wrapped it itself.
Sharing(t, mine, who) ==
    IF task[t].epoch > mine.epoch
    THEN IF Rotating(t) THEN Idle ELSE [Idle EXCEPT !.pc = "chat", !.op = "stale"]
    ELSE IF who = <<>> \/ mine.by # UserOf(t) THEN Idle
    ELSE [task[t] EXCEPT !.pc = "put", !.blob = {mine}, !.todo = who]

\* reconcileGroupKeysForChat: everybody whose key is missing or behind.
Scan(t) ==
    /\ task[t].pc = "roster" /\ task[t].op = "scan"
    /\ \/ /\ row[UserOf(t)] = {}
          /\ Does(t, Idle)
       \/ \E mine \in row[UserOf(t)] :
             Does(t, Sharing(t, mine, SelectSeq(members,
                       LAMBDA u : u # UserOf(t) /\ Behind(u, mine))))
    /\ UNCHANGED <<server, reqs, got, since, bounds>>

\* deliverGroupKeyToMember: one member u, if u has no key.
Deliver(t) ==
    /\ task[t].pc = "roster" /\ task[t].op = "deliver"
    /\ \E u \in User \ {UserOf(t)} :
          IF u \notin Roster \/ row[u] # {} \/ row[UserOf(t)] = {} THEN Does(t, Idle)
          ELSE \E mine \in row[UserOf(t)] : Does(t, Sharing(t, mine, <<u>>))
    /\ UNCHANGED <<server, reqs, got, since, bounds>>

----------------------------------------------------------------------------
(* Uploads *)

Put(t) ==
    [task |-> t, to |-> Head(task[t].todo), blob |-> CHOOSE b \in task[t].blob : TRUE,
     claim |-> task[t].claim, admitted |-> FALSE]

\* uploadMemberWrappedGroupKey, for the next member.
Upload(t) ==
    /\ task[t].pc = "put"
    /\ reqs' = reqs \union {Put(t)}
    /\ task' = [task EXCEPT ![t].pc = "wait"]
    /\ UNCHANGED <<server, got, since, bounds>>

\* The call after an upload: it goes on with the members left, or has ended.
GoesOn(f) == IF Tail(f.todo) = <<>> THEN Idle
             ELSE [f EXCEPT !.pc = "put", !.todo = Tail(f.todo)]

\* A rotation passes over a member whose upload failed, a delivery ends; a rotation
\* that learns that its epoch was claimed by another one ends too.
AfterStored(f) == GoesOn([f EXCEPT !.claim = {}])
AfterFailure(f) == IF f.op \in {"rotate", "create"} THEN GoesOn(f) ELSE Idle
AfterConflict(f) == Idle

\* The answer to r reaches the call that waits for it, if it still does.
Waits(t, r) ==
    /\ task[t].pc = "wait" /\ t = r.task
    /\ Head(task[t].todo) = r.to /\ task[t].blob = {r.blob}
Answer(r, After(_)) ==
    task' = [t \in Task |-> IF Waits(t, r) THEN After(task[t]) ELSE task[t]]

----------------------------------------------------------------------------
(* The server *)

\* PUT /:chatId/members/:userId/wrapped-key: 403 and 404.
Refuse(r) ==
    /\ ~r.admitted
    /\ UserOf(r.task) # owner \/ UserOf(r.task) \notin Roster \/ r.to \notin Roster
    /\ reqs' = reqs \ {r}
    /\ Answer(r, AfterFailure)
    /\ UNCHANGED <<server, got, since, bounds>>

Allowed(r) ==
    /\ ~r.admitted
    /\ UserOf(r.task) = owner /\ owner \in Roster /\ r.to \in Roster

\* claimEpochFrom, if there is one, against the epoch of the chat.
Claims_Unconditional(r) == TRUE
Claims(r) == r.claim \in {{}, {epoch}}

\* 409 KEY_EPOCH_STALE: the chat is not at the epoch the request claims from.
Conflict(r) ==
    /\ Allowed(r)
    /\ ~Claims(r)
    /\ reqs' = reqs \ {r}
    /\ Answer(r, AfterConflict)
    /\ UNCHANGED <<server, got, since, bounds>>

\* The conditional bump, if the request claims an epoch.
Admit(r) ==
    /\ Allowed(r)
    /\ Claims(r)
    /\ epoch' = IF r.claim = {} THEN epoch ELSE epoch + 1
    /\ reqs' = (reqs \ {r}) \union {[r EXCEPT !.admitted = TRUE]}
    /\ UNCHANGED <<members, owner, row, task, got, since, bounds>>

\* The row there still is to update.
HasRow_Upsert(u) == TRUE
HasRow(u) == u \in Roster

\* The update of the member's row and the answer.
Store(r) ==
    /\ r.admitted
    /\ IF HasRow(r.to)
       THEN /\ row' = [row EXCEPT ![r.to] = {r.blob}]
            /\ got' = [got EXCEPT ![r.to] = @ \union {r.blob}]
       ELSE UNCHANGED <<row, got>>
    /\ reqs' = reqs \ {r}
    /\ Answer(r, AfterStored)
    /\ UNCHANGED <<members, owner, epoch, since, bounds>>

\* keyEpoch + 1, in the transaction that changes the roster.
NextEpoch_Same == epoch
NextEpoch == epoch + 1

\* POST /join/:code.
Join(u) ==
    /\ changes < MaxChanges
    /\ u \notin Roster
    /\ members' = Append(members, u)
    /\ epoch' = NextEpoch
    /\ since' = [since EXCEPT ![u] = IF epoch' < @ THEN epoch' ELSE @]
    /\ changes' = changes + 1
    /\ UNCHANGED <<owner, row, task, reqs, got, transfers, faults>>

\* u's row is deleted and the epoch bumped in the same transaction.
Departs(u) ==
    /\ changes < MaxChanges
    /\ members' = Without(u)
    /\ row' = [row EXCEPT ![u] = {}]
    /\ epoch' = NextEpoch
    /\ changes' = changes + 1
    /\ UNCHANGED <<task, reqs, got, since, transfers, faults>>

\* POST /:chatId/leave by a member; DELETE /:chatId/members/:userId by the owner or an admin.
Leave(u) == u \in Roster \ {owner} /\ Departs(u) /\ UNCHANGED owner
Kick(u) == owner \in Roster /\ u \in Roster \ {owner} /\ Departs(u) /\ UNCHANGED owner

\* POST /:chatId/leave by the owner: another member is promoted.
OwnerLeaves(u) ==
    /\ owner \in Roster
    /\ u \in Roster \ {owner}
    /\ Departs(owner)
    /\ owner' = u

\* PATCH /:chatId/members/:userId/role to owner.
Transfer(u) ==
    /\ transfers < MaxTransfers
    /\ u \in Roster \ {owner}
    /\ owner' = u
    /\ transfers' = transfers + 1
    /\ UNCHANGED <<members, epoch, row, task, reqs, got, since, changes, faults>>

----------------------------------------------------------------------------
(* Faults *)

\* fetchWithTimeout gives up on an answer; the request may still arrive.
GiveUp(t) ==
    /\ faults < MaxFaults
    /\ task[t].pc = "wait"
    /\ Does(t, AfterFailure(task[t]))
    /\ faults' = faults + 1
    /\ UNCHANGED <<server, reqs, got, since, changes, transfers>>

\* The client of t is closed or reloaded.
Close(t) ==
    /\ faults < MaxFaults
    /\ task[t] # Idle
    /\ task' = [s \in Task |-> IF SameClient(s, t) THEN Idle ELSE task[s]]
    /\ faults' = faults + 1
    /\ UNCHANGED <<server, reqs, got, since, changes, transfers>>

\* A request nobody waits for never reaches the server, or dies there.
Vanish(r) ==
    /\ \A t \in Task : ~Waits(t, r)
    /\ reqs' = reqs \ {r}
    /\ UNCHANGED <<server, task, got, since, bounds>>

----------------------------------------------------------------------------

\* useGroupKeyDistribution: a chat is opened (a check, then a scan), a member has
\* joined (a delivery), the epoch has moved (a check), the socket is back (a scan).
Client(t) ==
    \/ \E op \in {"stale", "scan", "deliver"} : ReadChat(t, op)
    \/ ReadChatAgain(t) \/ CheckStale(t) \/ Mint(t) \/ Scan(t) \/ Deliver(t)
    \/ Upload(t)

Handle(r) == Refuse(r) \/ Conflict(r) \/ Admit(r) \/ Store(r)

Membership ==
    \E u \in User : Join(u) \/ Leave(u) \/ Kick(u) \/ OwnerLeaves(u) \/ Transfer(u)

Fault ==
    \/ \E t \in Task : GiveUp(t) \/ Close(t)
    \/ \E r \in reqs : Vanish(r)

Next == (\E t \in Task : Client(t)) \/ (\E r \in reqs : Handle(r)) \/ Membership \/ Fault

Spec == Init /\ [][Next]_vars

\* A client runs what it has begun and the server handles what reaches it; an owner
\* keeps coming back to the chat, which checks and scans.
Fairness ==
    \A t \in Task :
        /\ WF_vars(task[t] # Idle /\ Client(t))
        /\ WF_vars(\E r \in reqs : r.task = t /\ Handle(r))
        /\ SF_vars(ReadChat(t, "stale")) /\ SF_vars(ReadChat(t, "scan"))

FairSpec == Spec /\ Fairness

----------------------------------------------------------------------------
(* Properties *)

\* Types; the roster names nobody twice, and only a member has a stored key, which
\* is one: an upload that was admitted before its member left stores nothing.
TypeOK ==
    /\ owner \in User /\ epoch \in Nat
    /\ members \in Seq(User)
    /\ \A i, j \in DOMAIN members : members[i] = members[j] => i = j
    /\ row \in [User -> SUBSET Blob] /\ got \in [User -> SUBSET Blob]
    /\ \A u \in User : Cardinality(row[u]) <= 1 /\ row[u] \subseteq got[u]
    /\ \A u \in User \ Roster : row[u] = {}

\* All wrapped keys that were ever stored under one epoch hold the same sector key,
\* however many of the owner's clients rotate at once and however late an upload
\* arrives: the ring of epochs (sector-keyring.ts addRingEntry) keeps the first key
\* it sees for an epoch, and every staleness check compares epochs only.
OneKeyPerEpoch ==
    \A u, v \in User : \A b \in got[u], c \in got[v] :
        b.epoch = c.epoch => b.key = c.key

\* The owner's stored key is of the epoch of the chat: it is what is sent under.
OwnerCurrent == \E b \in row[owner] : b.epoch = epoch /\ b.by = owner

\* Forward secrecy of a departure: whoever has left or was kicked never held, nor
\* gets by a late upload, the key the owner takes for current.
DepartedSealed ==
    OwnerCurrent =>
        \A u \in User \ Roster : \A b \in got[u] : \A c \in row[owner] : b.key # c.key

\* Nobody who joins ever gets a key of before, with which the history was sealed.
JoinerSealed == \A u \in User : \A b \in got[u] : b.epoch >= since[u]

\* Everybody holds the current key, wrapped by the owner, whose wrapping alone
\* unwrapGroupKeyFromStoredPayload accepts.
Settled == \A u \in Roster : \E b \in row[u] : b.epoch = epoch /\ b.by = owner

\* When nothing is in progress, a member who cannot read is one that the owner's next
\* check or scan finds: an upload that failed, was refused or overtaken never leaves
\* the members with different keys behind the owner's back.
Quiet == reqs = {} /\ \A t \in Task : task[t] = Idle
NoSilentSplit ==
    Quiet => \/ Settled
             \/ ShouldRotate(row[owner], epoch)
             \/ \E mine \in row[owner], u \in Roster \ {owner} :
                    mine.by = owner /\ Behind(u, mine)

\* After the last change of the roster and the last fault, the owner's checks and
\* scans bring everybody to the current key, for good.
Converges == <>[]Settled
=============================================================================
