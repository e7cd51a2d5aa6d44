--------------------------- MODULE GroupKeysProofs ---------------------------
(***************************************************************************)
(* What GroupKeys guarantees for every set of users, clients and keys, and *)
(* for every bound.  The argument is about the keys that COUNT: those that *)
(* were stored, those in a request that claims no epoch or has claimed it, *)
(* and those a call hands out after its claim.  A key that still has to    *)
(* claim is stamped one above the epoch it claims from; none that counts   *)
(* is stamped above the chat's epoch, so whoever wins the claim is the     *)
(* first of its stamp.  Until the chat is handed over, whatever counts for *)
(* the current epoch was wrapped by the owner.                             *)
(***************************************************************************)
EXTENDS GroupKeys, FiniteSetTheorems, SequenceTheorems, TLAPS

\* The shapes of calls and requests.
IsCall(f) ==
    /\ f \in [pc : {f.pc}, op : {f.op}, epoch : Nat, todo : {f.todo},
              blob : SUBSET Blob, claim : SUBSET Nat]
    /\ \A b, c \in f.blob : b = c

IsReq(r) == r \in [task : Task, to : {r.to}, blob : Blob, claim : SUBSET Nat,
                   admitted : BOOLEAN]

Shapes ==
    /\ owner \in User /\ epoch \in Nat /\ transfers \in Nat
    /\ row \in [User -> SUBSET Blob] /\ got \in [User -> SUBSET Blob]
    /\ \A u \in User : row[u] \subseteq got[u] /\ \A b, c \in row[u] : b = c
    /\ DOMAIN task = Task /\ task = [t \in Task |-> task[t]]
    /\ \A t \in Task : IsCall(task[t])
    /\ \A r \in reqs : IsReq(r)

\* A call has a key in hand from its first upload on, and claims nothing before.
Phases ==
    \A t \in Task :
        /\ task[t].pc \in {"put", "wait"} => task[t].blob # {}
        /\ task[t].pc \notin {"put", "wait"} => task[t].claim = {} /\ task[t].blob = {}

\* The wrapped keys that count.
Counts(b) ==
    \/ \E u \in User : b \in got[u]
    \/ \E r \in reqs : b = r.blob /\ (r.claim = {} \/ r.admitted)
    \/ \E t \in Task : b \in task[t].blob /\ task[t].claim = {}

\* All of them, with those that still have to claim.
Wrapped(b) ==
    \/ \E u \in User : b \in got[u]
    \/ \E r \in reqs : b = r.blob
    \/ \E t \in Task : b \in task[t].blob

Claiming ==
    /\ \A r \in reqs : \A e \in r.claim :
           r.claim = {e} /\ r.blob.epoch = e + 1 /\ r.blob.by = UserOf(r.task)
    /\ \A t \in Task : \A e \in task[t].claim :
           task[t].claim = {e} /\ \A b \in task[t].blob : b.epoch = e + 1 /\ b.by = UserOf(t)

NotAhead == \A b \in Blob : Counts(b) => b.epoch <= epoch

OneKey == \A b, c \in Blob : Counts(b) /\ Counts(c) /\ b.epoch = c.epoch => b.key = c.key

\* A sector key is minted for one epoch.
OneEpoch == \A b, c \in Blob : Wrapped(b) /\ Wrapped(c) /\ b.key = c.key => b.epoch = c.epoch

\* Whoever is not a member has nothing of the current epoch.
Outside == \A u \in User \ Roster : \A b \in got[u] : b.epoch < epoch

\* What counts for the current epoch was wrapped by the owner, until a transfer.
OwnersKey ==
    \A b \in Blob : Counts(b) /\ b.epoch = epoch => b.by = owner \/ transfers > 0

\* The roster names nobody twice, and nobody outside it has a key.
Roll ==
    /\ members \in Seq(User)
    /\ \A i, j \in DOMAIN members : members[i] = members[j] => i = j
    /\ \A u \in User \ Roster : row[u] = {}
    /\ epoch = 0 => owner \in Roster /\ \A u \in Roster : row[u] # {}

Inv == /\ Shapes /\ Phases /\ Claiming /\ NotAhead /\ OneKey /\ OneEpoch /\ OwnersKey
       /\ Outside /\ Roll

(***************************************************************************)
(* Steps under which nothing new counts.                                   *)
(***************************************************************************)
LEMMA Carried ==
    ASSUME NotAhead, OneKey, OneEpoch, OwnersKey, epoch \in Nat, epoch' \in Nat, epoch' >= epoch,
           epoch' > epoch \/ transfers' > 0 \/ UNCHANGED <<owner, transfers>>,
           \A b \in Blob : Counts(b)' => Counts(b),
           \A b \in Blob : Wrapped(b)' => Wrapped(b)
    PROVE  NotAhead' /\ OneKey' /\ OneEpoch' /\ OwnersKey'
<1>1. NotAhead'
  BY DEF NotAhead, Blob
<1>2. OneKey'
  BY DEF OneKey
<1>3. OneEpoch'
  BY DEF OneEpoch
<1>4. OwnersKey'
  <2> SUFFICES ASSUME NEW b \in Blob, Counts(b)', b.epoch = epoch', ~(transfers' > 0)
               PROVE  b.by = owner'
    BY DEF OwnersKey
  <2>1. Counts(b) /\ b.epoch \in Nat /\ b.epoch <= epoch
    BY DEF NotAhead, Blob
  <2>2. epoch' = epoch /\ UNCHANGED <<owner, transfers>>
    BY <2>1
  <2> QED
    BY <2>1, <2>2 DEF OwnersKey
<1> QED
  BY <1>1, <1>2, <1>3, <1>4

\* What a call may become: it keeps its key and its claim, or hands out one that counts.
Becomes(f, t) ==
    /\ IsCall(f)
    /\ f.pc \in {"put", "wait"} => f.blob # {}
    /\ f.pc \notin {"put", "wait"} => f.claim = {} /\ f.blob = {}
    /\ \/ f.blob \subseteq task[t].blob /\ f.claim = task[t].claim
       \/ f.claim = {} /\ \A b \in f.blob : Counts(b)

LEMMA Stays ==
    ASSUME Inv, NEW t \in Task
    PROVE  Becomes(task[t], t)
BY DEF Inv, Shapes, Phases, Becomes

LEMMA IdleBecomes ==
    ASSUME NEW t \in Task
    PROVE  Becomes(Idle, t)
BY DEF Becomes, Idle, IsCall

\* Calls go on, requests are dropped, and the server stays as it is.
LEMMA CallsGoOn ==
    ASSUME Inv, UNCHANGED <<server, got, transfers>>, reqs' \subseteq reqs,
           NEW f, task' = [t \in Task |-> f[t]], \A t \in Task : Becomes(f[t], t)
    PROVE  Inv'
<1>1. \A t \in Task : task'[t] = f[t]
  OBVIOUS
<1>2. Shapes'
  BY <1>1 DEF Inv, Shapes, server, Becomes, IsCall, IsReq
<1>3. Phases'
  BY <1>1 DEF Phases, Becomes
<1>4. Claiming'
  BY <1>1 DEF Inv, Claiming, Becomes
<1>5. ASSUME NEW b \in Blob, Counts(b)' PROVE Counts(b)
  <2>1. CASE \E u \in User : b \in got'[u]
    BY <2>1 DEF Counts
  <2>2. CASE \E r \in reqs' : b = r.blob /\ (r.claim = {} \/ r.admitted)
    BY <2>2 DEF Counts
  <2>3. CASE \E t \in Task : b \in task'[t].blob /\ task'[t].claim = {}
    <3>1. PICK t \in Task : b \in f[t].blob /\ f[t].claim = {}
      BY <1>1, <2>3
    <3>2. Becomes(f[t], t)
      OBVIOUS
    <3> QED
      BY <3>1, <3>2 DEF Becomes, Counts
  <2> QED
    BY <1>5, <2>1, <2>2, <2>3 DEF Counts
<1>6. \A b \in Blob : Wrapped(b)' => Wrapped(b)
  BY <1>1 DEF Counts, Wrapped, Becomes
<1>7. NotAhead' /\ OneKey' /\ OneEpoch' /\ OwnersKey'
  BY <1>5, <1>6, Carried DEF Inv, Shapes, server
<1>8. Outside' /\ Roll'
  BY DEF Inv, Outside, Roll, Roster, server
<1> QED
  BY <1>2, <1>3, <1>4, <1>7, <1>8 DEF Inv

\* The same for one call.
LEMMA CallGoesOn ==
    ASSUME Inv, UNCHANGED <<server, got, reqs, transfers>>,
           NEW t \in Task, NEW f, Does(t, f), Becomes(f, t)
    PROVE  Inv'
<1> DEFINE g == [s \in Task |-> IF s = t THEN f ELSE task[s]]
<1>1. task' = [s \in Task |-> g[s]]
  BY DEF Inv, Shapes, Does
<1>2. ASSUME NEW s \in Task PROVE Becomes(g[s], s)
  <2>1. CASE s = t
    BY <2>1
  <2>2. CASE s # t
    BY <2>2, Stays
  <2> QED
    BY <2>1, <2>2
<1> HIDE DEF g
<1> QED
  BY <1>1, <1>2, CallsGoOn

\* The members left after an upload that was refused or not answered.
LEMMA FailureBecomes ==
    ASSUME Inv, NEW t \in Task, task[t].pc = "wait"
    PROVE  Becomes(AfterFailure(task[t]), t)
<1>1. IsCall(task[t]) /\ task[t].blob # {}
  BY DEF Inv, Shapes, Phases
<1>2. CASE AfterFailure(task[t]) = Idle
  BY <1>2, IdleBecomes
<1>3. CASE AfterFailure(task[t]) # Idle
  <2>1. AfterFailure(task[t]) = [task[t] EXCEPT !.pc = "put", !.todo = Tail(task[t].todo)]
    BY <1>3 DEF AfterFailure, GoesOn
  <2> QED
    BY <1>1, <2>1 DEF Becomes, IsCall
<1> QED
  BY <1>2, <1>3

(***************************************************************************)
(* The calls of the owner's clients.                                       *)
(***************************************************************************)
LEMMA Reading ==
    ASSUME Inv, NEW t \in Task,
           (\E op \in {"stale", "scan", "deliver"} : ReadChat(t, op))
               \/ ReadChatAgain(t) \/ CheckStale(t)
    PROVE  Inv'
<1>1. CASE \E op \in {"stale", "scan", "deliver"} : ReadChat(t, op)
  <2>1. PICK op \in {"stale", "scan", "deliver"} : ReadChat(t, op)
    BY <1>1
  <2>2. Becomes([Idle EXCEPT !.pc = "roster", !.op = op, !.epoch = epoch], t)
    BY DEF Becomes, Idle, IsCall, Inv, Shapes
  <2> QED
    BY <2>1, <2>2, CallGoesOn DEF ReadChat, bounds
<1>2. CASE ReadChatAgain(t)
  <2>1. task[t].claim = {} /\ task[t].blob = {} /\ IsCall(task[t]) /\ epoch \in Nat
    BY <1>2 DEF ReadChatAgain, Inv, Phases, Shapes
  <2>2. Becomes([task[t] EXCEPT !.pc = "roster", !.epoch = epoch], t)
    BY <2>1 DEF Becomes, IsCall
  <2> QED
    BY <1>2, <2>2, IdleBecomes, CallGoesOn DEF ReadChatAgain, bounds
<1>3. CASE CheckStale(t)
  <2>1. task[t].claim = {} /\ task[t].blob = {} /\ IsCall(task[t])
    BY <1>3 DEF CheckStale, Inv, Phases, Shapes
  <2>2. Becomes([task[t] EXCEPT !.pc = "chat", !.op = "rotate"], t)
    BY <2>1 DEF Becomes, IsCall
  <2> QED
    BY <1>3, <2>2, IdleBecomes, CallGoesOn DEF CheckStale, bounds
<1> QED
  BY <1>1, <1>2, <1>3

\* Handing out the owner's stored key.
LEMMA SharingBecomes ==
    ASSUME Inv, NEW t \in Task, task[t].pc = "roster",
           UserOf(t) \in User, NEW mine \in row[UserOf(t)], NEW who
    PROVE  Becomes(Sharing(t, mine, who), t)
<1>1. task[t].claim = {} /\ task[t].blob = {} /\ IsCall(task[t])
  BY DEF Inv, Phases, Shapes
<1>2. Counts(mine) /\ mine \in Blob
  BY DEF Inv, Shapes, Counts
<1>3. Becomes([Idle EXCEPT !.pc = "chat", !.op = "stale"], t)
  BY DEF Becomes, Idle, IsCall
<1>4. Becomes([task[t] EXCEPT !.pc = "put", !.blob = {mine}, !.todo = who], t)
  BY <1>1, <1>2 DEF Becomes, IsCall
<1> QED
  BY <1>3, <1>4, IdleBecomes DEF Sharing

LEMMA HandingOut ==
    ASSUME Inv, NEW t \in Task, UserOf(t) \in User, Scan(t) \/ Deliver(t)
    PROVE  Inv'
<1>1. CASE Scan(t)
  <2>1. CASE Does(t, Idle)
    BY <1>1, <2>1, IdleBecomes, CallGoesOn DEF Scan, bounds
  <2>2. CASE ~Does(t, Idle)
    <3>1. PICK mine \in row[UserOf(t)] : \E who : Does(t, Sharing(t, mine, who))
      BY <1>1, <2>2 DEF Scan
    <3>2. \A who : Becomes(Sharing(t, mine, who), t)
      BY <1>1, SharingBecomes DEF Scan
    <3> QED
      BY <1>1, <3>1, <3>2, CallGoesOn DEF Scan, bounds
  <2> QED
    BY <2>1, <2>2
<1>2. CASE Deliver(t)
  <2>1. CASE Does(t, Idle)
    BY <1>2, <2>1, IdleBecomes, CallGoesOn DEF Deliver, bounds
  <2>2. CASE ~Does(t, Idle)
    <3>1. PICK mine \in row[UserOf(t)] : \E who : Does(t, Sharing(t, mine, who))
      BY <1>2, <2>2 DEF Deliver
    <3>2. \A who : Becomes(Sharing(t, mine, who), t)
      BY <1>2, SharingBecomes DEF Deliver
    <3> QED
      BY <1>2, <3>1, <3>2, CallGoesOn DEF Deliver, bounds
  <2> QED
    BY <2>1, <2>2
<1> QED
  BY <1>1, <1>2

\* A rotation starts with a key nobody has, stamped above the epoch it claims from.
LEMMA Minted ==
    ASSUME Inv, NEW t \in Task, UserOf(t) \in User, Mint(t)
    PROVE  Inv'
<1> DEFINE k == FreshKey
           b0 == [epoch |-> task[t].epoch + 1, key |-> k, by |-> UserOf(t)]
<1>1. CASE Does(t, Idle)
  BY <1>1, IdleBecomes, CallGoesOn DEF Mint, bounds
<1>2. CASE ~Does(t, Idle)
  <2>1. Does(t, Rotation(t))
    BY <1>2 DEF Mint
  <2>2. IsCall(task[t]) /\ task[t].epoch \in Nat
    BY DEF Inv, Shapes, IsCall
  <2>3. k \in Key /\ k \notin UsedKeys
    BY DEF Mint, FreshKey
  <2>4. b0 \in Blob /\ b0.epoch = task[t].epoch + 1 /\ b0.key = k /\ b0.by = UserOf(t)
    BY <2>2, <2>3 DEF Blob
  <2> HIDE DEF k, b0
  <2>5. /\ task'[t].blob = {b0} /\ task'[t].claim = {task[t].epoch} /\ task'[t].pc = "put"
        /\ IsCall(task'[t])
    <3>1. Rotation(t) = [task[t] EXCEPT !.pc = "put", !.todo = members,
                           !.claim = {task[t].epoch}, !.blob = {b0}]
      BY DEF Rotation, b0, k
    <3>2. task'[t] = Rotation(t)
      BY <2>1 DEF Does, Inv, Shapes
    <3>3. /\ task'[t].blob = {b0} /\ task'[t].claim = {task[t].epoch} /\ task'[t].pc = "put"
          /\ task'[t] \in [pc : {"put"}, op : {task[t].op}, epoch : Nat, todo : {members},
                           blob : SUBSET Blob, claim : SUBSET Nat]
      <4>1. task'[t] \in [pc : {"put"}, op : {task[t].op}, epoch : Nat, todo : {members},
                          blob : {{b0}}, claim : {{task[t].epoch}}]
        <5>1. task[t] \in [pc : {task[t].pc}, op : {task[t].op}, epoch : Nat,
                           todo : {task[t].todo}, blob : SUBSET Blob, claim : SUBSET Nat]
          BY <2>2 DEF IsCall
        <5> QED
          BY <5>1, <3>1, <3>2
      <4> QED
        BY <2>2, <2>4, <4>1
    <3>4. /\ task'[t].op = task[t].op /\ task'[t].todo = members
      BY <3>3
    <3> QED
      BY <3>3, <3>4 DEF IsCall
  <2>6. \A s \in Task : s # t => task'[s] = task[s]
    BY <2>1 DEF Does, Inv, Shapes
  <2>7. /\ DOMAIN task' = Task /\ task' = [s \in Task |-> task'[s]]
        /\ UNCHANGED <<server, reqs, got, transfers>>
    BY <2>1 DEF Does, Mint, Inv, Shapes, bounds
  <2>8. Shapes'
    BY <2>5, <2>6, <2>7 DEF Inv, Shapes, server
  <2>9. Phases'
    BY <2>5, <2>6 DEF Inv, Phases
  <2>10. Claiming'
    BY <2>2, <2>4, <2>5, <2>6, <2>7 DEF Inv, Claiming
  <2>11. \A b \in Blob : Counts(b)' => Counts(b)
    BY <2>5, <2>6, <2>7 DEF Counts
  <2>12. NotAhead' /\ OneKey' /\ OwnersKey'
    BY <2>7, <2>11 DEF Inv, NotAhead, OneKey, OwnersKey, server
  <2>13. \A b \in Blob : Wrapped(b)' => b = b0 \/ Wrapped(b)
    BY <2>5, <2>6, <2>7 DEF Wrapped
  <2>14. \A b \in Blob : Wrapped(b) => b.key # k
    <3>1. \A u \in User : \A b \in got[u] : b.key \in UsedKeys
      BY DEF UsedKeys
    <3>2. \A s \in Task : \A b \in task[s].blob : b.key \in UsedKeys
      BY DEF UsedKeys
    <3>3. \A r \in reqs : r.blob.key \in UsedKeys
      BY DEF UsedKeys
    <3> QED
      BY <2>3, <3>1, <3>2, <3>3 DEF Wrapped
  <2>15. OneEpoch'
    BY <2>4, <2>13, <2>14 DEF Inv, OneEpoch
  <2>16. Outside' /\ Roll'
    BY <2>7 DEF Inv, Outside, Roll, Roster, server
  <2> QED
    BY <2>8, <2>9, <2>10, <2>12, <2>15, <2>16 DEF Inv
<1> QED
  BY <1>1, <1>2

\* An upload carries what its call holds.
LEMMA Uploaded ==
    ASSUME Inv, NEW t \in Task, Upload(t)
    PROVE  Inv'
<1>1. IsCall(task[t]) /\ task[t].blob # {}
  BY DEF Upload, Inv, Shapes, Phases
<1>2. PICK b0 \in Blob : task[t].blob = {b0} /\ Put(t).blob = b0
  BY <1>1 DEF IsCall, Put
<1>3. /\ IsReq(Put(t)) /\ Put(t).claim = task[t].claim /\ Put(t).admitted = FALSE
      /\ Put(t).task = t
  BY <1>1, <1>2 DEF IsReq, IsCall, Put
<1> DEFINE q == Put(t)
<1> HIDE DEF q
<1>4. /\ reqs' = reqs \union {q} /\ UNCHANGED <<server, got, transfers>>
      /\ DOMAIN task' = Task /\ task' = [s \in Task |-> task'[s]]
  BY DEF Upload, Inv, Shapes, q, bounds
<1>5. \A s \in Task : /\ task'[s].blob = task[s].blob /\ task'[s].claim = task[s].claim
                      /\ IsCall(task'[s])
                      /\ s # t => task'[s] = task[s]
  BY <1>1 DEF Upload, Inv, Shapes, IsCall
<1>6. task'[t].pc = "wait"
  BY <1>1 DEF Upload, Inv, Shapes, IsCall
<1>7. Shapes'
  BY <1>3, <1>4, <1>5 DEF Inv, Shapes, server, q
<1>8. Phases'
  BY <1>1, <1>5, <1>6 DEF Inv, Phases
<1>9. Claiming'
  BY <1>2, <1>3, <1>4, <1>5 DEF Inv, Claiming, q
<1>10. \A b \in Blob : (Counts(b)' => Counts(b)) /\ (Wrapped(b)' => Wrapped(b))
  BY <1>2, <1>3, <1>4, <1>5 DEF Counts, Wrapped, q
<1>11. NotAhead' /\ OneKey' /\ OneEpoch' /\ OwnersKey'
  BY <1>4, <1>10, Carried DEF Inv, Shapes, server
<1>12. Outside' /\ Roll'
  <2>1. UNCHANGED <<members, owner, epoch, row, got>>
    BY <1>4 DEF server
  <2> QED
    BY <2>1 DEF Inv, Outside, Roll, Roster
<1> QED
  BY <1>7, <1>8, <1>9, <1>11, <1>12 DEF Inv

(***************************************************************************)
(* The server.                                                             *)
(***************************************************************************)
\* A request that is refused or lost, and the call that may have waited for it.
LEMMA Dropped ==
    ASSUME Inv, NEW r \in reqs, Refuse(r) \/ Conflict(r) \/ Vanish(r)
    PROVE  Inv'
<1>1. CASE Refuse(r)
  <2> DEFINE f == [t \in Task |-> IF Waits(t, r) THEN AfterFailure(task[t]) ELSE task[t]]
  <2>1. ASSUME NEW t \in Task PROVE Becomes(f[t], t)
    <3>1. CASE Waits(t, r)
      BY <3>1, FailureBecomes DEF Waits
    <3>2. CASE ~Waits(t, r)
      BY <3>2, Stays
    <3> QED
      BY <3>1, <3>2
  <2>2. task' = [t \in Task |-> f[t]]
    BY <1>1 DEF Refuse, Answer
  <2> HIDE DEF f
  <2> QED
    BY <1>1, <2>1, <2>2, CallsGoOn DEF Refuse, bounds
<1>2. CASE Conflict(r)
  <2> DEFINE f == [t \in Task |-> IF Waits(t, r) THEN Idle ELSE task[t]]
  <2>1. \A t \in Task : Becomes(f[t], t)
    BY Stays, IdleBecomes
  <2>2. task' = [t \in Task |-> f[t]]
    BY <1>2 DEF Conflict, Answer, AfterConflict
  <2> HIDE DEF f
  <2> QED
    BY <1>2, <2>1, <2>2, CallsGoOn DEF Conflict, bounds
<1>3. CASE Vanish(r)
  <2>1. task' = [t \in Task |-> task[t]]
    BY <1>3 DEF Vanish, Inv, Shapes
  <2> QED
    BY <1>3, <2>1, Stays, CallsGoOn DEF Vanish, bounds
<1> QED
  BY <1>1, <1>2, <1>3

\* Winning the claim: the stamp is above all that counted before.
LEMMA Admitted ==
    ASSUME Inv, NEW r \in reqs, Admit(r)
    PROVE  Inv'
<1> DEFINE q == [r EXCEPT !.admitted = TRUE]
<1>1. IsReq(r) /\ epoch \in Nat
  BY DEF Inv, Shapes
<1>2. IsReq(q) /\ q.blob = r.blob /\ q.claim = r.claim /\ q.admitted = TRUE /\ q.task = r.task
  BY <1>1 DEF IsReq
<1> HIDE DEF q
<1>3. /\ reqs' = (reqs \ {r}) \union {q}
      /\ UNCHANGED <<members, owner, row, task, got, transfers>>
      /\ epoch' = IF r.claim = {} THEN epoch ELSE epoch + 1
  BY DEF Admit, q, bounds
<1>4. Shapes'
  BY <1>1, <1>2, <1>3 DEF Inv, Shapes
<1>5. Phases'
  BY <1>3 DEF Inv, Phases
<1>6. Claiming'
  BY <1>2, <1>3 DEF Inv, Claiming
<1>7. r.blob \in Blob /\ (r.claim = {} \/ (r.claim = {epoch} /\ r.blob.epoch = epoch + 1))
  <2>1. r.blob \in Blob
    BY <1>1 DEF IsReq
  <2>2. r.claim = {} \/ r.claim = {epoch}
    BY DEF Admit, Claims
  <2>3. \A e \in r.claim : r.blob.epoch = e + 1
    BY DEF Inv, Claiming
  <2> QED
    BY <2>1, <2>2, <2>3
<1>8. \A b \in Blob : Counts(b)' => b = r.blob \/ Counts(b)
  BY <1>2, <1>3 DEF Counts
<1>9. \A b \in Blob : Wrapped(b)' => Wrapped(b)
  BY <1>2, <1>3 DEF Wrapped
<1>10. CASE r.claim = {}
  <2>1. Counts(r.blob)
    BY <1>10 DEF Counts
  <2>2. NotAhead' /\ OneKey' /\ OneEpoch' /\ OwnersKey'
    BY <1>1, <1>3, <1>8, <1>9, <1>10, <2>1, Carried DEF Inv
  <2>3. Outside' /\ Roll'
    BY <1>3, <1>10 DEF Inv, Outside, Roll, Roster
  <2> QED
    BY <1>4, <1>5, <1>6, <2>2, <2>3 DEF Inv
<1>11. CASE r.claim # {}
  <2>1. epoch' = epoch + 1 /\ r.blob.epoch = epoch + 1
    BY <1>3, <1>7, <1>11
  <2>2. \A b \in Blob : Counts(b) => b.epoch \in Nat /\ b.epoch <= epoch
    BY DEF Inv, NotAhead, Blob
  <2>3. NotAhead'
    BY <1>1, <1>8, <2>1, <2>2 DEF NotAhead
  <2>4. OneKey'
    BY <1>1, <1>8, <2>1, <2>2 DEF Inv, OneKey
  <2>5. OneEpoch'
    BY <1>9 DEF Inv, OneEpoch
  <2>6. Outside'
    <3> SUFFICES ASSUME NEW u \in User \ Roster, NEW b \in got[u]
                 PROVE  b.epoch < epoch + 1
      BY <1>3, <2>1 DEF Outside, Roster
    <3>1. b \in Blob /\ Counts(b)
      BY DEF Inv, Shapes, Counts
    <3> QED
      BY <1>1, <2>2, <3>1
  <2>7. r.blob.by = owner
    BY <1>11 DEF Admit, Allowed, Inv, Claiming
  <2>8. OwnersKey'
    BY <1>1, <1>3, <1>8, <2>1, <2>2, <2>7 DEF OwnersKey
  <2>9. Roll'
    BY <1>1, <1>3, <2>1 DEF Inv, Roll, Roster
  <2> QED
    BY <1>4, <1>5, <1>6, <2>3, <2>4, <2>5, <2>6, <2>8, <2>9 DEF Inv
<1> QED
  BY <1>10, <1>11

\* Storing what was admitted: the call that waits goes on without a claim.
LEMMA Stored ==
    ASSUME Inv, NEW r \in reqs, Store(r)
    PROVE  Inv'
<1> DEFINE f == [t \in Task |-> IF Waits(t, r) THEN AfterStored(task[t]) ELSE task[t]]
<1>1. IsReq(r) /\ r.blob \in Blob /\ Counts(r.blob)
  BY DEF Store, Inv, Shapes, IsReq, Counts
<1>2. ASSUME NEW t \in Task PROVE Becomes(f[t], t)
  <2>1. CASE ~Waits(t, r)
    BY <2>1, Stays
  <2>2. CASE Waits(t, r)
    <3>1. IsCall(task[t]) /\ task[t].blob = {r.blob}
      BY <2>2 DEF Inv, Shapes, Waits
    <3>2. CASE f[t] = Idle
      BY <3>2, IdleBecomes
    <3>3. CASE f[t] # Idle
      <4>1. f[t] = [[task[t] EXCEPT !.claim = {}] EXCEPT !.pc = "put", !.todo = Tail(@)]
        BY <2>2, <3>1, <3>3 DEF AfterStored, GoesOn, IsCall
      <4> QED
        BY <1>1, <3>1, <4>1 DEF Becomes, IsCall
    <3> QED
      BY <3>2, <3>3
  <2> QED
    BY <2>1, <2>2
<1>3. task' = [t \in Task |-> f[t]]
  BY DEF Store, Answer
<1> HIDE DEF f
<1>4. /\ UNCHANGED <<members, owner, epoch, transfers>> /\ reqs' = reqs \ {r}
      /\ \/ UNCHANGED <<row, got>>
         \/ /\ r.to \in Roster /\ row' = [row EXCEPT ![r.to] = {r.blob}]
            /\ got' = [got EXCEPT ![r.to] = @ \union {r.blob}]
  BY DEF Store, HasRow, bounds
<1>5. \A t \in Task : task'[t] = f[t] /\ Becomes(task'[t], t)
  BY <1>2, <1>3
<1>6. Shapes'
  <2>1. /\ row' \in [User -> SUBSET Blob] /\ got' \in [User -> SUBSET Blob]
        /\ \A u \in User : row'[u] \subseteq got'[u] /\ \A b, c \in row'[u] : b = c
    BY <1>1, <1>4 DEF Inv, Shapes
  <2> QED
    BY <1>3, <1>4, <1>5, <2>1 DEF Inv, Shapes, Becomes
<1>7. Phases'
  BY <1>5 DEF Phases, Becomes
<1>8. Claiming'
  BY <1>4, <1>5 DEF Inv, Claiming, Becomes
<1>9. \A u \in User : \A b \in got'[u] : b \in got[u] \/ b = r.blob
  BY <1>4 DEF Inv, Shapes
<1>10. ASSUME NEW b \in Blob, Counts(b)' PROVE Counts(b)
  <2>1. CASE \E u \in User : b \in got'[u]
    BY <1>1, <1>9, <2>1 DEF Counts
  <2>2. CASE \E s \in reqs' : b = s.blob /\ (s.claim = {} \/ s.admitted)
    BY <1>4, <2>2 DEF Counts
  <2>3. CASE \E t \in Task : b \in task'[t].blob /\ task'[t].claim = {}
    BY <1>5, <2>3 DEF Becomes, Counts
  <2> QED
    BY <1>10, <2>1, <2>2, <2>3 DEF Counts
<1>11. ASSUME NEW b \in Blob, Wrapped(b)' PROVE Wrapped(b)
  <2>1. Counts(b) => Wrapped(b)
    BY DEF Counts, Wrapped
  <2>2. CASE \E u \in User : b \in got'[u]
    BY <1>1, <1>9, <2>1, <2>2 DEF Wrapped
  <2>3. CASE \E s \in reqs' : b = s.blob
    BY <1>4, <2>3 DEF Wrapped
  <2>4. CASE \E t \in Task : b \in task'[t].blob
    BY <1>5, <2>1, <2>4 DEF Becomes, Wrapped
  <2> QED
    BY <1>11, <2>2, <2>3, <2>4 DEF Wrapped
<1>12. NotAhead' /\ OneKey' /\ OneEpoch' /\ OwnersKey'
  BY <1>4, <1>10, <1>11, Carried DEF Inv, Shapes
<1>14. Roll'
  <2>1. Roster' = Roster /\ Roster \subseteq User
    BY <1>4 DEF Roster, Inv, Roll
  <2>2. \A u \in User : row'[u] = row[u] \/ (u \in Roster /\ row'[u] # {})
    BY <1>4 DEF Inv, Shapes
  <2> QED
    BY <1>4, <2>1, <2>2 DEF Inv, Roll
<1>13. Outside'
  <2> SUFFICES ASSUME NEW u \in User \ Roster, NEW b \in got'[u]
               PROVE  b.epoch < epoch
    BY <1>4 DEF Outside, Roster
  <2>1. b \in got[u]
    BY <1>4 DEF Inv, Shapes
  <2> QED
    BY <2>1 DEF Inv, Outside
<1> QED
  BY <1>6, <1>7, <1>8, <1>12, <1>13, <1>14 DEF Inv

\* The epoch moves and nothing is wrapped: who is outside now has only what is old.
LEMMA Bumped ==
    ASSUME Inv, epoch' = epoch + 1, UNCHANGED <<task, reqs, got, transfers>>, owner' \in User,
           row' \in [User -> SUBSET Blob],
           \A u \in User : row'[u] = row[u] \/ row'[u] = {},
           members' \in Seq(User), \A i, j \in DOMAIN members' : members'[i] = members'[j] => i = j,
           \A u \in User \ Roster' : row'[u] = {}
    PROVE  Inv'
<1>1. Shapes'
  BY DEF Inv, Shapes
<1>2. Phases' /\ Claiming'
  BY DEF Inv, Phases, Claiming
<1>3. \A b \in Blob : (Counts(b)' => Counts(b)) /\ (Wrapped(b)' => Wrapped(b))
  BY DEF Counts, Wrapped
<1>4. NotAhead' /\ OneKey' /\ OneEpoch' /\ OwnersKey'
  BY <1>3, Carried DEF Inv, Shapes
<1>6. Roll'
  BY DEF Roll, Inv, Shapes
<1>5. Outside'
  <2> SUFFICES ASSUME NEW u \in User, NEW b \in got[u] PROVE b.epoch < epoch + 1
    BY DEF Outside
  <2>1. b \in Blob /\ Counts(b) /\ epoch \in Nat
    BY DEF Inv, Shapes, Counts
  <2> QED
    BY <2>1 DEF Inv, NotAhead, Blob
<1> QED
  BY <1>1, <1>2, <1>4, <1>5, <1>6 DEF Inv

\* Leaving the roster: the one entry of the member goes, the others keep their order.
LEMMA WithoutOne ==
    ASSUME Inv, NEW u \in Roster
    PROVE  /\ Without(u) \in Seq(User)
           /\ {Without(u)[n] : n \in DOMAIN Without(u)} = Roster \ {u}
           /\ \A m, n \in DOMAIN Without(u) : Without(u)[m] = Without(u)[n] => m = n
<1> DEFINE i == CHOOSE n \in DOMAIN members : members[n] = u
           w == Without(u)
<1>1. /\ members \in Seq(User) /\ i \in 1..Len(members) /\ members[i] = u
      /\ \A m, n \in 1..Len(members) : members[m] = members[n] => m = n
  BY DEF Roster, Inv, Roll
<1>2. w = SubSeq(members, 1, i - 1) \o SubSeq(members, i + 1, Len(members))
  BY DEF Without, RemoveAt
<1> HIDE DEF w, i
<1> DEFINE l == Len(members)
           p == SubSeq(members, 1, i - 1)
           q == SubSeq(members, i + 1, l)
<1>a. l \in Nat /\ i \in Nat /\ i >= 1 /\ i <= l
  BY <1>1
<1>b. /\ p \in Seq(User) /\ Len(p) = i - 1 /\ \A n \in 1..(i - 1) : p[n] = members[n]
  <2>1. \A n \in 1..(i - 1) : members[n] \in User
    BY <1>1, <1>a
  <2> QED
    BY <1>1, <1>a, <2>1, SubSeqProperties
<1>c. /\ q \in Seq(User) /\ Len(q) = l - i /\ \A n \in 1..(l - i) : q[n] = members[n + i]
  <2>1. \A n \in (i + 1)..l : members[n] \in User
    BY <1>1, <1>a
  <2> QED
    BY <1>1, <1>a, <2>1, SubSeqProperties
<1>d. w = p \o q
  BY <1>2
<1> HIDE DEF p, q, l
<1>3. /\ w \in Seq(User) /\ Len(w) = l - 1
      /\ \A n \in 1..(l - 1) : w[n] = IF n < i THEN members[n] ELSE members[n + 1]
  <2>1. w \in Seq(User) /\ Len(w) = l - 1
    <3>1. w \in Seq(User) /\ Len(w) = Len(p) + Len(q)
      BY <1>b, <1>c, <1>d, ConcatProperties
    <3>2. (i - 1) + (l - i) = l - 1
      BY <1>a
    <3> QED
      BY <1>b, <1>c, <3>1, <3>2
  <2>2. ASSUME NEW n \in 1..(l - 1), n < i PROVE w[n] = members[n]
    BY <1>a, <1>b, <1>c, <1>d, <2>2, ConcatProperties
  <2>3. ASSUME NEW n \in 1..(l - 1), ~(n < i) PROVE w[n] = members[n + 1]
    <3>1. n - (i - 1) \in 1..(l - i) /\ n > i - 1
      BY <1>a, <2>3
    <3>2. w[n] = q[n - (i - 1)]
      BY <1>a, <1>b, <1>c, <1>d, <3>1, ConcatProperties
    <3>3. (n - (i - 1)) + i = n + 1
      BY <1>a
    <3> QED
      BY <1>c, <3>1, <3>2, <3>3
  <2> QED
    BY <2>1, <2>2, <2>3
<1>4. \A n \in 1..Len(w) : \E m \in 1..Len(members) : m # i /\ w[n] = members[m]
  <2> SUFFICES ASSUME NEW n \in 1..Len(w) PROVE \E m \in 1..Len(members) : m # i /\ w[n] = members[m]
    OBVIOUS
  <2>1. CASE n < i
    <3>1. n \in 1..Len(members) /\ n # i /\ w[n] = members[n]
      BY <1>a, <1>3, <2>1 DEF l
    <3> QED
      BY <3>1
  <2>2. CASE ~(n < i)
    <3>1. n + 1 \in 1..Len(members) /\ n + 1 # i /\ w[n] = members[n + 1]
      BY <1>a, <1>3, <2>2 DEF l
    <3> QED
      BY <3>1
  <2> QED
    BY <2>1, <2>2
<1>5. \A m \in 1..Len(members) : m # i => \E n \in 1..Len(w) : w[n] = members[m]
  <2> SUFFICES ASSUME NEW m \in 1..Len(members), m # i
               PROVE  \E n \in 1..Len(w) : w[n] = members[m]
    OBVIOUS
  <2>1. CASE m < i
    <3>1. m \in 1..Len(w) /\ w[m] = members[m]
      BY <1>a, <1>3, <2>1 DEF l
    <3> QED
      BY <3>1
  <2>2. CASE m > i
    <3>1. m - 1 \in 1..Len(w) /\ ~(m - 1 < i) /\ (m - 1) + 1 = m
      BY <1>a, <1>3, <2>2 DEF l
    <3>2. w[m - 1] = members[m]
      BY <1>3, <3>1
    <3> QED
      BY <3>1, <3>2
  <2> QED
    BY <1>1, <1>a, <2>1, <2>2
<1>6. DOMAIN w = 1..Len(w) /\ DOMAIN members = 1..Len(members)
  BY <1>1, <1>3
<1>7. {w[n] : n \in DOMAIN w} = Roster \ {u}
  <2>1. ASSUME NEW n \in 1..Len(w) PROVE w[n] \in Roster \ {u}
    <3>1. PICK m \in 1..Len(members) : m # i /\ w[n] = members[m]
      BY <1>4
    <3> QED
      BY <1>1, <1>6, <3>1 DEF Roster
  <2>2. ASSUME NEW v \in Roster \ {u} PROVE \E n \in 1..Len(w) : w[n] = v
    <3>1. PICK m \in 1..Len(members) : members[m] = v
      BY <1>6, <2>2 DEF Roster
    <3>2. m # i
      BY <1>1, <2>2, <3>1
    <3> QED
      BY <1>5, <3>1, <3>2
  <2> QED
    BY <1>6, <2>1, <2>2
<1>8. ASSUME NEW m \in DOMAIN w, NEW n \in DOMAIN w, w[m] = w[n] PROVE m = n
  <2>1. /\ m \in 1..(l - 1) /\ n \in 1..(l - 1)
        /\ \A x, y \in 1..l : members[x] = members[y] => x = y
    BY <1>1, <1>3, <1>6, <1>8 DEF l
  <2>2. CASE m < i /\ n < i
    BY <1>3, <1>8, <1>a, <2>1, <2>2
  <2>3. CASE ~(m < i) /\ ~(n < i)
    <3>1. members[m + 1] = members[n + 1] /\ m + 1 \in 1..l /\ n + 1 \in 1..l
      BY <1>3, <1>8, <1>a, <2>1, <2>3
    <3>2. m + 1 = n + 1
      BY <2>1, <3>1
    <3> QED
      BY <2>1, <3>2
  <2>4. CASE m < i /\ ~(n < i)
    <3>1. members[m] = members[n + 1] /\ m \in 1..l /\ n + 1 \in 1..l
      BY <1>3, <1>8, <1>a, <2>1, <2>4
    <3>2. m = n + 1
      BY <2>1, <3>1
    <3> QED
      BY <1>a, <2>1, <2>4, <3>2
  <2>5. CASE ~(m < i) /\ n < i
    <3>1. members[m + 1] = members[n] /\ m + 1 \in 1..l /\ n \in 1..l
      BY <1>3, <1>8, <1>a, <2>1, <2>5
    <3>2. m + 1 = n
      BY <2>1, <3>1
    <3> QED
      BY <1>a, <2>1, <2>5, <3>2
  <2> QED
    BY <2>2, <2>3, <2>4, <2>5
<1> QED
  BY <1>3, <1>7, <1>8 DEF w

LEMMA Departing ==
    ASSUME Inv, NEW u \in Roster, Departs(u), owner' \in User
    PROVE  Inv'
<1>1. /\ members' = Without(u) /\ row' = [row EXCEPT ![u] = {}] /\ epoch' = epoch + 1
      /\ UNCHANGED <<task, reqs, got, transfers>>
  BY DEF Departs, NextEpoch
<1>2. /\ members' \in Seq(User) /\ Roster' = Roster \ {u}
      /\ \A i, j \in DOMAIN members' : members'[i] = members'[j] => i = j
  <2>1. Roster' = {members'[n] : n \in DOMAIN members'}
    BY DEF Roster
  <2> QED
    BY <1>1, <2>1, WithoutOne
<1>3. u \in User
  BY DEF Roster, Inv, Roll
<1>4. /\ row' \in [User -> SUBSET Blob] /\ \A v \in User : row'[v] = row[v] \/ row'[v] = {}
      /\ \A v \in User \ Roster' : row'[v] = {}
  BY <1>1, <1>2, <1>3 DEF Inv, Shapes, Roll
<1> QED
  BY <1>1, <1>2, <1>4, Bumped

LEMMA RosterChanges ==
    ASSUME Inv, NEW u \in User,
           Join(u) \/ Leave(u) \/ Kick(u) \/ OwnerLeaves(u) \/ Transfer(u)
    PROVE  Inv'
<1>1. CASE Join(u)
  <2>1. /\ members' = Append(members, u) /\ u \notin Roster /\ epoch' = epoch + 1
        /\ UNCHANGED <<task, reqs, got, transfers, owner, row>>
    BY <1>1 DEF Join, NextEpoch
  <2>2. members \in Seq(User) /\ \A n \in DOMAIN members : members[n] # u
    BY <2>1 DEF Inv, Roll, Roster
  <2>3. /\ members' \in Seq(User) /\ DOMAIN members' = DOMAIN members \union {Len(members) + 1}
        /\ members'[Len(members) + 1] = u /\ \A n \in DOMAIN members : members'[n] = members[n]
    BY <2>1, <2>2
  <2>4. \A m, n \in DOMAIN members' : members'[m] = members'[n] => m = n
    BY <2>2, <2>3 DEF Inv, Roll
  <2>5. Roster \subseteq Roster'
    BY <2>3 DEF Roster
  <2> QED
    BY <2>1, <2>3, <2>4, <2>5, Bumped DEF Inv, Shapes, Roll
<1>2. CASE Leave(u) \/ Kick(u)
  BY <1>2, Departing DEF Leave, Kick, Inv, Shapes
<1>3. CASE OwnerLeaves(u)
  BY <1>3, Departing DEF OwnerLeaves
<1>4. CASE Transfer(u)
  <2>1. /\ UNCHANGED <<members, epoch, row, task, reqs, got>> /\ owner' = u
        /\ transfers' = transfers + 1 /\ u \in Roster
    BY <1>4 DEF Transfer
  <2>2. Shapes' /\ Phases' /\ Claiming' /\ Outside'
    BY <2>1 DEF Inv, Shapes, Phases, Claiming, Outside, Roster
  <2>3. NotAhead' /\ OneKey' /\ OneEpoch' /\ OwnersKey'
    BY <2>1, Carried DEF Inv, Shapes, Counts, Wrapped
  <2>4. Roll'
    BY <2>1 DEF Inv, Roll, Roster
  <2> QED
    BY <2>2, <2>3, <2>4 DEF Inv
<1> QED
  BY <1>1, <1>2, <1>3, <1>4

(***************************************************************************)
(* Faults.                                                                 *)
(***************************************************************************)
LEMMA Faulted ==
    ASSUME Inv, NEW t \in Task, GiveUp(t) \/ Close(t)
    PROVE  Inv'
<1>1. CASE GiveUp(t)
  BY <1>1, FailureBecomes, CallGoesOn DEF GiveUp, bounds
<1>2. CASE Close(t)
  <2> DEFINE f == [s \in Task |-> IF SameClient(s, t) THEN Idle ELSE task[s]]
  <2>1. \A s \in Task : Becomes(f[s], s)
    BY Stays, IdleBecomes
  <2>2. task' = [s \in Task |-> f[s]]
    BY <1>2 DEF Close
  <2> HIDE DEF f
  <2> QED
    BY <1>2, <2>1, <2>2, CallsGoOn DEF Close, bounds
<1> QED
  BY <1>1, <1>2

(***************************************************************************)
(* The invariant.                                                          *)
(***************************************************************************)
LEMMA Initially ==
    ASSUME Init
    PROVE  Inv
<1> DEFINE b0 == [epoch |-> 0, key |-> CreationKey, by |-> Creator]
<1>1. b0 \in Blob /\ Creator \in User
  BY GroupAssumption DEF Blob
<1>2. \A u \in User : row[u] = {b0} \/ row[u] = {}
  BY DEF Init
<1>3. \A t \in Task : task[t] = Idle \/ task[t] = Creating
  BY DEF Init
<1>4. IsCall(Idle) /\ IsCall(Creating)
  BY DEF IsCall, Idle, Creating
<1>5. \A t \in Task : /\ task[t].pc \in {"idle", "chat"}
                      /\ task[t].blob = {} /\ task[t].claim = {}
  <2>1. /\ Idle.pc = "idle" /\ Idle.blob = {} /\ Idle.claim = {}
        /\ Creating.pc = "chat" /\ Creating.blob = {} /\ Creating.claim = {}
    BY DEF Idle, Creating
  <2> QED
    BY <1>3, <2>1
<1>6. epoch = 0 /\ owner = Creator /\ reqs = {} /\ got = row
  BY DEF Init
<1>7. Shapes
  <2>1. row \in [User -> SUBSET Blob]
    BY <1>1 DEF Init
  <2>2. DOMAIN task = Task /\ task = [t \in Task |-> task[t]] /\ transfers = 0
    BY DEF Init
  <2> QED
    BY <1>1, <1>2, <1>3, <1>4, <1>6, <2>1, <2>2 DEF Shapes
<1>8. Phases /\ Claiming
  BY <1>5, <1>6 DEF Phases, Claiming
<1>9. \A b \in Blob : Counts(b) \/ Wrapped(b) => b = b0
  BY <1>2, <1>5, <1>6 DEF Counts, Wrapped
<1>10. b0.epoch = 0 /\ b0.by = Creator
  OBVIOUS
<1> HIDE DEF b0
<1>11. NotAhead /\ OneKey /\ OneEpoch /\ OwnersKey
  BY <1>6, <1>9, <1>10 DEF NotAhead, OneKey, OneEpoch, OwnersKey
<1>13. Roll
  <2>1. members = <<Creator, First>> /\ Creator # First /\ First \in User
    BY GroupAssumption DEF Init
  <2>2. Roster = {Creator, First}
    BY <2>1 DEF Roster
  <2>3. row[Creator] # {} /\ \A u \in User \ {Creator, First} : row[u] = {}
    BY <1>1 DEF Init
  <2> QED
    <3>1. members \in Seq(User) /\ \A i, j \in DOMAIN members : members[i] = members[j] => i = j
      BY <1>1, <2>1
    <3>2. owner \in Roster /\ \A u \in Roster : row[u] # {}
      <4>1. row[First] # {}
        BY <2>1 DEF Init
      <4> QED
        BY <1>6, <2>2, <2>3, <4>1
    <3> QED
      BY <2>2, <2>3, <3>1, <3>2 DEF Roll
<1>12. Outside
  BY DEF Init, Outside, Roster
<1> QED
  BY <1>7, <1>8, <1>11, <1>12, <1>13 DEF Inv

LEMMA Steps ==
    ASSUME Inv, [Next]_vars
    PROVE  Inv'
<1>1. CASE \E t \in Task : Client(t)
  <2>1. PICK t \in Task : Client(t)
    BY <1>1
  <2>2. UserOf(t) \in User
    BY GroupAssumption DEF UserOf
  <2> QED
    BY <2>1, <2>2, Reading, Minted, HandingOut, Uploaded DEF Client
<1>2. CASE \E r \in reqs : Handle(r)
  BY <1>2, Dropped, Admitted, Stored DEF Handle
<1>3. CASE Membership
  BY <1>3, RosterChanges DEF Membership
<1>4. CASE Fault
  BY <1>4, Faulted, Dropped DEF Fault
<1>5. CASE UNCHANGED vars
  <2>1. UNCHANGED <<server, reqs, got, transfers>> /\ task' = [t \in Task |-> task[t]]
    BY <1>5 DEF vars, bounds, Inv, Shapes
  <2> QED
    BY <2>1, Stays, CallsGoOn
<1> QED
  BY <1>1, <1>2, <1>3, <1>4, <1>5 DEF Next

\* The roster names nobody twice, only a member has a stored key, and never two
\* (chat_members and the update of a row that still exists, chats.ts).
THEOREM TypeCorrect == Spec => []TypeOK
<1>1. Init => Inv
  BY Initially
<1>2. Inv /\ [Next]_vars => Inv'
  BY Steps
<1>3. Inv => TypeOK
  <2> SUFFICES ASSUME Inv PROVE TypeOK
    OBVIOUS
  <2>1. ASSUME NEW u \in User PROVE Cardinality(row[u]) <= 1
    <3>1. CASE row[u] = {}
      BY <3>1, FS_EmptySet
    <3>2. ASSUME NEW b \in row[u] PROVE Cardinality(row[u]) <= 1
      <4>1. row[u] = {b}
        BY DEF Inv, Shapes
      <4>2. Cardinality({b}) = 1
        BY FS_Singleton
      <4> QED
        BY <4>1, <4>2
    <3> QED
      BY <3>1, <3>2
  <2> QED
    BY <2>1 DEF Inv, Shapes, Roll, TypeOK
<1> QED
  BY <1>1, <1>2, <1>3, PTL DEF Spec

\* Unless the chat is handed over, a member who cannot read is one the owner's next
\* check or scan finds, whatever uploads, refusals, conflicts and lost answers came
\* before: a stored key of the current epoch is the owner's, so whoever lacks it is
\* behind (ShouldRotate and the scan compare epochs only, group-key-rotation.ts).
THEOREM SplitsAreSeen ==
    ASSUME MaxTransfers = 0
    PROVE  Spec => []NoSilentSplit
<1> DEFINE I == Inv /\ transfers = 0
<1>1. Init => I
  BY Initially DEF Init
<1>2. I /\ [Next]_vars => I'
  <2>1. ASSUME transfers = 0, [Next]_vars PROVE transfers' = 0
    <3>1. ~(transfers < MaxTransfers)
      BY <2>1
    <3> QED
      BY <2>1, <3>1 DEF Next, Client, Handle, Membership, Fault, ReadChat, ReadChatAgain, CheckStale, Mint,
                Scan, Deliver, Upload, Refuse, Conflict, Admit, Store, Join, Leave, Kick,
                OwnerLeaves, Departs, Transfer, GiveUp, Close, Vanish, vars, bounds
  <2> QED
    BY <2>1, Steps
<1>3. I => NoSilentSplit
  <2> SUFFICES ASSUME Inv, transfers = 0, ~ShouldRotate(row[owner], epoch), ~Settled
               PROVE  \E mine \in row[owner], u \in Roster \ {owner} :
                         mine.by = owner /\ Behind(u, mine)
    BY DEF NoSilentSplit
  <2>1. /\ owner \in User /\ epoch \in Nat /\ row[owner] \subseteq Blob
        /\ \A u \in User : \A b \in row[u] : Counts(b) /\ b \in Blob
    BY DEF Inv, Shapes, Counts
  <2>2. \A u \in User : \A b \in row[u] : b.epoch \in Nat /\ b.epoch <= epoch
    BY <2>1 DEF Inv, NotAhead, Blob
  <2>3. PICK mine \in row[owner] : ~(mine.epoch < epoch)
    BY <2>1 DEF ShouldRotate, Inv, Roll
  <2>4. \A u \in User : \A b \in row[u] : b.epoch = epoch => b.by = owner
    BY <2>1 DEF Inv, OwnersKey
  <2>5. mine.epoch = epoch /\ mine.by = owner
    BY <2>1, <2>2, <2>3, <2>4
  <2>6. PICK u \in Roster : \A b \in row[u] : ~(b.epoch = epoch /\ b.by = owner)
    BY DEF Settled
  <2>7. u \in User /\ u # owner
    BY <2>5, <2>6 DEF Roster, Inv, Roll
  <2>8. Behind(u, mine)
    BY <2>1, <2>2, <2>4, <2>5, <2>6, <2>7 DEF Behind
  <2> QED
    BY <2>5, <2>7, <2>8
<1> HIDE DEF I
<1> QED
  BY <1>1, <1>2, <1>3, PTL DEF Spec

\* All wrapped keys ever stored under one epoch hold one sector key: PUT wrapped-key
\* moves the epoch for one rotation only.
THEOREM KeysOfAnEpoch == Spec => []OneKeyPerEpoch
<1>1. Init => Inv
  BY Initially
<1>2. Inv /\ [Next]_vars => Inv'
  BY Steps
<1>3. Inv => OneKeyPerEpoch
  <2> SUFFICES ASSUME Inv, NEW u \in User, NEW v \in User, NEW b \in got[u], NEW c \in got[v],
                      b.epoch = c.epoch
               PROVE  b.key = c.key
    BY DEF OneKeyPerEpoch
  <2>1. b \in Blob /\ c \in Blob /\ Counts(b) /\ Counts(c)
    BY DEF Inv, Shapes, Counts
  <2> QED
    BY <2>1 DEF Inv, OneKey
<1> QED
  BY <1>1, <1>2, <1>3, PTL DEF Spec

\* Whoever is not in the chat never holds the key the owner takes for current: every
\* departure moves the epoch, and a late upload finds no row.
THEOREM DepartedAreSealed == Spec => []DepartedSealed
<1>1. Init => Inv
  BY Initially
<1>2. Inv /\ [Next]_vars => Inv'
  BY Steps
<1>3. Inv => DepartedSealed
  <2> SUFFICES ASSUME Inv, OwnerCurrent, NEW u \in User \ Roster, NEW b \in got[u],
                      NEW c \in row[owner]
               PROVE  b.key # c.key
    BY DEF DepartedSealed
  <2>1. /\ b \in Blob /\ c \in Blob /\ Wrapped(b) /\ Wrapped(c)
        /\ \A d \in row[owner] : c = d
    BY DEF Inv, Shapes, Wrapped
  <2>2. c.epoch = epoch /\ b.epoch < epoch /\ epoch \in Nat
    BY <2>1 DEF OwnerCurrent, Inv, Shapes, Outside
  <2> QED
    BY <2>1, <2>2 DEF Inv, OneEpoch, Blob
<1> QED
  BY <1>1, <1>2, <1>3, PTL DEF Spec
=============================================================================
