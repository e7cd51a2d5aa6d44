------------------------ MODULE MessageDeliveryProofs ------------------------
(***************************************************************************)
(* What MessageDelivery guarantees for any number of messages, edits,      *)
(* deletions, reloads, lost connections and failed writes: an acknowledged *)
(* message is in the cache, was given up or could not be written, a        *)
(* deleted one does not come back, and a text in the view does not become  *)
(* a placeholder.  The first two rest on where a deletion is known: the    *)
(* server has no slot of the message any more when the device hears of it, *)
(* and whatever a reader fetched before, deletedIds keeps out of the       *)
(* cache.  While the chat stays open and no message is edited, no text the *)
(* ratchet opened is dropped.                                              *)
(***************************************************************************)
EXTENDS MessageDelivery, SequenceTheorems, FiniteSetTheorems, TLAPS

Event == [type : {"chat_message", "message_edited", "message_deleted"}, m : Nat]

IsJob(j) == j = [at |-> j.at, rows |-> j.rows, got |-> j.got, seed |-> j.seed]

Shapes ==
    /\ sent \in Nat
    /\ events \in Seq(Event)
    /\ DOMAIN job = Kind
    /\ \A k \in Kind : /\ IsJob(job[k])
                      /\ DOMAIN job[k].got \subseteq DOMAIN job[k].rows
                      /\ DOMAIN job[k].rows \subseteq 1..sent

\* Messages the server has deleted, as far as the device has heard or will hear.
Doomed == told \union {events[i].m : i \in {n \in DOMAIN events : events[n].type = "message_deleted"}}

\* A deleted message has no slot, and gets none again.
NoSlot ==
    /\ DOMAIN slot \subseteq 1..sent /\ Doomed \subseteq 1..sent
    /\ Doomed \intersect DOMAIN slot = {}

\* What the device was told to delete and has forgotten by a reload is in no
\* reader's hands.
Filtered ==
    /\ deletedIds \subseteq told
    /\ \A k \in Kind : DOMAIN job[k].rows \intersect told \subseteq deletedIds

\* What the cache has, or was given up, or could not be written.
Safe == DOMAIN cache \union gaveUp \union unsaved

\* What a reader is about to acknowledge is in the cache, was given up, or has
\* been deleted.
AckReady ==
    \A k \in Kind : At(k, "ack") =>
        \A m \in DOMAIN job[k].rows \intersect DOMAIN slot : m \in Safe

\* What was acknowledged is in the cache, in whatever version.
AckedIsCached == \A m \in DOMAIN slot : slot[m].delivered => m \in Safe

Inv == Shapes /\ NoSlot /\ Filtered /\ AckReady /\ AckedIsCached /\ DeletedStaysGone

\* A reader that takes up a phase with some of the rows it had, or with none.
LEMMA JobMoves ==
  ASSUME Shapes, Filtered, AckReady, NEW k \in Kind, NEW j, IsJob(j),
         job' = [job EXCEPT ![k] = j],
         DOMAIN j.got \subseteq DOMAIN j.rows, DOMAIN j.rows \subseteq DOMAIN job[k].rows,
         j.at # "ack" \/ \A m \in DOMAIN j.rows \intersect DOMAIN slot : m \in Safe',
         Safe \subseteq Safe',
         UNCHANGED <<slot, sent, events, told, deletedIds>>
  PROVE  Shapes' /\ Filtered' /\ AckReady'
<1>1. job'[k] = j /\ DOMAIN job' = Kind /\ \A l \in Kind \ {k} : job'[l] = job[l]
  BY DEF Shapes
<1>2. Shapes'
  BY <1>1 DEF Shapes
<1>3. Filtered'
  BY <1>1 DEF Filtered
<1>4. ASSUME NEW l \in Kind, job'[l].at = "ack"
      PROVE  \A m \in DOMAIN job'[l].rows \intersect DOMAIN slot : m \in Safe'
  BY <1>1, <1>4 DEF AckReady, At, Safe
<1>5. AckReady'
  BY <1>4 DEF AckReady, At, Safe
<1> QED
  BY <1>2, <1>3, <1>5

LEMMA NewReader ==
  ASSUME NEW p, NEW r, NEW s
  PROVE  LET j == Reader(p, r, s)
         IN  IsJob(j) /\ DOMAIN j.got = {} /\ j.rows = r /\ j.at = p
BY DEF IsJob, Reader, Empty

\* What a reader writes: every good text it read that was not deleted meanwhile and
\* whose write does not fail.
LEMMA CachedTexts ==
  ASSUME NEW texts, NEW lost
  PROVE  /\ DOMAIN Cached(texts, lost) = DOMAIN cache \union (Writable(texts) \ lost)
         /\ \A m \in Writable(texts) \ lost : Cached(texts, lost)[m] = texts[m]
         /\ \A m \in DOMAIN cache \ (Writable(texts) \ lost) : Cached(texts, lost)[m] = cache[m]
<1>1. Writable(texts) \subseteq DOMAIN texts
  BY DEF Writable, Readable
<1> QED
  BY <1>1 DEF Cached, Update, Restrict

Saves(texts) == SaveEach(texts) \/ SaveAll(texts)

LEMMA SavedTexts ==
  ASSUME NEW texts, Saves(texts)
  PROVE  \E lost \in SUBSET Writable(texts) :
            cache' = Cached(texts, lost) /\ unsaved' = (unsaved \ Writable(texts)) \union lost
BY DEF Saves, SaveEach, SaveAll, Save

\* The reader k writes `texts` and goes on to acknowledge `ids`.
LEMMA KeepStep ==
  ASSUME Inv, NEW k \in Kind, NEW texts, NEW ids, DOMAIN texts \subseteq DOMAIN job[k].rows,
         Saves(texts), gaveUp \subseteq gaveUp',
         ids \subseteq DOMAIN job[k].rows, ids \subseteq Readable(texts) \union gaveUp',
         job' = Acking(k, ids) \/ job' = [job EXCEPT ![k] = Idle],
         UNCHANGED <<slot, sent, events, told, deletedIds>>
  PROVE  Inv'
<1>0. PICK lost \in SUBSET Writable(texts) :
         cache' = Cached(texts, lost) /\ unsaved' = (unsaved \ Writable(texts)) \union lost
  BY SavedTexts
<1>1. /\ DOMAIN cache' = DOMAIN cache \union (Writable(texts) \ lost)
      /\ Safe \subseteq Safe' /\ Writable(texts) \subseteq Safe'
  <2>1. DOMAIN cache' = DOMAIN cache \union (Writable(texts) \ lost)
    BY <1>0, CachedTexts
  <2> QED
    BY <1>0, <2>1 DEF Safe
<1>2. told \intersect DOMAIN slot = {}
  BY DEF Inv, NoSlot, Doomed
<1>3. Shapes' /\ Filtered' /\ AckReady'
  <2>1. CASE job' = [job EXCEPT ![k] = Idle]
    <3>1. IsJob(Idle) /\ DOMAIN Idle.got = {} /\ DOMAIN Idle.rows = {} /\ Idle.at = "idle"
      BY NewReader DEF Idle, Empty
    <3> QED
      BY <1>1, <2>1, <3>1, JobMoves DEF Inv
  <2>2. CASE job' = Acking(k, ids)
    <3> DEFINE j == Reader("ack", Restrict(job[k].rows, ids), Empty)
    <3>1. IsJob(j) /\ DOMAIN j.rows = ids /\ DOMAIN j.got = {} /\ j.at = "ack"
      BY NewReader DEF Restrict
    <3>2. \A m \in ids \intersect DOMAIN slot : m \in Safe'
      <4>1. gaveUp' \subseteq Safe' /\ Readable(texts) \subseteq Safe' \union deletedIds
        BY <1>1 DEF Safe, Writable
      <4> QED
        BY <1>1, <1>2, <4>1 DEF Inv, Filtered
    <3>3. job' = [job EXCEPT ![k] = j]
      BY <2>2 DEF Acking
    <3> HIDE DEF j
    <3> QED
      BY <1>1, <3>1, <3>2, <3>3, JobMoves DEF Inv
  <2> QED
    BY <2>1, <2>2
<1>4. NoSlot'
  BY DEF Inv, NoSlot, Doomed
<1>5. AckedIsCached'
  BY <1>1 DEF Inv, AckedIsCached, Safe
<1>6. DeletedStaysGone'
  <2>1. Readable(texts) \intersect told \subseteq deletedIds
    BY DEF Inv, Filtered, Readable
  <2> QED
    BY <1>1, <2>1 DEF Inv, DeletedStaysGone, Writable
<1> QED
  BY <1>3, <1>4, <1>5, <1>6 DEF Inv

\* A reader moves, and nothing else.
LEMMA ReaderStep ==
  ASSUME Inv, NEW k \in Kind, NEW j, IsJob(j), job' = [job EXCEPT ![k] = j],
         DOMAIN j.got \subseteq DOMAIN j.rows, DOMAIN j.rows \subseteq 1..sent \ told, j.at # "ack",
         UNCHANGED <<slot, sent, events, cache, gaveUp, unsaved, told, deletedIds>>
  PROVE  Inv'
<1>1. job'[k] = j /\ DOMAIN job' = Kind /\ \A l \in Kind \ {k} : job'[l] = job[l]
  BY DEF Inv, Shapes
<1>2. Shapes' /\ Filtered'
  BY <1>1 DEF Inv, Shapes, Filtered
<1>3. AckReady'
  BY <1>1 DEF Inv, AckReady, At, Safe
<1>4. NoSlot' /\ AckedIsCached' /\ DeletedStaysGone'
  BY DEF Inv, NoSlot, Doomed, AckedIsCached, DeletedStaysGone, Safe
<1> QED
  BY <1>2, <1>3, <1>4 DEF Inv

\* An event is added, and the rest of the device left alone.
LEMMA ServerStep ==
  ASSUME Inv, NEW e \in Event, events' = Append(events, e),
         UNCHANGED <<cache, deletedIds, job, told, gaveUp, unsaved>>, sent' \in Nat, sent <= sent',
         DOMAIN slot' \subseteq 1..sent', Doomed \intersect DOMAIN slot' = {},
         e.type = "message_deleted" => e.m \in 1..sent' /\ e.m \notin DOMAIN slot',
         \A m \in DOMAIN slot' : slot'[m].delivered => m \in DOMAIN slot /\ slot[m].delivered,
         \A k \in Kind : At(k, "ack") =>
            \A m \in DOMAIN job[k].rows \intersect DOMAIN slot' : m \in Safe
  PROVE  Inv'
<1>1. /\ events' \in Seq(Event) /\ DOMAIN events' = DOMAIN events \union {Len(events) + 1}
      /\ \A i \in DOMAIN events : events'[i] = events[i]
      /\ events'[Len(events) + 1] = e
  BY DEF Inv, Shapes
<1>2. Shapes' /\ Filtered' /\ DeletedStaysGone'
  BY <1>1 DEF Inv, Shapes, Filtered, DeletedStaysGone
<1>3. Doomed' \subseteq Doomed \union (IF e.type = "message_deleted" THEN {e.m} ELSE {})
  BY <1>1 DEF Doomed
<1>4. Doomed \subseteq 1..sent'
  BY DEF Inv, NoSlot, Shapes
<1>5. NoSlot'
  BY <1>3, <1>4 DEF NoSlot
<1>6. AckReady' /\ AckedIsCached'
  BY DEF Inv, AckReady, At, AckedIsCached, Safe
<1> QED
  BY <1>2, <1>5, <1>6 DEF Inv

LEMMA InvStep ==
  ASSUME Inv, [Next]_vars
  PROVE  Inv'
<1>a. /\ sent \in Nat /\ events \in Seq(Event) /\ DOMAIN job = Kind
      /\ DOMAIN slot \subseteq 1..sent /\ told \intersect DOMAIN slot = {} /\ told \subseteq Doomed
      /\ Doomed \subseteq 1..sent /\ Doomed \intersect DOMAIN slot = {}
  BY DEF Inv, Shapes, NoSlot, Doomed
<1>1. ASSUME UNCHANGED <<slot, sent, events, cache, gaveUp, unsaved, told, deletedIds, job>>
      PROVE  Inv'
  BY <1>1 DEF Inv, Shapes, NoSlot, Doomed, Filtered, AckReady, At, AckedIsCached, DeletedStaysGone, Safe
<1>2. CASE UNCHANGED vars
  BY <1>1, <1>2 DEF vars, server, client, control, flags, marks
<1>3. CASE Send
  <2> DEFINE e == [type |-> "chat_message", m |-> sent']
  <2>1. /\ sent' = sent + 1
        /\ slot' = Update(slot, [m \in {sent'} |-> [ver |-> 1, delivered |-> FALSE]])
        /\ events' = Append(events, e)
        /\ UNCHANGED <<cache, deletedIds, job, told, gaveUp, unsaved>>
    BY <1>3 DEF Send, client, control, flags, marks
  <2>2. /\ DOMAIN slot' = DOMAIN slot \union {sent'}
        /\ \A m \in DOMAIN slot : m # sent' => slot'[m] = slot[m]
        /\ ~slot'[sent'].delivered
    BY <2>1 DEF Update
  <2>3. sent' \notin DOMAIN slot /\ sent' \notin Doomed /\ sent' \in Nat /\ e \in Event
    BY <1>a, <2>1 DEF Event
  <2>4. /\ DOMAIN slot' \subseteq 1..sent' /\ Doomed \intersect DOMAIN slot' = {}
        /\ e.type # "message_deleted" /\ sent <= sent'
    BY <1>a, <2>1, <2>2, <2>3
  <2>5. \A k \in Kind : At(k, "ack") =>
           \A m \in DOMAIN job[k].rows \intersect DOMAIN slot' : m \in Safe
    BY <1>a, <2>1, <2>2 DEF Inv, AckReady, Shapes, Safe
  <2> QED
    BY <2>1, <2>2, <2>3, <2>4, <2>5, ServerStep
<1>4. ASSUME NEW m \in 1..Msgs, Edit(m)
      PROVE  Inv'
  <2> DEFINE e == [type |-> "message_edited", m |-> m]
  <2>1. /\ m \in DOMAIN slot /\ events' = Append(events, e)
        /\ slot' = [slot EXCEPT ![m] = [ver |-> @.ver + 1, delivered |-> FALSE]]
        /\ UNCHANGED <<sent, cache, deletedIds, job, told, gaveUp, unsaved>>
    BY <1>4 DEF Edit, client, control, flags, marks
  <2>2. /\ DOMAIN slot' = DOMAIN slot /\ ~slot'[m].delivered
        /\ \A x \in DOMAIN slot : x # m => slot'[x] = slot[x]
    BY <2>1
  <2>3. e \in Event /\ e.type # "message_deleted"
    BY <1>a, <2>1 DEF Event
  <2>4. \A k \in Kind : At(k, "ack") =>
           \A x \in DOMAIN job[k].rows \intersect DOMAIN slot' : x \in Safe
    BY <2>2 DEF Inv, AckReady, Safe
  <2> HIDE DEF e
  <2> QED
    BY <1>a, <2>1, <2>2, <2>3, <2>4, ServerStep
<1>5. ASSUME NEW m \in 1..Msgs, Delete(m)
      PROVE  Inv'
  <2> DEFINE e == [type |-> "message_deleted", m |-> m]
  <2>1. /\ m \in DOMAIN slot /\ events' = Append(events, e)
        /\ slot' = Restrict(slot, DOMAIN slot \ {m})
        /\ UNCHANGED <<sent, cache, deletedIds, job, told, gaveUp, unsaved>>
    BY <1>5 DEF Delete, client, control, flags, marks
  <2>2. /\ DOMAIN slot' = DOMAIN slot \ {m}
        /\ \A x \in DOMAIN slot' : slot'[x] = slot[x]
    BY <2>1 DEF Restrict
  <2>3. e \in Event /\ e.m = m
    BY <1>a, <2>1 DEF Event
  <2>4. \A k \in Kind : At(k, "ack") =>
           \A x \in DOMAIN job[k].rows \intersect DOMAIN slot' : x \in Safe
    BY <2>2 DEF Inv, AckReady, Safe
  <2>5. /\ DOMAIN slot' \subseteq 1..sent' /\ Doomed \intersect DOMAIN slot' = {} /\ sent <= sent'
        /\ sent' \in Nat /\ e.m \in 1..sent' /\ e.m \notin DOMAIN slot'
        /\ \A x \in DOMAIN slot' : slot'[x].delivered => x \in DOMAIN slot /\ slot[x].delivered
    <3>1. m \in 1..sent /\ m \notin DOMAIN slot' /\ sent' = sent /\ DOMAIN slot' \subseteq DOMAIN slot
      BY <1>a, <2>1, <2>2
    <3>2. \A x \in DOMAIN slot' : slot'[x].delivered => x \in DOMAIN slot /\ slot[x].delivered
      BY <2>2
    <3> HIDE DEF e
    <3> QED
      BY <1>a, <2>3, <3>1, <3>2
  <2> HIDE DEF e
  <2> QED
    BY <2>1, <2>3, <2>4, <2>5, ServerStep
<1>6. CASE Open
  <2>1. /\ job' = [job EXCEPT !["history"] = Start(cache), !["sync"] = Start(Empty)]
        /\ UNCHANGED <<slot, sent, events, cache, gaveUp, unsaved, told, deletedIds>>
    BY <1>6 DEF Open, server, flags, marks
  <2>2. \A s : LET j == Start(s)
               IN  IsJob(j) /\ DOMAIN j.got = {} /\ DOMAIN j.rows = {} /\ j.at = "fetch"
    BY NewReader DEF Start, Empty
  <2>3. /\ job'["sync"] = Start(Empty) /\ job'["history"] = Start(cache) /\ DOMAIN job' = Kind
        /\ \A l \in Kind \ {"sync", "history"} : job'[l] = job[l]
    BY <1>a, <2>1 DEF Kind
  <2>4. Shapes' /\ Filtered'
    BY <2>1, <2>2, <2>3 DEF Inv, Shapes, Filtered
  <2>5. AckReady'
    BY <2>1, <2>2, <2>3 DEF Inv, AckReady, At, Safe
  <2> QED
    BY <2>1, <2>4, <2>5 DEF Inv, NoSlot, Doomed, AckedIsCached, DeletedStaysGone, Safe
<1>7. CASE Switch
  BY <1>1, <1>7 DEF Switch, server, flags, marks
<1>8. CASE Reload
  <2>1. /\ events' = <<>> /\ job' = [k \in Kind |-> Idle] /\ deletedIds' = {}
        /\ UNCHANGED <<slot, sent, cache, gaveUp, unsaved, told>>
    BY <1>8 DEF Reload, server, flags, marks
  <2>2. IsJob(Idle) /\ DOMAIN Idle.got = {} /\ DOMAIN Idle.rows = {} /\ Idle.at = "idle"
    BY NewReader DEF Idle, Empty
  <2>3. Shapes' /\ Filtered'
    BY <1>a, <2>1, <2>2 DEF Inv, Shapes, Filtered
  <2>4. AckReady'
    BY <2>1, <2>2 DEF AckReady, At, Safe
  <2>5. NoSlot'
    BY <1>a, <2>1 DEF NoSlot, Doomed
  <2> QED
    BY <2>1, <2>3, <2>4, <2>5 DEF Inv, AckedIsCached, DeletedStaysGone, Safe
<1>9. CASE Reconnect
  <2>1. /\ events' = <<>> /\ job' = [job EXCEPT !["sync"] = Start(Empty)]
        /\ UNCHANGED <<slot, sent, cache, gaveUp, unsaved, told, deletedIds>>
    BY <1>9 DEF Reconnect, server, client, flags, marks
  <2>2. LET j == Start(Empty)
        IN  IsJob(j) /\ DOMAIN j.got = {} /\ DOMAIN j.rows = {} /\ j.at = "fetch"
    BY NewReader DEF Start, Empty
  <2>3. /\ job'["sync"] = Start(Empty) /\ DOMAIN job' = Kind
        /\ \A l \in Kind \ {"sync"} : job'[l] = job[l]
    BY <1>a, <2>1 DEF Kind
  <2>4. Shapes' /\ Filtered'
    BY <2>1, <2>2, <2>3 DEF Inv, Shapes, Filtered
  <2>5. AckReady'
    BY <2>1, <2>2, <2>3 DEF Inv, AckReady, At, Safe
  <2>6. NoSlot'
    BY <1>a, <2>1 DEF NoSlot, Doomed
  <2> QED
    BY <2>1, <2>4, <2>5, <2>6 DEF Inv, AckedIsCached, DeletedStaysGone, Safe
<1>10. CASE HandleEvent
  <2> DEFINE e == Head(events)
  <2>1. /\ events # <<>> /\ events' = Tail(events)
        /\ OnMessage(e) \/ OnEdited(e) \/ OnDeleted(e)
        /\ UNCHANGED <<slot, sent, gaveUp, unsaved>>
    BY <1>10 DEF HandleEvent, server, flags, marks
  <2>2. /\ events' \in Seq(Event) /\ e \in Event /\ e = events[1] /\ 1 \in DOMAIN events
        /\ \A i \in DOMAIN events' : i + 1 \in DOMAIN events /\ events'[i] = events[i + 1]
    BY <1>a, <2>1
  <2>3. {events'[i].m : i \in {n \in DOMAIN events' : events'[n].type = "message_deleted"}} \subseteq Doomed
    BY <2>2 DEF Doomed
  <2>4. ASSUME UNCHANGED <<cache, deletedIds, told>>,
               \/ UNCHANGED job
               \/ \E k \in Kind : \E s : job' = [job EXCEPT ![k] = Start(s)]
        PROVE  Inv'
    <3>1. Doomed' \subseteq Doomed
      BY <2>3, <2>4 DEF Doomed
    <3>2. NoSlot'
      BY <1>a, <2>1, <3>1 DEF NoSlot
    <3>3. Shapes' /\ Filtered' /\ AckReady'
      <4>1. CASE UNCHANGED job
        BY <2>1, <2>2, <2>4, <4>1 DEF Inv, Shapes, Filtered, AckReady, At, Safe
      <4>2. ASSUME NEW k \in Kind, NEW s, job' = [job EXCEPT ![k] = Start(s)]
            PROVE  Shapes' /\ Filtered' /\ AckReady'
        <5>1. LET j == Start(s)
              IN  IsJob(j) /\ DOMAIN j.got = {} /\ DOMAIN j.rows = {} /\ j.at = "fetch"
          BY NewReader DEF Start, Empty
        <5>2. /\ job'[k] = Start(s) /\ DOMAIN job' = Kind
              /\ \A l \in Kind \ {k} : job'[l] = job[l]
          BY <1>a, <4>2
        <5> QED
          BY <2>1, <2>2, <2>4, <5>1, <5>2 DEF Inv, Shapes, Filtered, AckReady, At, Safe
      <4> QED
        BY <2>4, <4>1, <4>2
    <3> QED
      BY <2>1, <2>4, <3>2, <3>3 DEF Inv, AckedIsCached, DeletedStaysGone, Safe
  <2>5. CASE OnMessage(e)
    BY <2>4, <2>5 DEF OnMessage, Kind
  <2>6. CASE OnEdited(e)
    BY <2>4, <2>6 DEF OnEdited, Kind
  <2>7. CASE OnDeleted(e)
    <3>1. /\ e.type = "message_deleted" /\ UNCHANGED job
          /\ cache' = Restrict(cache, DOMAIN cache \ {e.m})
          /\ deletedIds' = deletedIds \union {e.m} /\ told' = told \union {e.m}
      BY <2>7 DEF OnDeleted
    <3>2. e.m \in Doomed
      BY <2>2, <3>1 DEF Doomed
    <3>3. Doomed' \subseteq Doomed
      BY <1>a, <2>3, <3>1, <3>2 DEF Doomed
    <3>4. NoSlot'
      BY <1>a, <2>1, <3>3 DEF NoSlot
    <3>5. DOMAIN cache' = DOMAIN cache \ {e.m}
      BY <3>1 DEF Restrict
    <3>6. Shapes' /\ Filtered'
      BY <2>1, <2>2, <3>1 DEF Inv, Shapes, Filtered
    <3>7. e.m \notin DOMAIN slot
      BY <1>a, <3>2
    <3>8. AckReady'
      BY <2>1, <3>1, <3>5, <3>7 DEF Inv, AckReady, At, Safe
    <3> QED
      BY <2>1, <3>1, <3>4, <3>5, <3>6, <3>7, <3>8 DEF Inv, AckedIsCached, DeletedStaysGone, Safe
  <2> QED
    BY <2>1, <2>5, <2>6, <2>7
<1>11. ASSUME NEW k \in Kind, Fetch(k)
       PROVE  Inv'
  <2>1. /\ UNCHANGED <<slot, sent, events, cache, gaveUp, unsaved, told, deletedIds>>
        /\ \/ job' = [job EXCEPT ![k] = Idle]
           \/ job' = [job EXCEPT ![k] = Reader("decrypt", Versions(Wanted(k)), job[k].seed)]
    BY <1>11 DEF Fetch, server, client, flags, marks
  <2>2. CASE job' = [job EXCEPT ![k] = Idle]
    <3>1. IsJob(Idle) /\ DOMAIN Idle.got = {} /\ DOMAIN Idle.rows = {} /\ Idle.at = "idle"
      BY NewReader DEF Idle, Empty
    <3> QED
      BY <2>1, <2>2, <3>1, ReaderStep
  <2>3. CASE job' = [job EXCEPT ![k] = Reader("decrypt", Versions(Wanted(k)), job[k].seed)]
    <3> DEFINE j == Reader("decrypt", Versions(Wanted(k)), job[k].seed)
    <3>1. Wanted(k) \subseteq DOMAIN slot
      BY DEF Wanted, Pending
    <3>2. IsJob(j) /\ DOMAIN j.got = {} /\ DOMAIN j.rows = Wanted(k) /\ j.at = "decrypt"
      BY NewReader DEF Versions
    <3> HIDE DEF j
    <3> QED
      BY <1>a, <2>1, <2>3, <3>1, <3>2, ReaderStep DEF j
  <2> QED
    BY <2>1, <2>2, <2>3
<1>12. ASSUME NEW m, NEW v, Decrypt(m, v)
       PROVE  Inv'
  <2>1. PICK text :
           job' = [k \in Kind |-> IF k \in Waiting(m, v)
                     THEN [job[k] EXCEPT !.got = Update(@, [x \in {m} |-> text])]
                     ELSE job[k]]
    <3>1. PICK fault \in {n \in {0, 1} : bounds.faults + n <= MaxFaults} :
            job' = [k \in Kind |-> IF k \in Waiting(m, v)
                      THEN [job[k] EXCEPT !.got =
                              Update(@, [x \in {m} |-> IF <<m, v>> \in used \/ fault = 1 THEN 0 ELSE v])]
                      ELSE job[k]]
      BY <1>12 DEF Decrypt
    <3> QED
      BY <3>1
  <2>2. UNCHANGED <<slot, sent, events, cache, gaveUp, unsaved, told, deletedIds>>
    BY <1>12 DEF Decrypt, server, client, flags, marks
  <2>3. ASSUME NEW k \in Kind
        PROVE  /\ IsJob(job'[k]) /\ job'[k].rows = job[k].rows /\ job'[k].at = job[k].at
               /\ DOMAIN job'[k].got \subseteq DOMAIN job[k].rows
    <3>1. CASE k \in Waiting(m, v)
      <4> DEFINE g == Update(job[k].got, [x \in {m} |-> text])
      <4>1. job[k] = [at |-> job[k].at, rows |-> job[k].rows, got |-> job[k].got, seed |-> job[k].seed]
        BY DEF Inv, Shapes, IsJob
      <4>2. job'[k] = [job[k] EXCEPT !.got = g]
        BY <2>1, <3>1
      <4>3. DOMAIN g = DOMAIN job[k].got \union {m} /\ m \in DOMAIN job[k].rows
        BY <3>1 DEF Update, Waiting
      <4> HIDE DEF g
      <4>4. job'[k] = [at |-> job[k].at, rows |-> job[k].rows, got |-> g, seed |-> job[k].seed]
        BY <4>1, <4>2
      <4> QED
        BY <4>3, <4>4 DEF Inv, Shapes, IsJob
    <3>2. CASE k \notin Waiting(m, v)
      BY <2>1, <3>2 DEF Inv, Shapes
    <3> QED
      BY <3>1, <3>2
  <2>4. Shapes'
    BY <2>1, <2>2, <2>3 DEF Inv, Shapes
  <2>5. Filtered'
    BY <2>2, <2>3 DEF Inv, Filtered
  <2>6. AckReady'
    BY <2>2, <2>3 DEF Inv, AckReady, At, Safe
  <2> QED
    BY <2>2, <2>4, <2>5, <2>6 DEF Inv, NoSlot, Doomed, AckedIsCached, DeletedStaysGone, Safe
<1>13. CASE KeepSync
  <2>1. DOMAIN job["sync"].got \subseteq DOMAIN job["sync"].rows
    BY DEF Inv, Shapes, Kind
  <2> QED
    BY <1>13, <2>1, KeepStep DEF KeepSync, Saves, Acked, Readable, Kind, server, flags, marks
<1>14. CASE KeepLive
  <2> DEFINE got == job["live"].got
             count == [m \in DOMAIN got \ Readable(got) |->
                         IF m \in DOMAIN fails THEN fails[m] + 1 ELSE 1]
             lost == Hopeless(count)
  <2>1. DOMAIN got \subseteq DOMAIN job["live"].rows
    BY DEF Inv, Shapes, Kind
  <2>2. lost \subseteq DOMAIN got /\ Readable(got) \subseteq DOMAIN got
    BY DEF Hopeless, Readable
  <2>3. /\ Saves(got) /\ gaveUp' = gaveUp \union lost
        /\ job' = Acking("live", Readable(got) \union lost)
        /\ UNCHANGED <<slot, sent, events, told, deletedIds>>
    BY <1>14 DEF KeepLive, Saves, server, flags, marks
  <2> HIDE DEF lost, got
  <2> QED
    BY <2>1, <2>2, <2>3, KeepStep DEF Kind, got
<1>15. CASE KeepEdit
  <2> DEFINE got == job["edit"].got
  <2>1. DOMAIN got \subseteq DOMAIN job["edit"].rows /\ Readable(got) \subseteq DOMAIN got
    BY DEF Inv, Shapes, Kind, Readable
  <2>2. /\ Saves(got)
        /\ job' = [job EXCEPT !["edit"] = Idle] \/ job' = Acking("edit", Readable(got))
        /\ UNCHANGED <<slot, sent, events, told, deletedIds, gaveUp>>
    BY <1>15 DEF KeepEdit, Saves, server, flags, marks
  <2> HIDE DEF got
  <2> QED
    BY <2>1, <2>2, KeepStep DEF Kind, got
<1>16. CASE KeepHistory
  <2> DEFINE got == job["history"].got
             seed == job["history"].seed
             out == [m \in DOMAIN got |-> IF got[m] = 0 /\ m \in DOMAIN seed THEN seed[m] ELSE got[m]]
  <2>1. /\ DOMAIN got \subseteq DOMAIN job["history"].rows /\ DOMAIN out = DOMAIN got
        /\ Readable(out) \subseteq DOMAIN out
    BY DEF Inv, Shapes, Kind, Readable
  <2>2. /\ Saves(out) /\ job' = Acking("history", Readable(out))
        /\ UNCHANGED <<slot, sent, events, told, deletedIds, gaveUp>>
    BY <1>16 DEF KeepHistory, Saves, Acked, server, flags, marks
  <2> HIDE DEF out, got
  <2> QED
    BY <2>1, <2>2, KeepStep DEF Kind
<1>17. ASSUME NEW k \in Kind, job' = [job EXCEPT ![k] = Idle],
              UNCHANGED <<slot, sent, events, cache, gaveUp, unsaved, told, deletedIds>>
       PROVE  Inv'
  <2>1. IsJob(Idle) /\ DOMAIN Idle.got = {} /\ DOMAIN Idle.rows = {} /\ Idle.at = "idle"
    BY NewReader DEF Idle, Empty
  <2> QED
    BY <1>17, <2>1, ReaderStep
<1>18. CASE BreakLive \/ CancelHistory
  BY <1>17, <1>18 DEF BreakLive, CancelHistory, Finish, Kind, server, client, flags, marks
<1>19. ASSUME NEW k \in Kind, job' = AfterAck(k),
              UNCHANGED <<slot, sent, events, cache, gaveUp, unsaved, told, deletedIds>>
       PROVE  Inv'
  <2> DEFINE j == IF k = "live" /\ again THEN Start(Empty) ELSE Idle
  <2>1. IsJob(j) /\ DOMAIN j.got = {} /\ DOMAIN j.rows = {} /\ j.at # "ack"
    BY NewReader DEF Idle, Start, Empty
  <2>2. job' = [job EXCEPT ![k] = j]
    BY <1>19 DEF AfterAck
  <2> HIDE DEF j
  <2> QED
    BY <1>19, <2>1, <2>2, ReaderStep
<1>20. ASSUME NEW k \in Kind, Acknowledge(k)
       PROVE  Inv'
  <2> DEFINE j == IF k = "live" /\ again THEN Start(Empty) ELSE Idle
  <2>1. IsJob(j) /\ DOMAIN j.got = {} /\ DOMAIN j.rows = {} /\ j.at # "ack"
    BY NewReader DEF Idle, Start, Empty
  <2>2. job' = [job EXCEPT ![k] = j]
    BY <1>20 DEF Acknowledge, AfterAck
  <2> HIDE DEF j
  <2>3. /\ job[k].at = "ack"
        /\ slot' = [m \in DOMAIN slot |->
                      IF m \in DOMAIN job[k].rows THEN [slot[m] EXCEPT !.delivered = TRUE] ELSE slot[m]]
        /\ UNCHANGED <<sent, events, cache, gaveUp, unsaved, told, deletedIds>>
    BY <1>20 DEF Acknowledge, At, client, flags, marks
  <2>4. /\ DOMAIN slot' = DOMAIN slot
        /\ \A m \in DOMAIN slot : m \notin DOMAIN job[k].rows => slot'[m] = slot[m]
    BY <2>3
  <2>5. AckedIsCached'
    BY <2>3, <2>4 DEF Inv, AckReady, At, AckedIsCached, Safe
  <2>6. job'[k] = j /\ DOMAIN job' = Kind /\ \A l \in Kind \ {k} : job'[l] = job[l]
    BY <1>a, <2>2
  <2>7. Shapes' /\ Filtered'
    BY <2>1, <2>3, <2>6 DEF Inv, Shapes, Filtered
  <2>8. AckReady'
    BY <2>1, <2>3, <2>4, <2>6 DEF Inv, AckReady, At, Safe
  <2> QED
    BY <2>3, <2>4, <2>5, <2>7, <2>8 DEF Inv, NoSlot, Doomed, DeletedStaysGone
<1>21. ASSUME NEW k \in Kind, AckLost(k)
       PROVE  Inv'
  BY <1>19, <1>21 DEF AckLost, server, client, flags, marks
<1>22. CASE ForeignMessage \/ ForeignPass
  BY <1>1, <1>22 DEF ForeignMessage, ForeignPass, server, client, marks
<1> QED
  BY <1>22, <1>2, <1>3, <1>4, <1>5, <1>6, <1>7, <1>8, <1>9, <1>10, <1>11, <1>12, <1>13, <1>14,
     <1>15, <1>16, <1>18, <1>20, <1>21 DEF Next, Read, Keep

LEMMA InvHolds == Spec => []Inv
<1>1. Init => Inv
  <2> SUFFICES ASSUME Init PROVE Inv
    OBVIOUS
  <2>1. IsJob(Idle) /\ DOMAIN Idle.got = {} /\ DOMAIN Idle.rows = {} /\ Idle.at = "idle"
    BY NewReader DEF Idle, Empty
  <2>2. /\ sent = 0 /\ events = <<>> /\ told = {} /\ deletedIds = {} /\ DOMAIN slot = {}
        /\ job = [k \in Kind |-> Idle]
    BY DEF Init
  <2>3. Shapes /\ Filtered
    BY <2>1, <2>2 DEF Shapes, Filtered
  <2>4. AckReady /\ NoSlot
    BY <2>1, <2>2 DEF AckReady, At, NoSlot, Doomed, Safe
  <2> QED
    BY <2>2, <2>3, <2>4 DEF Inv, AckedIsCached, DeletedStaysGone, Safe
<1>2. Inv /\ [Next]_vars => Inv'
  BY InvStep
<1> QED
  BY <1>1, <1>2, PTL DEF Spec

\* A message the device was told to delete is not in the cache ever again,
\* across any number of reloads: deletedIds is forgotten by a reload, but so are
\* the readers that had fetched the message.
THEOREM DeletedAreGone == Spec => []DeletedStaysGone
<1>1. Inv => DeletedStaysGone
  BY DEF Inv
<1> QED
  BY <1>1, InvHolds, PTL

(***************************************************************************)
(* Types and values.                                                       *)
(***************************************************************************)
Bounds == [edits : 0..MaxEdits, deletes : Nat, switches : Nat, reloads : Nat, drops : Nat,
           foreign : Nat, faults : Nat]

GoodJob(j) ==
    /\ j.at \in {"idle", "fetch", "decrypt", "ack"}
    /\ \A m \in DOMAIN j.rows : j.rows[m] \in Text
    /\ \A m \in DOMAIN j.got : j.got[m] \in Text \union {0}
    /\ \A m \in DOMAIN j.seed : j.seed[m] \in Text \union {0}

Versioned == \A m \in DOMAIN slot : slot[m] \in [ver : 1..(bounds.edits + 1), delivered : BOOLEAN]

Values ==
    /\ sent \in 0..Msgs /\ bounds \in Bounds
    /\ Versioned
    /\ used \subseteq (1..sent) \X Text
    /\ IsTexts(cache, Text) /\ IsTexts(view, Text \union {0})
    /\ IsTexts(fails, 1..(DECRYPT_RETRY_CAP - 1))
    /\ open \in BOOLEAN /\ again \in BOOLEAN
    /\ \A k \in Kind : GoodJob(job[k])

LEMMA UpdatedTexts ==
  ASSUME NEW f, NEW g, NEW V, IsTexts(f, V), IsTexts(g, V)
  PROVE  IsTexts(Update(f, g), V)
BY DEF IsTexts, Update

LEMMA RestrictedTexts ==
  ASSUME NEW f, NEW V, IsTexts(f, V), NEW S, S \subseteq DOMAIN f
  PROVE  IsTexts(Restrict(f, S), V)
BY DEF IsTexts, Restrict

\* A reader's texts, when they are shown.
LEMMA ShownTexts ==
  ASSUME NEW texts, IsTexts(texts, Text \union {0}), IsTexts(view, Text \union {0})
  PROVE  /\ IsTexts(Appended(texts), Text \union {0})
         /\ IsTexts(Merged(texts), Text \union {0})
BY DEF Appended, Merged, IsTexts

\* A reader's texts, when they are written: the failures are of finitely many rows.
LEMMA WrittenTexts ==
  ASSUME Values, sent \in Nat, NEW texts, IsTexts(texts, Text \union {0}), Saves(texts)
  PROVE  IsTexts(cache', Text) /\ bounds' \in Bounds /\ bounds'.edits = bounds.edits
<1>1. \A m \in Writable(texts) : m \in 1..sent /\ texts[m] \in Text
  <2>1. \A m \in Writable(texts) : m \in DOMAIN texts /\ texts[m] # 0
    <3>1. ~(0 > 0)
      OBVIOUS
    <3> QED
      BY <3>1 DEF Readable, Writable
  <2> QED
    BY <2>1 DEF IsTexts
<1>2. IsTexts(cache', Text)
  <2>1. PICK lost \in SUBSET Writable(texts) : cache' = Cached(texts, lost)
    BY SavedTexts
  <2> DEFINE g == Restrict(texts, Writable(texts) \ lost)
  <2>2. IsTexts(g, Text)
    BY <1>1 DEF IsTexts, Restrict
  <2> HIDE DEF g
  <2>3. IsTexts(Update(cache, g), Text)
    BY <2>2, UpdatedTexts DEF Values
  <2> QED
    BY <2>1, <2>3 DEF Cached, g
<1>3. ASSUME NEW lost \in SUBSET Writable(texts) PROVE Cardinality(lost) \in Nat
  <2>1. lost \subseteq 1..sent
    BY <1>1
  <2> QED
    <3>1. IsFiniteSet(1..sent)
      BY FS_Interval
    <3> QED
      BY <2>1, <3>1, FS_Subset, FS_CardinalityType
<1>4. \E n \in Nat : bounds' = [bounds EXCEPT !.faults = @ + n]
  BY <1>3 DEF Saves, SaveEach, SaveAll, Save
<1> QED
  BY <1>2, <1>4 DEF Values, Bounds

\* What a reader has read.
LEMMA GotTexts ==
  ASSUME Inv, Values, NEW k \in Kind
  PROVE  IsTexts(job[k].got, Text \union {0}) /\ IsTexts(job[k].rows, Text)
BY DEF Inv, Shapes, Values, GoodJob, IsTexts

LEMMA GoodReader ==
  ASSUME NEW p \in {"idle", "fetch", "decrypt", "ack"}, NEW r, NEW s,
         \A m \in DOMAIN r : r[m] \in Text, \A m \in DOMAIN s : s[m] \in Text \union {0}
  PROVE  GoodJob(Reader(p, r, s))
BY DEF GoodJob, Reader, Empty

LEMMA GoodStarts ==
  /\ GoodJob(Idle) /\ GoodJob(Start(Empty))
  /\ IsTexts(cache, Text) => GoodJob(Start(cache))
  /\ \A m : GoodJob(Start([x \in {m} |-> 0]))
<1>1. \A m \in DOMAIN Empty : Empty[m] \in Text
  BY DEF Empty
<1>2. GoodJob(Idle) /\ GoodJob(Start(Empty))
  BY <1>1, GoodReader DEF Idle, Start
<1>3. IsTexts(cache, Text) => GoodJob(Start(cache))
  BY <1>1, GoodReader DEF Start, IsTexts
<1>4. ASSUME NEW m PROVE GoodJob(Start([x \in {m} |-> 0]))
  <2> DEFINE s == [x \in {m} |-> 0]
  <2>1. \A x \in DOMAIN s : s[x] \in Text \union {0}
    OBVIOUS
  <2> HIDE DEF s
  <2>2. GoodJob(Start(s))
    BY <1>1, <2>1, GoodReader DEF Start
  <2> QED
    BY <2>2 DEF s
<1> QED
  BY <1>2, <1>3, <1>4

\* A reader moves; slots, counters and what the ratchet has opened stay.
LEMMA MoveValues ==
  ASSUME Inv, Values, NEW k \in Kind, NEW j, GoodJob(j), job' = [job EXCEPT ![k] = j],
         UNCHANGED <<sent, bounds, slot, used>>,
         IsTexts(cache', Text), IsTexts(view', Text \union {0}),
         IsTexts(fails', 1..(DECRYPT_RETRY_CAP - 1)),
         open' \in BOOLEAN, again' \in BOOLEAN
  PROVE  Values'
<1>1. \A l \in Kind : GoodJob(job'[l])
  BY DEF Inv, Shapes, Values
<1>2. Versioned'
  BY DEF Values, Versioned
<1>3. IsTexts(cache, Text)' /\ IsTexts(view, Text \union {0})'
      /\ IsTexts(fails, 1..(DECRYPT_RETRY_CAP - 1))'
  BY DEF IsTexts, Text
<1>4. (\A l \in Kind : GoodJob(job[l]))'
  BY <1>1 DEF GoodJob, Text
<1>5. (used \subseteq (1..sent) \X Text)'
  BY DEF Values, Text
<1>6. (sent \in 0..Msgs /\ bounds \in Bounds)'
  BY DEF Values, Bounds
<1> QED
  BY <1>2, <1>3, <1>4, <1>5, <1>6 DEF Values

LEMMA RestValues ==
  ASSUME Inv, Values, UNCHANGED <<sent, slot, used, cache, view, fails>>,
         open' \in BOOLEAN, again' \in BOOLEAN, \A k \in Kind : GoodJob(job'[k]),
         bounds' \in Bounds, bounds'.edits = bounds.edits
  PROVE  Values'
<1>1. Versioned'
  BY DEF Values, Versioned
<1>2. (\A k \in Kind : GoodJob(job[k]))'
  BY DEF GoodJob, Text
<1>3. (bounds \in Bounds)'
  BY DEF Bounds
<1>4. /\ (IsTexts(cache, Text) /\ IsTexts(view, Text \union {0}))'
      /\ IsTexts(fails, 1..(DECRYPT_RETRY_CAP - 1))'
  BY DEF Values, IsTexts, Text
<1>5. (used \subseteq (1..sent) \X Text)'
  BY DEF Values, Text
<1> QED
  BY <1>1, <1>2, <1>3, <1>4, <1>5 DEF Values

LEMMA ValuesStep ==
  ASSUME Inv, Values, [Next]_vars
  PROVE  Values'
<1>a. /\ sent \in Nat /\ DOMAIN job = Kind /\ DOMAIN slot \subseteq 1..sent
      /\ {MaxEdits, Msgs} \subseteq Nat /\ DECRYPT_RETRY_CAP \in Nat \ {0}
  BY DeliveryAssumption DEF Inv, Shapes, NoSlot, DeliveryAssumption
<1>b. /\ sent \in 0..Msgs /\ bounds \in Bounds /\ Versioned
      /\ used \subseteq (1..sent) \X Text
      /\ IsTexts(cache, Text) /\ IsTexts(view, Text \union {0})
      /\ IsTexts(fails, 1..(DECRYPT_RETRY_CAP - 1))
      /\ open \in BOOLEAN /\ again \in BOOLEAN
      /\ \A k \in Kind : GoodJob(job[k])
  BY DEF Values
<1>c. IsTexts(Empty, Text \union {0}) /\ IsTexts(Empty, 1..(DECRYPT_RETRY_CAP - 1))
  BY DEF IsTexts, Empty
<1>d. bounds.edits \in Nat
  BY <1>a, <1>b DEF Bounds
<1>1. CASE UNCHANGED vars
  BY <1>1, <1>b, RestValues DEF vars, server, client, control, flags, marks
<1>2. CASE Send
  <2>1. /\ sent < Msgs /\ sent' = sent + 1
        /\ slot' = Update(slot, [m \in {sent'} |-> [ver |-> 1, delivered |-> FALSE]])
        /\ UNCHANGED <<used, cache, view, fails, open, again, job, bounds>>
    BY <1>2 DEF Send, client, control, flags, marks
  <2>2. sent' \in 0..Msgs /\ 1..sent \subseteq 1..sent'
    BY <1>a, <1>b, <2>1
  <2>3. Versioned'
    <3> DEFINE new == [ver |-> 1, delivered |-> FALSE]
    <3>1. new \in [ver : 1..(bounds.edits + 1), delivered : BOOLEAN]
      BY <1>d
    <3> HIDE DEF new
    <3>2. \A m \in DOMAIN slot' : slot'[m] = new \/ (m \in DOMAIN slot /\ slot'[m] = slot[m])
      <4> DEFINE g == [m \in {sent'} |-> new]
      <4>1. slot' = Update(slot, g)
        BY <2>1 DEF new
      <4>2. \A m \in DOMAIN g : g[m] = new
        OBVIOUS
      <4> HIDE DEF g
      <4> QED
        BY <4>1, <4>2 DEF Update
    <3> QED
      BY <1>b, <2>1, <3>1, <3>2 DEF Versioned
  <2>4. /\ (IsTexts(cache, Text) /\ IsTexts(view, Text \union {0}))'
        /\ IsTexts(fails, 1..(DECRYPT_RETRY_CAP - 1))'
    BY <1>b, <2>1, <2>2 DEF IsTexts, Text
  <2>5. (used \subseteq (1..sent) \X Text)'
    BY <1>b, <2>1, <2>2 DEF Text
  <2>6. (\A k \in Kind : GoodJob(job[k]))'
    BY <1>b, <2>1 DEF GoodJob, Text
  <2> QED
    BY <1>b, <2>1, <2>2, <2>3, <2>4, <2>5, <2>6 DEF Values, Bounds
<1>3. ASSUME NEW m \in 1..Msgs, Edit(m)
      PROVE  Values'
  <2>1. /\ m \in DOMAIN slot /\ bounds.edits < MaxEdits
        /\ slot' = [slot EXCEPT ![m] = [ver |-> @.ver + 1, delivered |-> FALSE]]
        /\ bounds' = [bounds EXCEPT !["edits"] = @ + 1]
        /\ UNCHANGED <<sent, used, cache, view, fails, open, again, job>>
    BY <1>3 DEF Edit, Count, client, control, flags, marks
  <2>2. bounds' \in Bounds /\ bounds'.edits = bounds.edits + 1
    <3>1. bounds.edits + 1 \in 0..MaxEdits
      BY <1>a, <1>d, <2>1
    <3> QED
      BY <1>b, <2>1, <3>1 DEF Bounds
  <2>3. Versioned'
    <3> DEFINE new == [ver |-> slot[m].ver + 1, delivered |-> FALSE]
               e == bounds.edits
    <3>1. slot[m].ver \in 1..(e + 1) /\ \A x \in DOMAIN slot : slot[x] \in [ver : 1..(e + 1), delivered : BOOLEAN]
      BY <1>b, <2>1 DEF Versioned
    <3>2. slot[m].ver + 1 \in 1..(e + 2) /\ 1..(e + 1) \subseteq 1..(e + 2)
      BY <1>d, <3>1
    <3>3. new \in [ver : 1..(e + 2), delivered : BOOLEAN]
      BY <3>2
    <3>4. slot' = [slot EXCEPT ![m] = new]
      BY <2>1
    <3> HIDE DEF new
    <3>5. \A x \in DOMAIN slot' : slot'[x] = new \/ (x \in DOMAIN slot /\ slot'[x] = slot[x])
      BY <3>4
    <3>6. \A x \in DOMAIN slot' : slot'[x] \in [ver : 1..(e + 2), delivered : BOOLEAN]
      BY <3>1, <3>2, <3>3, <3>5
    <3>7. e + 2 = bounds'.edits + 1
      BY <1>d, <2>2
    <3> QED
      BY <3>6, <3>7 DEF Versioned
  <2>4. /\ (IsTexts(cache, Text) /\ IsTexts(view, Text \union {0}))'
        /\ IsTexts(fails, 1..(DECRYPT_RETRY_CAP - 1))'
    BY <1>b, <2>1 DEF IsTexts, Text
  <2>5. (used \subseteq (1..sent) \X Text)'
    BY <1>b, <2>1 DEF Text
  <2>6. (\A k \in Kind : GoodJob(job[k]))'
    BY <1>b, <2>1 DEF GoodJob, Text
  <2> QED
    BY <1>b, <2>1, <2>2, <2>3, <2>4, <2>5, <2>6 DEF Values, Bounds
<1>4. ASSUME NEW m \in 1..Msgs, Delete(m)
      PROVE  Values'
  <2>1. /\ slot' = Restrict(slot, DOMAIN slot \ {m})
        /\ bounds' = [bounds EXCEPT !["deletes"] = @ + 1]
        /\ UNCHANGED <<sent, used, cache, view, fails, open, again, job>>
    BY <1>4 DEF Delete, Count, client, control, flags, marks
  <2>2. bounds' \in Bounds /\ bounds'.edits = bounds.edits
    BY <1>b, <2>1 DEF Bounds
  <2>3. Versioned'
    BY <1>b, <2>1, <2>2 DEF Versioned, Restrict
  <2>4. /\ (IsTexts(cache, Text) /\ IsTexts(view, Text \union {0}))'
        /\ IsTexts(fails, 1..(DECRYPT_RETRY_CAP - 1))'
    BY <1>b, <2>1 DEF IsTexts, Text
  <2>5. (used \subseteq (1..sent) \X Text)'
    BY <1>b, <2>1 DEF Text
  <2>6. (\A k \in Kind : GoodJob(job[k]))'
    BY <1>b, <2>1 DEF GoodJob, Text
  <2> QED
    BY <1>b, <2>1, <2>2, <2>3, <2>4, <2>5, <2>6 DEF Values, Bounds
<1>5. ASSUME UNCHANGED <<sent, slot, used>>, bounds' \in Bounds, bounds'.edits = bounds.edits,
             IsTexts(cache', Text), IsTexts(view', Text \union {0}),
             IsTexts(fails', 1..(DECRYPT_RETRY_CAP - 1)),
             open' \in BOOLEAN, again' \in BOOLEAN, \A k \in Kind : GoodJob(job'[k])
      PROVE  Values'
  <2>1. Versioned'
    BY <1>5, <1>b DEF Versioned
  <2>2. (\A k \in Kind : GoodJob(job[k]))'
    BY <1>5 DEF GoodJob, Text
  <2>3. /\ (IsTexts(cache, Text) /\ IsTexts(view, Text \union {0}))'
        /\ IsTexts(fails, 1..(DECRYPT_RETRY_CAP - 1))'
    BY <1>5 DEF IsTexts, Text
  <2>4. (used \subseteq (1..sent) \X Text)'
    BY <1>5, <1>b DEF Text
  <2> QED
    BY <1>5, <1>b, <2>1, <2>2, <2>3, <2>4 DEF Values, Bounds
<1>6. CASE Open
  <2>1. /\ job' = [job EXCEPT !["history"] = Start(cache), !["sync"] = Start(Empty)]
        /\ open' = TRUE /\ view' = cache
        /\ UNCHANGED <<sent, slot, used, bounds, cache, fails, again>>
    BY <1>6 DEF Open, server, flags, marks
  <2>2. \A k \in Kind : job'[k] \in {job[k], Start(cache), Start(Empty)}
    BY <1>a, <2>1 DEF Kind
  <2>3. \A k \in Kind : GoodJob(job'[k])
    BY <1>b, <2>2, GoodStarts
  <2>4. IsTexts(view', Text \union {0})
    BY <1>b, <2>1 DEF IsTexts
  <2> QED
    BY <1>5, <1>b, <2>1, <2>3, <2>4
<1>7. CASE Switch
  <2>1. /\ open' = FALSE /\ view' = Empty
        /\ bounds' = [bounds EXCEPT !["switches"] = @ + 1]
        /\ UNCHANGED <<sent, slot, used, cache, fails, again, job>>
    BY <1>7 DEF Switch, Count, server, flags, marks
  <2>2. bounds' \in Bounds /\ bounds'.edits = bounds.edits
    BY <1>b, <2>1 DEF Bounds
  <2>3. Versioned'
    BY <1>b, <2>1, <2>2 DEF Versioned
  <2>4. /\ (IsTexts(cache, Text) /\ IsTexts(view, Text \union {0}))'
        /\ IsTexts(fails, 1..(DECRYPT_RETRY_CAP - 1))'
    BY <1>b, <1>c, <2>1 DEF IsTexts, Text
  <2>5. (used \subseteq (1..sent) \X Text)'
    BY <1>b, <2>1 DEF Text
  <2>6. (\A k \in Kind : GoodJob(job[k]))'
    BY <1>b, <2>1 DEF GoodJob, Text
  <2> QED
    BY <1>b, <2>1, <2>2, <2>3, <2>4, <2>5, <2>6 DEF Values, Bounds
<1>8. CASE Reload
  <2>1. /\ open' = FALSE /\ view' = Empty /\ again' = FALSE /\ fails' = Empty
        /\ job' = [k \in Kind |-> Idle]
        /\ bounds' = [bounds EXCEPT !["reloads"] = @ + 1]
        /\ UNCHANGED <<sent, slot, used, cache>>
    BY <1>8 DEF Reload, Count, server, flags, marks
  <2>2. bounds' \in Bounds /\ bounds'.edits = bounds.edits
    BY <1>b, <2>1 DEF Bounds
  <2>3. Versioned'
    BY <1>b, <2>1, <2>2 DEF Versioned
  <2>4. /\ (IsTexts(cache, Text) /\ IsTexts(view, Text \union {0}))'
        /\ IsTexts(fails, 1..(DECRYPT_RETRY_CAP - 1))'
    BY <1>b, <1>c, <2>1 DEF IsTexts, Text
  <2>5. (used \subseteq (1..sent) \X Text)'
    BY <1>b, <2>1 DEF Text
  <2>6. \A k \in Kind : GoodJob(job'[k])
    BY <2>1, GoodStarts
  <2>7. (\A k \in Kind : GoodJob(job[k]))'
    BY <2>6 DEF GoodJob, Text
  <2> QED
    BY <1>b, <2>1, <2>2, <2>3, <2>4, <2>5, <2>7 DEF Values, Bounds
<1>9. CASE Reconnect
  <2>1. /\ job' = [job EXCEPT !["sync"] = Start(Empty)]
        /\ bounds' = [bounds EXCEPT !["drops"] = @ + 1]
        /\ UNCHANGED <<sent, slot, used, cache, view, fails, open, again>>
    BY <1>9 DEF Reconnect, Count, server, client, flags, marks
  <2>2. bounds' \in Bounds /\ bounds'.edits = bounds.edits
    BY <1>b, <2>1 DEF Bounds
  <2>3. \A k \in Kind : job'[k] \in {job[k], Start(Empty)}
    BY <1>a, <2>1
  <2>4. \A k \in Kind : GoodJob(job'[k])
    BY <1>b, <2>3, GoodStarts
  <2> QED
    BY <1>b, <2>1, <2>2, <2>4, RestValues
<1>10. CASE HandleEvent
  <2> DEFINE e == Head(events)
  <2>1. /\ OnMessage(e) \/ OnEdited(e) \/ OnDeleted(e)
        /\ UNCHANGED <<sent, slot, used, bounds, open, fails>>
    BY <1>10 DEF HandleEvent, server, flags, marks
  <2> HIDE DEF e
  <2>2. CASE OnMessage(e)
    <3>1. /\ again' \in BOOLEAN /\ UNCHANGED <<cache, view>>
          /\ job' = job \/ job' = [job EXCEPT !["live"] = Start(Empty)]
      BY <1>b, <2>2 DEF OnMessage, flags
    <3>2. \A k \in Kind : job'[k] \in {job[k], Start(Empty)}
      BY <1>a, <3>1
    <3>3. \A k \in Kind : GoodJob(job'[k])
      BY <1>b, <3>2, GoodStarts
    <3> QED
      BY <1>5, <1>b, <2>1, <3>1, <3>3
  <2>3. CASE OnEdited(e)
    <3> DEFINE s == Start([m \in {e.m} |-> 0])
    <3>1. /\ UNCHANGED <<cache, view, again>>
          /\ job' = job \/ job' = [job EXCEPT !["edit"] = s]
      BY <2>3 DEF OnEdited, flags
    <3>2. GoodJob(s)
      BY GoodStarts
    <3> HIDE DEF s
    <3>3. \A k \in Kind : job'[k] \in {job[k], s}
      BY <1>a, <3>1
    <3>4. \A k \in Kind : GoodJob(job'[k])
      BY <1>b, <3>2, <3>3
    <3> QED
      BY <1>5, <1>b, <2>1, <3>1, <3>4
  <2>4. CASE OnDeleted(e)
    <3>1. /\ view' = Restrict(view, DOMAIN view \ {e.m})
          /\ cache' = Restrict(cache, DOMAIN cache \ {e.m})
          /\ UNCHANGED <<job, again>>
      BY <2>4 DEF OnDeleted, flags
    <3>2. IsTexts(view', Text \union {0}) /\ IsTexts(cache', Text)
      BY <1>b, <3>1, RestrictedTexts
    <3> QED
      BY <1>5, <1>b, <2>1, <3>1, <3>2
  <2> QED
    BY <2>1, <2>2, <2>3, <2>4
<1>11. ASSUME NEW k \in Kind, Fetch(k)
       PROVE  Values'
  <2>1. /\ UNCHANGED <<sent, slot, used, bounds, cache, view, fails, open>>
        /\ again' \in BOOLEAN
        /\ \/ job' = [job EXCEPT ![k] = Idle]
           \/ job' = [job EXCEPT ![k] = Reader("decrypt", Versions(Wanted(k)), job[k].seed)]
    BY <1>11, <1>b DEF Fetch, server, client, flags, marks
  <2> DEFINE j == Reader("decrypt", Versions(Wanted(k)), job[k].seed)
  <2>2. GoodJob(j)
    <3>1. Wanted(k) \subseteq DOMAIN slot
      BY DEF Wanted, Pending
    <3>2. \A m \in DOMAIN slot : slot[m].ver \in Text
      <4>1. 1..(bounds.edits + 1) \subseteq Text
        BY <1>a, <1>b DEF Bounds, Text
      <4>2. \A m \in DOMAIN slot : slot[m].ver \in 1..(bounds.edits + 1)
        BY <1>b DEF Versioned
      <4> QED
        BY <4>1, <4>2
    <3>3. \A m \in DOMAIN Versions(Wanted(k)) : Versions(Wanted(k))[m] \in Text
      BY <3>1, <3>2 DEF Versions
    <3>4. \A m \in DOMAIN job[k].seed : job[k].seed[m] \in Text \union {0}
      BY <1>b DEF GoodJob
    <3> QED
      BY <3>3, <3>4, GoodReader
  <2> HIDE DEF j
  <2>3. \A l \in Kind : job'[l] \in {job[l], Idle, j}
    BY <1>a, <2>1 DEF j
  <2>4. \A l \in Kind : GoodJob(job'[l])
    BY <1>b, <2>2, <2>3, GoodStarts
  <2> QED
    BY <1>5, <1>b, <2>1, <2>4
<1>12. ASSUME NEW m \in 1..Msgs, NEW v \in 1..(MaxEdits + 1), Decrypt(m, v)
       PROVE  Values'
  <2>1. PICK fault \in {n \in {0, 1} : bounds.faults + n <= MaxFaults} :
          LET text == IF <<m, v>> \in used \/ fault = 1 THEN 0 ELSE v
          IN  /\ used' = IF text = 0 THEN used ELSE used \union {<<m, v>>}
              /\ job' = [k \in Kind |-> IF k \in Waiting(m, v)
                            THEN [job[k] EXCEPT !.got = Update(@, [x \in {m} |-> text])]
                            ELSE job[k]]
              /\ bounds' = [bounds EXCEPT !.faults = @ + fault]
    BY <1>12 DEF Decrypt
  <2> DEFINE text == IF <<m, v>> \in used \/ fault = 1 THEN 0 ELSE v
  <2>2. text \in Text \union {0} /\ v \in Text
    BY DEF Text
  <2>3. /\ used' \subseteq used \union {<<m, v>>}
        /\ job' = [k \in Kind |-> IF k \in Waiting(m, v)
                            THEN [job[k] EXCEPT !.got = Update(@, [x \in {m} |-> text])]
                            ELSE job[k]]
    BY <2>1
  <2> HIDE DEF text
  <2>4. UNCHANGED <<sent, slot, cache, view, fails, open, again>>
    BY <1>12 DEF Decrypt, server, client, flags, marks
  <2>5. bounds' \in Bounds /\ bounds'.edits = bounds.edits
    BY <1>b, <2>1 DEF Bounds
  <2>6. m \in 1..sent
    <3>1. PICK k \in Kind : m \in DOMAIN job[k].rows
      BY <1>12 DEF Decrypt, Waiting
    <3> QED
      BY <3>1 DEF Inv, Shapes
  <2>7. ASSUME NEW k \in Kind
        PROVE  GoodJob(job'[k])
    <3>1. CASE k \in Waiting(m, v)
      <4> DEFINE g == Update(job[k].got, [x \in {m} |-> text])
      <4>1. job'[k] = [job[k] EXCEPT !.got = g]
        BY <2>3, <3>1
      <4>2. job[k] = [at |-> job[k].at, rows |-> job[k].rows, got |-> job[k].got, seed |-> job[k].seed]
        BY DEF Inv, Shapes, IsJob
      <4>3. \A x \in DOMAIN g : g[x] \in Text \union {0}
        BY <1>b, <2>2 DEF GoodJob, Update
      <4> HIDE DEF g
      <4>4. job'[k] = [at |-> job[k].at, rows |-> job[k].rows, got |-> g, seed |-> job[k].seed]
        BY <4>1, <4>2
      <4>5. GoodJob(job[k])
        BY <1>b
      <4>6. job'[k].at = job[k].at /\ job'[k].rows = job[k].rows
            /\ job'[k].got = g /\ job'[k].seed = job[k].seed
        BY <4>4
      <4> QED
        BY <4>3, <4>5, <4>6 DEF GoodJob
    <3>2. CASE k \notin Waiting(m, v)
      BY <1>b, <2>3, <3>2
    <3> QED
      BY <3>1, <3>2
  <2>8. (\A k \in Kind : GoodJob(job[k]))'
    BY <2>7 DEF GoodJob, Text
  <2>9. Versioned'
    BY <1>b, <2>4, <2>5 DEF Versioned
  <2>10. /\ (IsTexts(cache, Text) /\ IsTexts(view, Text \union {0}))'
         /\ IsTexts(fails, 1..(DECRYPT_RETRY_CAP - 1))'
    BY <1>b, <2>4 DEF IsTexts, Text
  <2>11. (used \subseteq (1..sent) \X Text)'
    <3>1. <<m, v>> \in (1..sent) \X Text
      BY <2>2, <2>6
    <3>2. used' \subseteq (1..sent) \X Text
      BY <1>b, <2>3, <3>1
    <3> QED
      BY <2>4, <3>2 DEF Text
  <2> QED
    BY <1>b, <2>4, <2>5, <2>8, <2>9, <2>10, <2>11 DEF Values, Bounds
<1>13. ASSUME NEW k \in Kind, NEW ids, ids \subseteq DOMAIN job[k].rows,
              UNCHANGED <<sent, slot, used, open, again>>,
              bounds' \in Bounds, bounds'.edits = bounds.edits,
              job' = Acking(k, ids) \/ job' = [job EXCEPT ![k] = Idle],
              IsTexts(cache', Text), IsTexts(view', Text \union {0}),
              IsTexts(fails', 1..(DECRYPT_RETRY_CAP - 1))
       PROVE  Values'
  <2> DEFINE j == Reader("ack", Restrict(job[k].rows, ids), Empty)
  <2>1. GoodJob(j)
    <3>1. \A m \in DOMAIN Restrict(job[k].rows, ids) : Restrict(job[k].rows, ids)[m] \in Text
      BY <1>13, <1>b DEF Restrict, GoodJob
    <3>2. \A m \in DOMAIN Empty : Empty[m] \in Text \union {0}
      BY DEF Empty
    <3> QED
      BY <3>1, <3>2, GoodReader
  <2>2. job' = [job EXCEPT ![k] = j] \/ job' = [job EXCEPT ![k] = Idle]
    BY <1>13 DEF Acking
  <2> HIDE DEF j
  <2>3. \A l \in Kind : job'[l] \in {job[l], Idle, j}
    BY <1>a, <2>2
  <2>4. \A l \in Kind : GoodJob(job'[l])
    BY <1>b, <2>1, <2>3, GoodStarts
  <2> QED
    BY <1>5, <1>13, <1>b, <2>4
<1>14. \A k \in Kind : DOMAIN job[k].got \subseteq DOMAIN job[k].rows
  BY DEF Inv, Shapes
<1>15. \A texts : Readable(texts) \subseteq DOMAIN texts
  BY DEF Readable
<1>16. CASE KeepSync
  <2> DEFINE got == job["sync"].got
  <2>1. /\ Saves(got) /\ (view' = Appended(got) \/ view' = view)
        /\ job' = Acking("sync", Readable(got))
        /\ UNCHANGED <<sent, slot, used, open, again, fails>>
    BY <1>16 DEF KeepSync, Saves, Acked, server, flags
  <2>2. IsTexts(got, Text \union {0}) /\ Readable(got) \subseteq DOMAIN job["sync"].rows
    BY <1>14, <1>15, GotTexts DEF Kind
  <2> HIDE DEF got
  <2>3. IsTexts(cache', Text) /\ bounds' \in Bounds /\ bounds'.edits = bounds.edits
    BY <1>a, <2>1, <2>2, WrittenTexts
  <2>4. IsTexts(view', Text \union {0})
    BY <1>b, <2>1, <2>2, ShownTexts
  <2> QED
    BY <1>13, <1>b, <2>1, <2>2, <2>3, <2>4 DEF Kind
<1>17. CASE KeepLive
  <2> DEFINE got == job["live"].got
             count == [m \in DOMAIN got \ Readable(got) |->
                         IF m \in DOMAIN fails THEN fails[m] + 1 ELSE 1]
             lost == Hopeless(count)
             done == Readable(got) \union lost
             left == (DOMAIN fails \union DOMAIN count) \ done
  <2>1. /\ Saves(got) /\ view' = Appended(Restrict(got, done))
        /\ fails' = Restrict(Update(fails, count), left)
        /\ job' = Acking("live", done)
        /\ UNCHANGED <<sent, slot, used, open, again>>
    BY <1>17 DEF KeepLive, Saves, server, flags
  <2>2. IsTexts(got, Text \union {0}) /\ DOMAIN got \subseteq DOMAIN job["live"].rows
    BY <1>14, GotTexts DEF Kind
  <2>3. lost \subseteq DOMAIN got /\ done \subseteq DOMAIN got
    BY DEF Hopeless, Readable
  <2>4. IsTexts(Restrict(got, done), Text \union {0})
    <3> HIDE DEF got, done
    <3> QED
      BY <2>2, <2>3, RestrictedTexts
  <2>5. /\ IsTexts(cache', Text) /\ IsTexts(view', Text \union {0})
        /\ bounds' \in Bounds /\ bounds'.edits = bounds.edits
    <3> HIDE DEF got, done
    <3> QED
      BY <1>a, <1>b, <2>1, <2>2, <2>4, WrittenTexts, ShownTexts
  <2>6. \A m \in DOMAIN count : count[m] \in Nat /\ count[m] >= 1
    BY <1>a, <1>b DEF IsTexts
  <2>7. \A m \in DOMAIN count \ lost : count[m] \in 1..(DECRYPT_RETRY_CAP - 1)
    <3> HIDE DEF count
    <3> QED
      BY <1>a, <2>6 DEF Hopeless
  <2>8. DOMAIN count \subseteq 1..sent
    BY <2>2 DEF IsTexts
  <2>9. \A m \in left : /\ m \in 1..sent
                        /\ Update(fails, count)[m] \in 1..(DECRYPT_RETRY_CAP - 1)
    <3> HIDE DEF count, lost
    <3> QED
      BY <1>b, <2>7, <2>8 DEF Update, IsTexts
  <2>10. IsTexts(fails', 1..(DECRYPT_RETRY_CAP - 1))
    <3> HIDE DEF left, count
    <3> QED
      BY <2>1, <2>9 DEF IsTexts, Restrict
  <2>11. done \subseteq DOMAIN job["live"].rows
    BY <2>2, <2>3
  <2> HIDE DEF done, got, count
  <2> QED
    BY <1>13, <2>1, <2>5, <2>10, <2>11 DEF Kind
<1>18. CASE KeepEdit
  <2> DEFINE got == job["edit"].got
  <2>1. /\ Saves(got)
        /\ view' = [m \in DOMAIN view |-> IF m \in Readable(got) THEN got[m] ELSE view[m]]
        /\ job' = [job EXCEPT !["edit"] = Idle] \/ job' = Acking("edit", Readable(got))
        /\ UNCHANGED <<sent, slot, used, open, again, fails>>
    BY <1>18 DEF KeepEdit, Saves, server, flags
  <2>2. IsTexts(got, Text \union {0}) /\ Readable(got) \subseteq DOMAIN job["edit"].rows
    BY <1>14, <1>15, GotTexts DEF Kind
  <2> HIDE DEF got
  <2>3. IsTexts(cache', Text) /\ bounds' \in Bounds /\ bounds'.edits = bounds.edits
    BY <1>a, <2>1, <2>2, WrittenTexts
  <2>4. IsTexts(view', Text \union {0})
    BY <1>15, <1>b, <2>1, <2>2 DEF IsTexts
  <2> QED
    BY <1>13, <1>b, <2>1, <2>2, <2>3, <2>4 DEF Kind
<1>19. CASE KeepHistory
  <2> DEFINE got == job["history"].got
             seed == job["history"].seed
             out == [m \in DOMAIN got |-> IF got[m] = 0 /\ m \in DOMAIN seed THEN seed[m] ELSE got[m]]
  <2>1. /\ Saves(out) /\ view' = Merged(out)
        /\ job' = Acking("history", Readable(out))
        /\ UNCHANGED <<sent, slot, used, open, again, fails>>
    BY <1>19 DEF KeepHistory, Saves, Acked, server, flags
  <2>2. IsTexts(got, Text \union {0}) /\ DOMAIN got \subseteq DOMAIN job["history"].rows
    BY <1>14, GotTexts DEF Kind
  <2>3. \A m \in DOMAIN seed : seed[m] \in Text \union {0}
    BY <1>b DEF GoodJob, Kind
  <2>4. DOMAIN out = DOMAIN got
    OBVIOUS
  <2>5. IsTexts(out, Text \union {0})
    <3>1. \A m \in DOMAIN got : out[m] \in {got[m]} \/ (m \in DOMAIN seed /\ out[m] = seed[m])
      OBVIOUS
    <3> HIDE DEF out, got, seed
    <3> QED
      BY <2>2, <2>3, <2>4, <3>1 DEF IsTexts
  <2> HIDE DEF out, got
  <2>6. /\ IsTexts(cache', Text) /\ IsTexts(view', Text \union {0})
        /\ bounds' \in Bounds /\ bounds'.edits = bounds.edits
    BY <1>a, <1>b, <2>1, <2>5, WrittenTexts, ShownTexts
  <2>7. Readable(out) \subseteq DOMAIN job["history"].rows
    BY <1>15, <2>2, <2>4
  <2> QED
    BY <1>13, <1>b, <2>1, <2>6, <2>7 DEF Kind
<1>20. ASSUME NEW k \in Kind, NEW j \in {Idle, Start(Empty)}, job' = [job EXCEPT ![k] = j]
       PROVE  \A l \in Kind : GoodJob(job'[l])
  <2>1. \A l \in Kind : job'[l] \in {job[l], Idle, Start(Empty)}
    BY <1>20, <1>a
  <2> QED
    BY <1>b, <2>1, GoodStarts
<1>21. CASE BreakLive \/ CancelHistory
  <2>1. /\ \E k \in Kind : job' = [job EXCEPT ![k] = Idle]
        /\ UNCHANGED <<sent, slot, used, bounds, cache, view, fails, open>>
        /\ again' = again \/ again' = FALSE
    BY <1>21 DEF BreakLive, CancelHistory, Finish, Kind, server, client, flags, marks
  <2> QED
    BY <1>5, <1>20, <1>b, <2>1
<1>22. ASSUME NEW k \in Kind, AckLost(k)
       PROVE  Values'
  <2>1. /\ job' = AfterAck(k)
        /\ bounds' = [bounds EXCEPT !["drops"] = @ + 1]
        /\ UNCHANGED <<sent, slot, used, cache, view, fails, open, again>>
    BY <1>22 DEF AckLost, Count, server, client, flags, marks
  <2>2. \E j \in {Idle, Start(Empty)} : job' = [job EXCEPT ![k] = j]
    BY <2>1 DEF AfterAck
  <2>3. \A l \in Kind : GoodJob(job'[l])
    BY <1>20, <2>2
  <2>4. bounds' \in Bounds /\ bounds'.edits = bounds.edits
    BY <1>b, <2>1 DEF Bounds
  <2> QED
    BY <1>b, <2>1, <2>3, <2>4, RestValues
<1>23. ASSUME NEW k \in Kind, Acknowledge(k)
       PROVE  Values'
  <2>1. /\ job' = AfterAck(k)
        /\ slot' = [m \in DOMAIN slot |->
                      IF m \in DOMAIN job[k].rows THEN [slot[m] EXCEPT !.delivered = TRUE] ELSE slot[m]]
        /\ UNCHANGED <<sent, used, bounds, cache, view, fails, open, again>>
    BY <1>23 DEF Acknowledge, client, flags, marks
  <2>2. \E j \in {Idle, Start(Empty)} : job' = [job EXCEPT ![k] = j]
    BY <2>1 DEF AfterAck
  <2>3. \A l \in Kind : GoodJob(job'[l])
    BY <1>20, <2>2
  <2>4. Versioned'
    <3>1. \A m \in DOMAIN slot : slot[m] \in [ver : 1..(bounds.edits + 1), delivered : BOOLEAN]
      BY <1>b DEF Versioned
    <3>2. \A m \in DOMAIN slot' : m \in DOMAIN slot
            /\ (slot'[m] = slot[m] \/ slot'[m] = [slot[m] EXCEPT !.delivered = TRUE])
      BY <2>1
    <3>3. ASSUME NEW V, NEW r \in [ver : V, delivered : BOOLEAN]
          PROVE  [r EXCEPT !.delivered = TRUE] \in [ver : V, delivered : BOOLEAN]
      OBVIOUS
    <3>4. \A m \in DOMAIN slot' : slot'[m] \in [ver : 1..(bounds.edits + 1), delivered : BOOLEAN]
      BY <3>1, <3>2, <3>3
    <3> QED
      BY <2>1, <3>4 DEF Versioned
  <2>5. /\ (IsTexts(cache, Text) /\ IsTexts(view, Text \union {0}))'
        /\ IsTexts(fails, 1..(DECRYPT_RETRY_CAP - 1))'
    BY <1>b, <2>1 DEF IsTexts, Text
  <2>6. (used \subseteq (1..sent) \X Text)'
    BY <1>b, <2>1 DEF Text
  <2>7. (\A l \in Kind : GoodJob(job[l]))'
    BY <2>3 DEF GoodJob, Text
  <2> QED
    BY <1>b, <2>1, <2>4, <2>5, <2>6, <2>7 DEF Values, Bounds
<1>24. CASE ForeignMessage
  <2>1. /\ UNCHANGED <<sent, slot, used, cache, view, fails, open, job>> /\ again' \in BOOLEAN
        /\ bounds' = [bounds EXCEPT !["foreign"] = @ + 1]
    BY <1>24, <1>b DEF ForeignMessage, Count, server, client
  <2>2. bounds' \in Bounds /\ bounds'.edits = bounds.edits
    BY <1>b, <2>1 DEF Bounds
  <2> QED
    BY <1>b, <2>1, <2>2, RestValues
<1>25. CASE ForeignPass
  BY <1>25, <1>b, RestValues DEF ForeignPass, server, client
<1> QED
  BY <1>24, <1>25, <1>1, <1>2, <1>3, <1>4, <1>6, <1>7, <1>8, <1>9, <1>10, <1>11, <1>12, <1>16, <1>17,
     <1>18, <1>19, <1>21, <1>22, <1>23 DEF Next, Read, Keep

LEMMA ValuesInit == Init => Values
<1> SUFFICES ASSUME Init PROVE Values
  OBVIOUS
<1>1. /\ sent = 0 /\ used = {} /\ cache = Empty /\ view = Empty /\ fails = Empty
      /\ open = FALSE /\ again = FALSE /\ DOMAIN slot = {}
      /\ job = [k \in Kind |-> Idle]
  BY DEF Init
<1>2. \A V : IsTexts(Empty, V)
  BY DEF IsTexts, Empty
<1>3. bounds \in Bounds /\ sent \in 0..Msgs
  BY <1>1, DeliveryAssumption DEF Init, Bounds, DeliveryAssumption
<1>4. \A k \in Kind : GoodJob(job[k])
  BY <1>1, GoodStarts
<1>5. Versioned
  BY <1>1 DEF Versioned
<1> HIDE DEF Init
<1> QED
  BY <1>1, <1>2, <1>3, <1>4, <1>5 DEF Values

LEMMA ValuesHold == Spec => [](Inv /\ Values)
<1>1. Inv /\ Values /\ [Next]_vars => Inv' /\ Values'
  BY InvStep, ValuesStep
<1>2. Init => Values
  BY ValuesInit
<1> QED
  BY <1>1, <1>2, InvHolds, PTL DEF Spec

(***************************************************************************)
(* The flags, and the marks a run leaves on messages.                      *)
(***************************************************************************)
Marked ==
    /\ foreign \in BOOLEAN /\ (foreign => job["live"].at = "idle")
    /\ unsaved \union crossed \union absorbed \subseteq 1..sent
    /\ \A i \in DOMAIN events : events[i].m \in 1..sent

LEMMA MarkedStep ==
  ASSUME Inv, Values, Marked, [Next]_vars
  PROVE  Marked'
<1>a. /\ sent \in Nat /\ events \in Seq(Event) /\ DOMAIN job = Kind /\ DOMAIN slot \subseteq 1..sent
      /\ \A k \in Kind : DOMAIN job[k].got \subseteq DOMAIN job[k].rows /\ DOMAIN job[k].rows \subseteq 1..sent
      /\ {"history", "sync", "live", "edit"} = Kind
  BY DEF Inv, Shapes, NoSlot, Kind
<1>1. ASSUME UNCHANGED <<sent, foreign, absorbed>>, unsaved' \union crossed' \subseteq 1..sent,
             \A i \in DOMAIN events' : events'[i].m \in 1..sent,
             job["live"].at = "idle" => job'["live"].at = "idle"
      PROVE  Marked'
  BY <1>1 DEF Marked
<1>2. ASSUME NEW k \in Kind, job[k].at # "idle", \E j : job' = [job EXCEPT ![k] = j],
             UNCHANGED <<sent, events, foreign, absorbed>>, unsaved' \union crossed' \subseteq 1..sent
      PROVE  Marked'
  <2>1. job["live"].at = "idle" => job'["live"] = job["live"]
    BY <1>2, <1>a
  <2> QED
    BY <1>1, <1>2, <2>1 DEF Marked
<1>3. ASSUME NEW e, e.m \in 1..sent', events' = Append(events, e), sent <= sent', sent' \in Nat,
             UNCHANGED <<foreign, absorbed, job>>, unsaved' \union crossed' \subseteq 1..sent'
      PROVE  Marked'
  <2>1. /\ DOMAIN events' = 1..(Len(events) + 1) /\ events'[Len(events) + 1] = e
        /\ \A i \in 1..Len(events) : events'[i] = events[i]
    BY <1>3, <1>a
  <2>2. \A i \in DOMAIN events' : events'[i].m \in 1..sent'
    BY <1>3, <1>a, <2>1 DEF Marked
  <2>3. absorbed' \subseteq 1..sent'
    BY <1>3, <1>a DEF Marked
  <2> QED
    BY <1>3, <2>2, <2>3 DEF Marked
<1>4. CASE UNCHANGED vars
  BY <1>1, <1>4 DEF vars, server, control, flags, marks, Marked
<1>5. CASE Send
  <2> DEFINE e == [type |-> "chat_message", m |-> sent']
  <2>1. /\ sent' = sent + 1 /\ events' = Append(events, e)
        /\ UNCHANGED <<foreign, absorbed, job, unsaved, crossed>>
    BY <1>5 DEF Send, control, flags, marks
  <2>2. e.m \in 1..sent' /\ sent' \in Nat /\ sent <= sent' /\ 1..sent \subseteq 1..sent'
    BY <1>a, <2>1
  <2> HIDE DEF e
  <2> QED
    BY <1>3, <2>1, <2>2 DEF Marked
<1>6. ASSUME NEW m, Edit(m) \/ Delete(m) PROVE Marked'
  <2>1. /\ m \in DOMAIN slot /\ \E e : e.m = m /\ events' = Append(events, e)
        /\ UNCHANGED <<sent, foreign, absorbed, job, unsaved>>
        /\ crossed' \subseteq crossed \union {m}
    <3>1. CASE Edit(m)
      BY <3>1 DEF Edit, control, flags
    <3>2. CASE Delete(m)
      BY <3>2 DEF Delete, control, flags, marks
    <3> QED
      BY <1>6, <3>1, <3>2
  <2> QED
    BY <1>3, <1>a, <2>1 DEF Marked
<1>7. CASE Open
  <2>1. /\ job' = [job EXCEPT !["history"] = Start(cache), !["sync"] = Start(Empty)]
        /\ UNCHANGED <<sent, events, foreign, absorbed, unsaved, crossed>>
    BY <1>7 DEF Open, server, flags, marks
  <2> QED
    BY <1>1, <1>a, <2>1 DEF Marked
<1>8. CASE Switch
  BY <1>1, <1>8 DEF Switch, server, flags, marks, Marked
<1>9. CASE Reload
  <2>1. /\ foreign' = FALSE /\ events' = <<>>
        /\ UNCHANGED <<sent, absorbed, unsaved, crossed>>
    BY <1>9 DEF Reload, server, marks
  <2>2. DOMAIN events' = {}
    BY <2>1
  <2> QED
    BY <2>1, <2>2 DEF Marked
<1>10. CASE Reconnect
  <2>1. /\ events' = <<>> /\ job' = [job EXCEPT !["sync"] = Start(Empty)]
        /\ UNCHANGED <<sent, foreign, absorbed, unsaved, crossed>>
    BY <1>10 DEF Reconnect, server, flags, marks
  <2> QED
    BY <1>1, <1>a, <2>1 DEF Marked
<1>11. CASE HandleEvent
  <2> DEFINE e == Head(events)
  <2>1. /\ events # <<>> /\ events' = Tail(events) /\ UNCHANGED <<sent, unsaved, crossed>>
        /\ OnMessage(e) \/ OnEdited(e) \/ OnDeleted(e)
    BY <1>11 DEF HandleEvent, server
  <2>2. /\ e.m \in 1..sent
        /\ \A i \in DOMAIN events' : events'[i].m \in 1..sent
    <3>1. /\ e = events[1] /\ 1 \in DOMAIN events
          /\ \A i \in DOMAIN events' : i + 1 \in DOMAIN events /\ events'[i] = events[i + 1]
      BY <1>a, <2>1
    <3> QED
      BY <3>1 DEF Marked
  <2> HIDE DEF e
  <2>3. CASE OnMessage(e)
    <3>1. /\ UNCHANGED foreign
          /\ absorbed' \subseteq absorbed \union {e.m}
          /\ \/ UNCHANGED job
             \/ ~foreign
      BY <2>3 DEF OnMessage, flags
    <3> QED
      BY <2>1, <2>2, <3>1 DEF Marked
  <2>4. CASE OnEdited(e) \/ OnDeleted(e)
    <3>1. /\ UNCHANGED <<foreign, absorbed>>
          /\ UNCHANGED job \/ \E j : job' = [job EXCEPT !["edit"] = j]
      BY <2>4 DEF OnEdited, OnDeleted, flags
    <3>2. UNCHANGED job["live"]
      BY <1>a, <3>1
    <3> QED
      BY <1>1, <2>1, <2>2, <3>1, <3>2 DEF Marked
  <2> QED
    BY <2>1, <2>3, <2>4
<1>12. ASSUME NEW k \in Kind, Fetch(k) \/ Acknowledge(k) \/ AckLost(k)
       PROVE  Marked'
  <2>1. /\ job[k].at # "idle" /\ \E j : job' = [job EXCEPT ![k] = j]
        /\ UNCHANGED <<sent, events, foreign, absorbed, unsaved, crossed>>
    BY <1>12 DEF Fetch, Acknowledge, AckLost, AfterAck, At, server, client, flags, marks
  <2> QED
    BY <1>2, <2>1 DEF Marked
<1>13. ASSUME NEW m, NEW v, Decrypt(m, v)
       PROVE  Marked'
  <2>0. UNCHANGED <<sent, events, foreign, absorbed, unsaved, crossed>>
    BY <1>13 DEF Decrypt, server, flags, marks
  <2>1. \E text : job' = [k \in Kind |-> IF k \in Waiting(m, v)
                          THEN [job[k] EXCEPT !.got = Update(@, [x \in {m} |-> text])]
                          ELSE job[k]]
    <3>1. PICK fault \in {n \in {0, 1} : bounds.faults + n <= MaxFaults} :
            job' = [k \in Kind |-> IF k \in Waiting(m, v)
                      THEN [job[k] EXCEPT !.got =
                              Update(@, [x \in {m} |-> IF <<m, v>> \in used \/ fault = 1 THEN 0 ELSE v])]
                      ELSE job[k]]
      BY <1>13 DEF Decrypt
    <3> QED
      BY <3>1
  <2>2. job["live"].at = "idle" => "live" \notin Waiting(m, v)
    BY DEF Waiting, At
  <2>3. job["live"].at = "idle" => job'["live"] = job["live"]
    BY <1>a, <2>1, <2>2
  <2> QED
    BY <1>1, <2>0, <2>3 DEF Marked
<1>14. ASSUME NEW texts, Saves(texts), DOMAIN texts \subseteq 1..sent
       PROVE  unsaved' \subseteq 1..sent
  <2>1. Writable(texts) \subseteq DOMAIN texts
    BY DEF Writable, Readable
  <2> QED
    BY <1>14, <2>1, SavedTexts DEF Marked
<1>15. CASE KeepSync \/ KeepLive \/ KeepEdit
  <2>1. PICK k \in {"sync", "live", "edit"} :
        /\ Saves(job[k].got) /\ job[k].at # "idle" /\ \E j : job' = [job EXCEPT ![k] = j]
        /\ UNCHANGED <<sent, events, foreign, absorbed, crossed>>
    BY <1>15 DEF KeepSync, KeepLive, KeepEdit, Saves, Settled, At, Acking, server, flags
  <2>2. DOMAIN job[k].got \subseteq 1..sent
    BY <1>a
  <2> QED
    BY <1>2, <1>14, <1>a, <2>1, <2>2 DEF Marked
<1>16. CASE KeepHistory
  <2> DEFINE got == job["history"].got
             seed == job["history"].seed
             out == [m \in DOMAIN got |-> IF got[m] = 0 /\ m \in DOMAIN seed THEN seed[m] ELSE got[m]]
  <2>1. /\ Saves(out) /\ job["history"].at # "idle" /\ \E j : job' = [job EXCEPT !["history"] = j]
        /\ UNCHANGED <<sent, events, foreign, absorbed>> /\ crossed' \subseteq crossed \union DOMAIN got
    BY <1>16 DEF KeepHistory, Saves, Settled, At, Acking, server, flags
  <2>2. DOMAIN got \subseteq 1..sent /\ DOMAIN out = DOMAIN got
    BY <1>a
  <2> HIDE DEF out, got
  <2> QED
    BY <1>2, <1>14, <1>a, <2>1, <2>2 DEF Marked
<1>17. ASSUME NEW k \in Kind, Settled(k), Finish(k),
              UNCHANGED <<sent, events, foreign, absorbed, unsaved, crossed>>
       PROVE  Marked'
  BY <1>2, <1>17 DEF Settled, At, Finish, Marked
<1>18. CASE BreakLive
  BY <1>17, <1>18 DEF BreakLive, Kind, server, marks
<1>19. CASE CancelHistory
  BY <1>17, <1>19 DEF CancelHistory, Kind, server, flags, marks
<1>20. CASE ForeignMessage
  BY <1>20 DEF ForeignMessage, At, server, marks, Marked
<1>21. CASE ForeignPass
  BY <1>21 DEF ForeignPass, server, marks, Marked
<1> QED
  BY <1>4, <1>5, <1>6, <1>7, <1>8, <1>9, <1>10, <1>11, <1>12, <1>13, <1>15,
     <1>16, <1>18, <1>19, <1>20, <1>21 DEF Next, Read, Keep

(***************************************************************************)
(* What an acknowledged message is cached with.                            *)
(***************************************************************************)
\* Whatever no edit has crossed, readers hold in its current version.
Held ==
    \A k \in Kind : \A m \in DOMAIN job[k].rows \intersect DOMAIN slot :
        m \in crossed \/ job[k].rows[m] = slot[m].ver

ReadAsFetched == \A k \in Kind : \A m \in DOMAIN job[k].got : job[k].got[m] \in {0, job[k].rows[m]}

AckedNow(m) == slot[m].delivered \/ \E k \in Kind : job[k].at = "ack" /\ m \in DOMAIN job[k].rows

Current ==
    \A m \in DOMAIN slot \ (gaveUp \union unsaved \union crossed) :
        AckedNow(m) => Kept(cache, m, slot[m].ver)

Fresh == Held /\ ReadAsFetched /\ Current

\* Readers that keep what they have, or drop it.
LEMMA FreshFrame ==
  ASSUME Fresh, gaveUp \subseteq gaveUp', unsaved \subseteq unsaved', crossed \subseteq crossed',
         DOMAIN slot' \subseteq DOMAIN slot, \A m \in DOMAIN slot' : slot'[m] = slot[m],
         \A m \in DOMAIN cache \intersect DOMAIN slot' : m \in DOMAIN cache' /\ cache'[m] = cache[m],
         \A k \in Kind : job'[k] = job[k] \/ (DOMAIN job'[k].rows = {} /\ DOMAIN job'[k].got = {})
  PROVE  Fresh'
<1>1. Held'
  BY DEF Fresh, Held
<1>2. ReadAsFetched'
  BY DEF Fresh, ReadAsFetched
<1>3. \A m \in DOMAIN slot' : AckedNow(m)' => AckedNow(m)
  BY DEF AckedNow
<1>4. ASSUME NEW m \in DOMAIN slot' \ (gaveUp' \union unsaved' \union crossed'), AckedNow(m)'
      PROVE  Kept(cache', m, slot'[m].ver)
  <2>1. Kept(cache, m, slot[m].ver)
    BY <1>3, <1>4 DEF Fresh, Current
  <2> QED
    BY <1>4, <2>1 DEF Kept
<1> QED
  BY <1>1, <1>2, <1>4 DEF Fresh, Current

\* The reader k writes what it has fetched, or marks what it has not, and goes on to
\* acknowledge `ids`.
LEMMA FreshKeep ==
  ASSUME Inv, Fresh, NEW k \in Kind, NEW texts, NEW ids, DOMAIN texts \subseteq DOMAIN job[k].rows,
         Saves(texts), gaveUp \subseteq gaveUp', crossed \subseteq crossed',
         \A m \in Readable(texts) : m \in crossed' \/ texts[m] = job[k].rows[m],
         ids \subseteq DOMAIN job[k].rows, ids \subseteq Readable(texts) \union gaveUp',
         job' = Acking(k, ids) \/ job' = [job EXCEPT ![k] = Idle],
         UNCHANGED slot
  PROVE  Fresh'
<1>a. /\ DOMAIN job = Kind /\ told \intersect DOMAIN slot = {} /\ deletedIds \subseteq told
  BY DEF Inv, Shapes, NoSlot, Doomed, Filtered
<1>b. PICK lost \in SUBSET Writable(texts) :
         cache' = Cached(texts, lost) /\ unsaved' = (unsaved \ Writable(texts)) \union lost
  BY SavedTexts
<1>c. /\ DOMAIN cache' = DOMAIN cache \union (Writable(texts) \ lost)
      /\ \A m \in Writable(texts) \ lost : cache'[m] = texts[m]
      /\ \A m \in DOMAIN cache \ (Writable(texts) \ lost) : cache'[m] = cache[m]
  <2> DEFINE c == Cached(texts, lost)
  <2>1. /\ DOMAIN c = DOMAIN cache \union (Writable(texts) \ lost)
        /\ \A m \in Writable(texts) \ lost : c[m] = texts[m]
        /\ \A m \in DOMAIN cache \ (Writable(texts) \ lost) : c[m] = cache[m]
    BY CachedTexts
  <2>2. cache' = c
    BY <1>b
  <2> HIDE DEF c
  <2> QED
    BY <2>1, <2>2
<1>d. /\ \A l \in Kind \ {k} : job'[l] = job[l]
      /\ DOMAIN job'[k].got = {} /\ DOMAIN job'[k].rows \subseteq ids
      /\ \A m \in DOMAIN job'[k].rows : job'[k].rows[m] = job[k].rows[m]
  <2>1. CASE job' = [job EXCEPT ![k] = Idle]
    <3>1. DOMAIN Idle.got = {} /\ DOMAIN Idle.rows = {}
      BY NewReader DEF Idle, Empty
    <3> QED
      BY <1>a, <2>1, <3>1
  <2>2. CASE job' = Acking(k, ids)
    <3> DEFINE r == Restrict(job[k].rows, ids)
    <3>1. job' = [job EXCEPT ![k] = Reader("ack", r, Empty)]
      BY <2>2 DEF Acking
    <3>2. DOMAIN r = ids /\ \A m \in DOMAIN r : r[m] = job[k].rows[m]
      BY DEF Restrict
    <3> HIDE DEF r
    <3>3. DOMAIN Reader("ack", r, Empty).got = {} /\ Reader("ack", r, Empty).rows = r
      BY NewReader
    <3> QED
      BY <1>a, <3>1, <3>2, <3>3
  <2> QED
    BY <2>1, <2>2
<1>1. Held'
  BY <1>d DEF Fresh, Held
<1>2. ReadAsFetched'
  BY <1>d DEF Fresh, ReadAsFetched
<1>3. ASSUME NEW m \in DOMAIN slot' \ (gaveUp' \union unsaved' \union crossed'), AckedNow(m)'
      PROVE  Kept(cache', m, slot'[m].ver)
  <2>1. m \in DOMAIN slot /\ m \notin gaveUp \union crossed /\ m \notin lost
    BY <1>3, <1>b
  <2>2. CASE m \in Writable(texts)
    <3>1. m \in Readable(texts) /\ m \in DOMAIN texts
      BY <2>2 DEF Writable, Readable
    <3>2. texts[m] = job[k].rows[m] /\ job[k].rows[m] = slot[m].ver
      BY <1>3, <2>1, <3>1 DEF Fresh, Held
    <3> QED
      BY <1>c, <2>1, <2>2, <3>2 DEF Kept
  <2>3. CASE m \notin Writable(texts)
    <3>1. m \notin deletedIds
      BY <1>a, <2>1
    <3>2. m \notin ids
      BY <1>3, <2>3, <3>1 DEF Writable
    <3>3. AckedNow(m)
      BY <1>3, <1>d, <3>2 DEF AckedNow
    <3>4. m \notin unsaved
      BY <1>3, <1>b, <2>3
    <3>5. Kept(cache, m, slot[m].ver)
      BY <2>1, <3>3, <3>4 DEF Fresh, Current
    <3> QED
      BY <1>c, <2>3, <3>5 DEF Kept
  <2> QED
    BY <2>2, <2>3
<1> QED
  BY <1>1, <1>2, <1>3 DEF Fresh, Current

LEMMA FreshStep ==
  ASSUME Inv, Values, Fresh, [Next]_vars
  PROVE  Fresh'
<1>a. /\ sent \in Nat /\ events \in Seq(Event) /\ DOMAIN job = Kind /\ DOMAIN slot \subseteq 1..sent
      /\ \A k \in Kind : DOMAIN job[k].got \subseteq DOMAIN job[k].rows /\ DOMAIN job[k].rows \subseteq 1..sent
      /\ {"history", "sync", "live", "edit"} = Kind
  BY DEF Inv, Shapes, NoSlot, Kind
<1>b. /\ DOMAIN Idle.rows = {} /\ DOMAIN Idle.got = {}
      /\ \A s : DOMAIN Start(s).rows = {} /\ DOMAIN Start(s).got = {}
  BY NewReader DEF Idle, Start, Empty
<1>c. \A texts : Readable(texts) \subseteq DOMAIN texts
  BY DEF Readable
<1>1. ASSUME UNCHANGED <<slot, cache, gaveUp, unsaved, crossed>>,
             \A k \in Kind : job'[k] = job[k] \/ (DOMAIN job'[k].rows = {} /\ DOMAIN job'[k].got = {})
      PROVE  Fresh'
  BY <1>1, FreshFrame
<1>2. CASE UNCHANGED vars
  BY <1>1, <1>2 DEF vars, server, client, control, marks
<1>3. CASE Send
  <2> DEFINE new == [ver |-> 1, delivered |-> FALSE]
  <2>1. /\ sent' = sent + 1 /\ slot' = Update(slot, [m \in {sent'} |-> new])
        /\ UNCHANGED <<cache, job, gaveUp, unsaved, crossed>>
    BY <1>3 DEF Send, client, control, marks
  <2>2. ~new.delivered
    OBVIOUS
  <2> HIDE DEF new
  <2>3. /\ DOMAIN slot' = DOMAIN slot \union {sent'} /\ slot'[sent'] = new
        /\ \A m \in DOMAIN slot : m # sent' => slot'[m] = slot[m]
    <3> DEFINE g == [m \in {sent'} |-> new]
    <3>1. DOMAIN g = {sent'} /\ g[sent'] = new /\ slot' = Update(slot, g)
      BY <2>1
    <3> HIDE DEF g
    <3> QED
      BY <3>1 DEF Update
  <2>4. /\ sent' \notin DOMAIN slot
        /\ \A k \in Kind : sent' \notin DOMAIN job[k].rows
    BY <1>a, <2>1
  <2>5. Held'
    BY <2>1, <2>3, <2>4 DEF Fresh, Held
  <2>6. ReadAsFetched'
    BY <2>1 DEF Fresh, ReadAsFetched
  <2>7. ASSUME NEW m \in DOMAIN slot', AckedNow(m)'
        PROVE  m \in DOMAIN slot /\ AckedNow(m) /\ slot'[m] = slot[m]
    BY <2>1, <2>2, <2>3, <2>4, <2>7 DEF AckedNow
  <2>8. Current'
    BY <2>1, <2>7 DEF Fresh, Current, Kept
  <2> QED
    BY <2>5, <2>6, <2>8 DEF Fresh
<1>4. ASSUME NEW m, Edit(m) PROVE Fresh'
  <2>1. /\ m \in DOMAIN slot /\ slot' = [slot EXCEPT ![m] = [ver |-> @.ver + 1, delivered |-> FALSE]]
        /\ crossed' = crossed \union {x \in {m} : \E k \in Kind : x \in DOMAIN job[k].rows}
        /\ UNCHANGED <<cache, job, gaveUp, unsaved>>
    BY <1>4 DEF Edit, client, control
  <2>2. /\ DOMAIN slot' = DOMAIN slot /\ ~slot'[m].delivered
        /\ \A x \in DOMAIN slot : x # m => slot'[x] = slot[x]
        /\ m \in crossed' \/ \A k \in Kind : m \notin DOMAIN job[k].rows
    BY <2>1
  <2>3. Held'
    BY <2>1, <2>2 DEF Fresh, Held
  <2>4. ReadAsFetched'
    BY <2>1 DEF Fresh, ReadAsFetched
  <2>5. ASSUME NEW x \in DOMAIN slot' \ crossed', AckedNow(x)'
        PROVE  x \in DOMAIN slot /\ AckedNow(x) /\ slot'[x] = slot[x]
    BY <2>1, <2>2, <2>5 DEF AckedNow
  <2>6. Current'
    BY <2>1, <2>5 DEF Fresh, Current, Kept
  <2> QED
    BY <2>3, <2>4, <2>6 DEF Fresh
<1>5. ASSUME NEW m, Delete(m) PROVE Fresh'
  <2>1. /\ DOMAIN slot' \subseteq DOMAIN slot /\ \A x \in DOMAIN slot' : slot'[x] = slot[x]
        /\ UNCHANGED <<cache, job, gaveUp, unsaved, crossed>>
    BY <1>5 DEF Delete, Restrict, client, control, marks
  <2> QED
    BY <2>1, FreshFrame
<1>6. CASE Open
  <2>1. /\ job' = [job EXCEPT !["history"] = Start(cache), !["sync"] = Start(Empty)]
        /\ UNCHANGED <<slot, cache, gaveUp, unsaved, crossed>>
    BY <1>6 DEF Open, server, marks
  <2>2. \A k \in Kind : job'[k] \in {job[k], Start(cache), Start(Empty)}
    BY <1>a, <2>1
  <2> QED
    BY <1>1, <1>b, <2>1, <2>2
<1>7. CASE Switch
  BY <1>1, <1>7 DEF Switch, server, marks
<1>8. CASE Reload
  BY <1>1, <1>8, <1>b DEF Reload, server, marks
<1>9. CASE Reconnect
  <2>1. /\ job' = [job EXCEPT !["sync"] = Start(Empty)]
        /\ UNCHANGED <<slot, cache, gaveUp, unsaved, crossed>>
    BY <1>9 DEF Reconnect, server, client, marks
  <2>2. \A k \in Kind : job'[k] \in {job[k], Start(Empty)}
    BY <1>a, <2>1
  <2> QED
    BY <1>1, <1>b, <2>1, <2>2
<1>10. CASE HandleEvent
  <2> DEFINE e == Head(events)
  <2>1. /\ OnMessage(e) \/ OnEdited(e) \/ OnDeleted(e)
        /\ UNCHANGED <<slot, gaveUp, unsaved, crossed>>
    BY <1>10 DEF HandleEvent, server
  <2>2. e \in Event /\ (e.type = "message_deleted" => e.m \in Doomed)
    <3>1. events # <<>>
      BY <1>10 DEF HandleEvent
    <3>2. e \in Event /\ e = events[1] /\ 1 \in DOMAIN events
      BY <1>a, <3>1
    <3> QED
      BY <3>2 DEF Doomed
  <2> HIDE DEF e
  <2>3. CASE OnMessage(e) \/ OnEdited(e)
    <3>1. /\ UNCHANGED cache
          /\ \/ UNCHANGED job
             \/ \E k \in Kind : \E s : job' = [job EXCEPT ![k] = Start(s)]
      BY <2>3 DEF OnMessage, OnEdited, Kind
    <3>2. \A k \in Kind : job'[k] = job[k] \/ \E s : job'[k] = Start(s)
      BY <1>a, <3>1
    <3> QED
      BY <1>1, <1>b, <2>1, <3>1, <3>2
  <2>4. CASE OnDeleted(e)
    <3>1. /\ e.type = "message_deleted" /\ UNCHANGED job
          /\ DOMAIN cache' = DOMAIN cache \ {e.m} /\ \A m \in DOMAIN cache' : cache'[m] = cache[m]
      BY <2>4 DEF OnDeleted, Restrict
    <3>2. e.m \notin DOMAIN slot
      BY <2>2, <3>1 DEF Inv, NoSlot
    <3> QED
      BY <2>1, <3>1, <3>2, FreshFrame
  <2> QED
    BY <2>1, <2>3, <2>4
<1>11. ASSUME NEW k \in Kind, Fetch(k) PROVE Fresh'
  <2> DEFINE j == Reader("decrypt", Versions(Wanted(k)), job[k].seed)
  <2>1. /\ UNCHANGED <<slot, cache, gaveUp, unsaved, crossed>>
        /\ job' = [job EXCEPT ![k] = Idle] \/ job' = [job EXCEPT ![k] = j]
    BY <1>11 DEF Fetch, server, client, marks
  <2>2. /\ DOMAIN j.got = {} /\ j.at = "decrypt" /\ DOMAIN j.rows = Wanted(k)
        /\ \A m \in DOMAIN j.rows : j.rows[m] = slot[m].ver
    BY NewReader DEF Versions
  <2> HIDE DEF j
  <2>3. CASE job' = [job EXCEPT ![k] = Idle]
    <3>1. \A l \in Kind : job'[l] = job[l] \/ job'[l] = Idle
      BY <1>a, <2>3
    <3> QED
      BY <1>1, <1>b, <2>1, <3>1
  <2>4. CASE job' = [job EXCEPT ![k] = j]
    <3>1. job'[k] = j /\ \A l \in Kind \ {k} : job'[l] = job[l]
      BY <1>a, <2>4
    <3>2. Held' /\ ReadAsFetched'
      BY <2>1, <2>2, <3>1 DEF Fresh, Held, ReadAsFetched
    <3>3. \A m \in DOMAIN slot : AckedNow(m)' => AckedNow(m)
      BY <2>1, <2>2, <3>1 DEF AckedNow
    <3>4. Current'
      BY <2>1, <3>3 DEF Fresh, Current, Kept
    <3> QED
      BY <3>2, <3>4 DEF Fresh
  <2> QED
    BY <2>1, <2>3, <2>4
<1>12. ASSUME NEW m, NEW v, Decrypt(m, v) PROVE Fresh'
  <2>1. UNCHANGED <<slot, cache, gaveUp, unsaved, crossed>>
    BY <1>12 DEF Decrypt, server, client, marks
  <2>2. \E text \in {0, v} : job' = [k \in Kind |-> IF k \in Waiting(m, v)
                                THEN [job[k] EXCEPT !.got = Update(@, [x \in {m} |-> text])]
                                ELSE job[k]]
    <3>1. PICK fault \in {n \in {0, 1} : bounds.faults + n <= MaxFaults} :
            job' = [k \in Kind |-> IF k \in Waiting(m, v)
                      THEN [job[k] EXCEPT !.got =
                              Update(@, [x \in {m} |-> IF <<m, v>> \in used \/ fault = 1 THEN 0 ELSE v])]
                      ELSE job[k]]
      BY <1>12 DEF Decrypt
    <3>2. (IF <<m, v>> \in used \/ fault = 1 THEN 0 ELSE v) \in {0, v}
      OBVIOUS
    <3> QED
      BY <3>1, <3>2
  <2>3. PICK text \in {0, v} : job' = [k \in Kind |-> IF k \in Waiting(m, v)
                                THEN [job[k] EXCEPT !.got = Update(@, [x \in {m} |-> text])]
                                ELSE job[k]]
    BY <2>2
  <2>4. ASSUME NEW k \in Kind
        PROVE  /\ job'[k].at = job[k].at /\ job'[k].rows = job[k].rows
               /\ \A x \in DOMAIN job'[k].got : job'[k].got[x] \in {0, job[k].rows[x]}
    <3>1. CASE k \in Waiting(m, v)
      <4> DEFINE g == Update(job[k].got, [x \in {m} |-> text])
      <4>1. job'[k] = [job[k] EXCEPT !.got = g]
        BY <2>3, <3>1
      <4>2. job[k] = [at |-> job[k].at, rows |-> job[k].rows, got |-> job[k].got, seed |-> job[k].seed]
        BY DEF Inv, Shapes, IsJob
      <4>3. job[k].rows[m] = v
        BY <3>1 DEF Waiting
      <4>4. \A x \in DOMAIN g : g[x] \in {0, job[k].rows[x]}
        <5>1. \A x \in DOMAIN job[k].got : job[k].got[x] \in {0, job[k].rows[x]}
          BY DEF Fresh, ReadAsFetched
        <5> QED
          BY <4>3, <5>1 DEF Update
      <4> HIDE DEF g
      <4>5. job'[k] = [at |-> job[k].at, rows |-> job[k].rows, got |-> g, seed |-> job[k].seed]
        BY <4>1, <4>2
      <4>6. job'[k].at = job[k].at /\ job'[k].rows = job[k].rows /\ job'[k].got = g
        BY <4>5
      <4> QED
        BY <4>4, <4>6
    <3>2. CASE k \notin Waiting(m, v)
      BY <2>3, <3>2 DEF Fresh, ReadAsFetched
    <3> QED
      BY <3>1, <3>2
  <2>5. Held' /\ ReadAsFetched'
    BY <2>1, <2>4 DEF Fresh, Held, ReadAsFetched
  <2>6. \A x \in DOMAIN slot : AckedNow(x)' => AckedNow(x)
    BY <2>1, <2>4 DEF AckedNow
  <2>7. Current'
    BY <2>1, <2>6 DEF Fresh, Current, Kept
  <2> QED
    BY <2>5, <2>7 DEF Fresh
<1>13. \A k \in Kind : \A m \in Readable(job[k].got) : job[k].got[m] = job[k].rows[m]
  <2>1. ~(0 > 0)
    OBVIOUS
  <2> QED
    BY <2>1 DEF Fresh, ReadAsFetched, Readable
<1>14. CASE KeepSync
  <2> DEFINE got == job["sync"].got
  <2>1. /\ Saves(got) /\ job' = Acking("sync", Readable(got))
        /\ UNCHANGED <<slot, gaveUp, crossed>>
    BY <1>14 DEF KeepSync, Saves, Acked, server
  <2>2. DOMAIN got \subseteq DOMAIN job["sync"].rows /\ Readable(got) \subseteq DOMAIN got
    BY <1>a, <1>c
  <2>3. \A m \in Readable(got) : got[m] = job["sync"].rows[m]
    BY <1>13, <1>a
  <2> HIDE DEF got
  <2> QED
    BY <1>a, <2>1, <2>2, <2>3, FreshKeep
<1>15. CASE KeepLive
  <2> DEFINE got == job["live"].got
             count == [m \in DOMAIN got \ Readable(got) |->
                         IF m \in DOMAIN fails THEN fails[m] + 1 ELSE 1]
             lost == Hopeless(count)
  <2>1. /\ Saves(got) /\ gaveUp' = gaveUp \union lost
        /\ job' = Acking("live", Readable(got) \union lost)
        /\ UNCHANGED <<slot, crossed>>
    BY <1>15 DEF KeepLive, Saves, server
  <2>2. /\ DOMAIN got \subseteq DOMAIN job["live"].rows /\ Readable(got) \subseteq DOMAIN got
        /\ lost \subseteq DOMAIN got
    BY <1>a, <1>c DEF Hopeless
  <2>3. \A m \in Readable(got) : got[m] = job["live"].rows[m]
    BY <1>13, <1>a
  <2> HIDE DEF got, lost
  <2>4. gaveUp \subseteq gaveUp' /\ Readable(got) \union lost \subseteq DOMAIN job["live"].rows
    BY <2>1, <2>2
  <2>5. Readable(got) \union lost \subseteq Readable(got) \union gaveUp'
    BY <2>1
  <2> QED
    BY <1>a, <2>1, <2>2, <2>3, <2>4, <2>5, FreshKeep
<1>16. CASE KeepEdit
  <2> DEFINE got == job["edit"].got
  <2>1. /\ Saves(got)
        /\ job' = [job EXCEPT !["edit"] = Idle] \/ job' = Acking("edit", Readable(got))
        /\ UNCHANGED <<slot, gaveUp, crossed>>
    BY <1>16 DEF KeepEdit, Saves, server
  <2>2. DOMAIN got \subseteq DOMAIN job["edit"].rows /\ Readable(got) \subseteq DOMAIN got
    BY <1>a, <1>c
  <2>3. \A m \in Readable(got) : got[m] = job["edit"].rows[m]
    BY <1>13, <1>a
  <2> HIDE DEF got
  <2> QED
    BY <1>a, <2>1, <2>2, <2>3, FreshKeep
<1>17. CASE KeepHistory
  <2> DEFINE got == job["history"].got
             seed == job["history"].seed
             rows == job["history"].rows
             out == [m \in DOMAIN got |-> IF got[m] = 0 /\ m \in DOMAIN seed THEN seed[m] ELSE got[m]]
  <2>1. /\ Saves(out) /\ job' = Acking("history", Readable(out))
        /\ crossed' = crossed \union {m \in DOMAIN got \intersect DOMAIN seed : got[m] = 0 /\ seed[m] # rows[m]}
        /\ UNCHANGED <<slot, gaveUp>>
    BY <1>17 DEF KeepHistory, Saves, Acked, server
  <2>2. DOMAIN out \subseteq DOMAIN rows /\ Readable(out) \subseteq DOMAIN out
    BY <1>a, <1>c
  <2>3. ASSUME NEW m \in Readable(out) PROVE m \in crossed' \/ out[m] = rows[m]
    <3>1. m \in DOMAIN got /\ out[m] > 0
      BY <2>3 DEF Readable
    <3>2. CASE got[m] = 0 /\ m \in DOMAIN seed
      BY <2>1, <3>1, <3>2
    <3>3. CASE ~(got[m] = 0 /\ m \in DOMAIN seed)
      <4>1. out[m] = got[m]
        BY <3>1, <3>3
      <4>2. m \in Readable(got)
        BY <3>1, <4>1 DEF Readable
      <4> QED
        BY <1>13, <1>a, <4>1, <4>2
    <3> QED
      BY <3>2, <3>3
  <2>4. crossed \subseteq crossed'
    BY <2>1
  <2> HIDE DEF out, got, seed
  <2> QED
    BY <1>a, <2>1, <2>2, <2>3, <2>4, FreshKeep
<1>18. CASE BreakLive \/ CancelHistory
  <2>1. /\ \E k \in Kind : job' = [job EXCEPT ![k] = Idle]
        /\ UNCHANGED <<slot, cache, gaveUp, unsaved, crossed>>
    BY <1>18 DEF BreakLive, CancelHistory, Finish, Kind, server, client, marks
  <2>2. \A k \in Kind : job'[k] = job[k] \/ job'[k] = Idle
    BY <1>a, <2>1
  <2> QED
    BY <1>1, <1>b, <2>1, <2>2
<1>19. ASSUME NEW k \in Kind, job' = AfterAck(k)
       PROVE  /\ DOMAIN job'[k].rows = {} /\ DOMAIN job'[k].got = {}
              /\ \A l \in Kind \ {k} : job'[l] = job[l]
  BY <1>19, <1>a, <1>b DEF AfterAck
<1>20. ASSUME NEW k \in Kind, AckLost(k) PROVE Fresh'
  <2>1. job' = AfterAck(k) /\ UNCHANGED <<slot, cache, gaveUp, unsaved, crossed>>
    BY <1>20 DEF AckLost, server, client, marks
  <2>2. \A l \in Kind : job'[l] = job[l] \/ (DOMAIN job'[l].rows = {} /\ DOMAIN job'[l].got = {})
    BY <1>19, <2>1
  <2> QED
    BY <1>1, <2>1, <2>2
<1>21. ASSUME NEW k \in Kind, Acknowledge(k) PROVE Fresh'
  <2>1. /\ job' = AfterAck(k) /\ job[k].at = "ack"
        /\ slot' = [m \in DOMAIN slot |->
                      IF m \in DOMAIN job[k].rows THEN [slot[m] EXCEPT !.delivered = TRUE] ELSE slot[m]]
        /\ UNCHANGED <<cache, gaveUp, unsaved, crossed>>
    BY <1>21 DEF Acknowledge, At, client, marks
  <2>2. /\ DOMAIN job'[k].rows = {} /\ DOMAIN job'[k].got = {}
        /\ \A l \in Kind \ {k} : job'[l] = job[l]
    BY <1>19, <2>1
  <2>3. /\ DOMAIN slot' = DOMAIN slot
        /\ \A m \in DOMAIN slot : slot'[m].ver = slot[m].ver
        /\ \A m \in DOMAIN slot : m \notin DOMAIN job[k].rows => slot'[m] = slot[m]
    <3>1. \A m \in DOMAIN slot : slot[m] = [ver |-> slot[m].ver, delivered |-> slot[m].delivered]
      BY DEF Values, Versioned
    <3> QED
      BY <2>1, <3>1
  <2>4. Held' /\ ReadAsFetched'
    BY <2>1, <2>2, <2>3 DEF Fresh, Held, ReadAsFetched
  <2>5. \A m \in DOMAIN slot : AckedNow(m)' => AckedNow(m)
    BY <2>1, <2>2, <2>3 DEF AckedNow
  <2>6. Current'
    BY <2>1, <2>3, <2>5 DEF Fresh, Current, Kept
  <2> QED
    BY <2>4, <2>6 DEF Fresh
<1>22. CASE ForeignMessage \/ ForeignPass
  BY <1>1, <1>22 DEF ForeignMessage, ForeignPass, server, client, marks
<1> QED
  BY <1>2, <1>3, <1>4, <1>5, <1>6, <1>7, <1>8, <1>9, <1>10, <1>11, <1>12, <1>14, <1>15,
     <1>16, <1>17, <1>18, <1>20, <1>21, <1>22 DEF Next, Read, Keep

LEMMA AllHolds == Spec => [](Inv /\ Values /\ Marked /\ Fresh)
<1>1. Init => Marked /\ Fresh
  <2> SUFFICES ASSUME Init PROVE Marked /\ Fresh
    OBVIOUS
  <2>1. DOMAIN Idle.rows = {} /\ DOMAIN Idle.got = {} /\ Idle.at = "idle"
    BY NewReader DEF Idle, Empty
  <2>2. /\ job = [k \in Kind |-> Idle] /\ DOMAIN slot = {} /\ events = <<>>
        /\ foreign = FALSE /\ absorbed = {} /\ unsaved = {} /\ crossed = {}
    BY DEF Init
  <2>3. DOMAIN events = {}
    BY <2>2
  <2>4. Marked
    BY <2>2, <2>3 DEF Marked
  <2>5. Fresh
    BY <2>1, <2>2 DEF Fresh, Held, ReadAsFetched, Current
  <2> QED
    BY <2>4, <2>5
<1>2. Inv /\ Values /\ Marked /\ Fresh /\ [Next]_vars => Marked' /\ Fresh'
  BY MarkedStep, FreshStep
<1> QED
  BY <1>1, <1>2, ValuesHold, PTL DEF Spec

\* Whatever the readers fetch, fail and race for, an acknowledged message is in the
\* cache, unless the live pull gave it up or its last write failed: every reader tries
\* to write before it acknowledges, and acknowledges no row it did not try to write.
\* The text is that of the acknowledged version, unless an edit crossed a reader.
THEOREM AckedAreDurable == Spec => []AckedIsDurable
<1>1. Inv /\ Fresh => AckedIsDurable
  BY DEF Inv, AckedIsCached, Safe, Fresh, Current, AckedNow, Kept, AckedIsDurable
<1> QED
  BY <1>1, AllHolds, PTL

\* Slots hold a version that was sent, texts and readers are of messages that
\* were sent, and a count of failures stays below DECRYPT_RETRY_CAP: the message
\* that reaches it leaves the map as it is given up.
THEOREM TypeCorrect == Spec => []TypeOK
<1>1. Inv /\ Values /\ Marked => TypeOK
  <2> SUFFICES ASSUME Inv, Values, Marked PROVE TypeOK
    OBVIOUS
  <2>1. \A m \in DOMAIN slot : slot[m] \in [ver : Text, delivered : BOOLEAN]
    <3>1. 1..(bounds.edits + 1) \subseteq Text
      <4>1. /\ MaxEdits \in Nat /\ bounds.edits \in 0..MaxEdits
        BY DeliveryAssumption DEF Values, Bounds, DeliveryAssumption
      <4> QED
        BY <4>1 DEF Text
    <3>2. \A m \in DOMAIN slot : slot[m] \in [ver : 1..(bounds.edits + 1), delivered : BOOLEAN]
      BY DEF Values, Versioned
    <3> QED
      BY <3>1, <3>2
  <2>2. \A k \in Kind : /\ job[k].at \in {"idle", "fetch", "decrypt", "ack"}
                        /\ DOMAIN job[k].got \subseteq DOMAIN job[k].rows
    BY DEF Values, GoodJob, Inv, Shapes
  <2>3. \A k \in Kind : IsTexts(job[k].rows, Text) /\ IsTexts(job[k].got, Text \union {0})
    BY GotTexts
  <2>4. DOMAIN slot \subseteq 1..sent /\ deletedIds \subseteq told
    BY DEF Inv, NoSlot, Filtered
  <2> QED
    BY <2>1, <2>2, <2>3, <2>4 DEF Values, Marked, At, TypeOK
<1> QED
  BY <1>1, AllHolds, PTL

(***************************************************************************)
(* The view is monotonic.                                                  *)
(***************************************************************************)
LEMMA ViewStep ==
  ASSUME Inv, Values, [Next]_vars, NEW m \in Readable(view) \intersect DOMAIN view'
  PROVE  view'[m] > 0
<1>a. m \in DOMAIN view /\ view[m] > 0 /\ m \in DOMAIN view'
  BY DEF Readable
<1>b. IsTexts(view, Text \union {0}) /\ IsTexts(cache, Text)
  BY DEF Values
<1>c. \A n \in Text \union {0} : n # 0 => n > 0
  BY DEF Text
<1>1. ASSUME UNCHANGED view PROVE view'[m] > 0
  BY <1>1, <1>a
<1>2. ASSUME NEW texts, view' = Appended(texts) PROVE view'[m] > 0
  <2>1. view[m] # 0
    BY <1>a
  <2> QED
    BY <1>2, <1>a, <2>1 DEF Appended
<1>3. ASSUME NEW texts, IsTexts(texts, Text \union {0}), view' = Merged(texts)
      PROVE  view'[m] > 0
  <2>1. m \in DOMAIN texts /\ texts[m] \in Text \union {0}
    BY <1>3, <1>a DEF Merged, IsTexts
  <2>2. CASE texts[m] = 0
    BY <1>3, <1>a, <2>1, <2>2 DEF Merged
  <2>3. CASE texts[m] # 0
    <3>1. view'[m] = texts[m]
      BY <1>3, <2>1, <2>3 DEF Merged
    <3> QED
      BY <1>c, <2>1, <2>3, <3>1
  <2> QED
    BY <2>2, <2>3
<1>4. CASE UNCHANGED vars
  BY <1>1, <1>4 DEF vars, client, flags, marks
<1>5. CASE Send \/ \E x \in 1..Msgs : Edit(x) \/ Delete(x)
  BY <1>1, <1>5 DEF Send, Edit, Delete, client, flags, marks
<1>6. CASE Open
  <2>1. view' = cache /\ m \in DOMAIN cache /\ cache[m] \in Text
    BY <1>6, <1>a, <1>b DEF Open, IsTexts
  <2> QED
    BY <2>1 DEF Text
<1>7. CASE Switch \/ Reload
  BY <1>7, <1>a DEF Switch, Reload, Empty
<1>8. CASE Reconnect
  BY <1>1, <1>8 DEF Reconnect, client, flags, marks
<1>9. CASE HandleEvent
  <2> DEFINE e == Head(events)
  <2>1. OnMessage(e) \/ OnEdited(e) \/ OnDeleted(e)
    BY <1>9 DEF HandleEvent
  <2> HIDE DEF e
  <2>2. view' = view \/ view' = Restrict(view, DOMAIN view \ {e.m})
    BY <2>1 DEF OnMessage, OnEdited, OnDeleted
  <2> QED
    BY <1>a, <2>2 DEF Restrict
<1>10. ASSUME NEW k \in Kind, Read(k) \/ AckLost(k) PROVE view'[m] > 0
  BY <1>1, <1>10 DEF Read, Fetch, Acknowledge, AckLost, client, flags, marks
<1>11. ASSUME NEW x, NEW v, Decrypt(x, v) PROVE view'[m] > 0
  BY <1>1, <1>11 DEF Decrypt, client, flags, marks
<1>12. CASE KeepSync \/ KeepLive
  <2>1. view' = view \/ \E texts : view' = Appended(texts)
    BY <1>12 DEF KeepSync, KeepLive
  <2> QED
    BY <1>1, <1>2, <2>1
<1>13. CASE BreakLive \/ CancelHistory
  BY <1>1, <1>13 DEF BreakLive, CancelHistory, client, flags, marks
<1>14. CASE KeepEdit
  <2>1. view' = [x \in DOMAIN view |-> IF x \in Readable(job["edit"].got) THEN job["edit"].got[x] ELSE view[x]]
    BY <1>14 DEF KeepEdit
  <2>2. m \in Readable(job["edit"].got) => job["edit"].got[m] > 0
    BY DEF Readable
  <2> QED
    BY <1>a, <2>1, <2>2
<1>15. CASE KeepHistory
  <2> DEFINE got == job["history"].got
             seed == job["history"].seed
             out == [x \in DOMAIN got |-> IF got[x] = 0 /\ x \in DOMAIN seed THEN seed[x] ELSE got[x]]
  <2>1. view' = Merged(out)
    BY <1>15 DEF KeepHistory
  <2>2. IsTexts(got, Text \union {0})
    BY GotTexts DEF Kind
  <2>3. \A x \in DOMAIN seed : seed[x] \in Text \union {0}
    BY DEF Values, GoodJob, Kind
  <2>4. \A x \in DOMAIN got : out[x] \in {got[x]} \/ (x \in DOMAIN seed /\ out[x] = seed[x])
    OBVIOUS
  <2>5. DOMAIN out = DOMAIN got
    OBVIOUS
  <2> HIDE DEF out, got, seed
  <2>6. IsTexts(out, Text \union {0})
    BY <2>2, <2>3, <2>4, <2>5 DEF IsTexts
  <2> QED
    BY <1>3, <2>1, <2>6
<1>16. CASE ForeignMessage \/ ForeignPass
  BY <1>1, <1>16 DEF ForeignMessage, ForeignPass, client
<1> QED
  BY <1>4, <1>5, <1>6, <1>7, <1>8, <1>9, <1>10, <1>11, <1>12, <1>13, <1>14, <1>15, <1>16 DEF Next, Keep

\* Whichever reader of whatever message comes second, for any number of edits,
\* switches and reloads: a text the view shows is not replaced by a placeholder.
THEOREM GoodTextsStay == Spec => GoodStaysGood
<1>1. Inv /\ Values /\ [Next]_vars
        => [\A m \in Readable(view) \intersect DOMAIN view' : view'[m] > 0]_vars
  BY ViewStep
<1> QED
  BY <1>1, ValuesHold, PTL DEF Spec, GoodStaysGood

(***************************************************************************)
(* Nothing that was opened is dropped, while the chat stays open.          *)
(***************************************************************************)
Steady == MaxSwitches = 0 /\ MaxReloads = 0 /\ MaxEdits = 0

\* Readers run only on the open chat, and what the ratchet has opened of a
\* message that was not deleted is in a reader's hands or in the cache.
Landed ==
    /\ bounds.switches = 0 /\ bounds.reloads = 0
    /\ ~open => \A k \in Kind : At(k, "idle")
    /\ \A m \in DOMAIN slot : LET v == slot[m].ver IN
          <<m, v>> \in used => InHand(m, v) \/ m \in DOMAIN cache \union unsaved

LEMMA LandedStep ==
  ASSUME Steady, Inv, Values, Landed, [Next]_vars
  PROVE  Landed'
<1>0. Inv' /\ Values'
  BY InvStep, ValuesStep
<1>a. /\ sent \in Nat /\ DOMAIN job = Kind /\ DOMAIN slot \subseteq 1..sent
      /\ told \intersect DOMAIN slot = {} /\ deletedIds \subseteq told
      /\ MaxSwitches = 0 /\ MaxReloads = 0 /\ MaxEdits = 0
  BY DEF Inv, Shapes, NoSlot, Doomed, Filtered, Steady
<1>b. /\ bounds \in Bounds /\ open \in BOOLEAN
      /\ used \subseteq (1..sent) \X Text
      /\ \A m \in DOMAIN slot : slot[m].ver = 1
  <2>1. \A m \in DOMAIN slot : slot[m].ver \in 1..(bounds.edits + 1)
    BY DEF Values, Versioned
  <2>2. bounds.edits = 0
    BY <1>a DEF Values, Bounds
  <2> QED
    BY <2>1, <2>2 DEF Values
<1>c. /\ bounds.switches = 0 /\ bounds.reloads = 0
      /\ ~open => \A k \in Kind : job[k].at = "idle"
      /\ \A m \in DOMAIN slot : <<m, 1>> \in used =>
            \/ \E k \in Kind : job[k].at = "decrypt" /\ m \in DOMAIN job[k].got /\ job[k].got[m] = 1
            \/ m \in DOMAIN cache \union unsaved
  BY <1>b DEF Landed, InHand, At
<1>v. \A m \in DOMAIN slot' : slot'[m].ver = 1
  <2>1. \A m \in DOMAIN slot' : slot'[m].ver \in 1..(bounds'.edits + 1)
    BY <1>0 DEF Values, Versioned
  <2>2. bounds'.edits = 0
    BY <1>0, <1>a DEF Values, Bounds
  <2> QED
    BY <2>1, <2>2
<1>d. ASSUME bounds'.switches = 0, bounds'.reloads = 0,
             ~open' => \A k \in Kind : job'[k].at = "idle",
             \A m \in DOMAIN slot' : <<m, 1>> \in used' =>
                \/ \E k \in Kind : job'[k].at = "decrypt" /\ m \in DOMAIN job'[k].got /\ job'[k].got[m] = 1
                \/ m \in DOMAIN cache' \union unsaved'
      PROVE  Landed'
  BY <1>d, <1>v DEF Landed, InHand, At
<1>1. ASSUME UNCHANGED <<open, used>>, bounds'.switches = 0, bounds'.reloads = 0,
             DOMAIN slot' \subseteq DOMAIN slot, unsaved \subseteq unsaved',
             DOMAIN cache \intersect DOMAIN slot \subseteq DOMAIN cache',
             \A k \in Kind : \/ job'[k] = job[k]
                             \/ open /\ job[k].at # "decrypt"
                             \/ job'[k].at = "idle" /\ job[k].at # "decrypt"
      PROVE  Landed'
  <2>1. \A m \in DOMAIN slot' : <<m, 1>> \in used' =>
                \/ \E k \in Kind : job'[k].at = "decrypt" /\ m \in DOMAIN job'[k].got /\ job'[k].got[m] = 1
                \/ m \in DOMAIN cache' \union unsaved'
    BY <1>1, <1>c
  <2>2. ~open' => \A k \in Kind : job'[k].at = "idle"
    BY <1>1, <1>c
  <2> QED
    BY <1>1, <1>d, <2>1, <2>2
<1>2. CASE UNCHANGED vars
  BY <1>1, <1>2, <1>c DEF vars, server, client, control, flags, marks
<1>3. CASE Send
  <2>1. /\ sent' = sent + 1
        /\ DOMAIN slot' = DOMAIN slot \union {sent'}
        /\ UNCHANGED <<used, cache, unsaved, open, job, bounds>>
    BY <1>3 DEF Send, Update, client, control, flags, marks
  <2>2. <<sent', 1>> \notin used
    <3>1. sent' \notin 1..sent
      BY <1>a, <2>1
    <3> QED
      BY <1>b, <3>1
  <2>3. \A m \in DOMAIN slot' : <<m, 1>> \in used' => m \in DOMAIN slot /\ <<m, 1>> \in used
    BY <2>1, <2>2
  <2> QED
    BY <1>c, <1>d, <2>1, <2>3
<1>4. ASSUME NEW m \in 1..Msgs, Edit(m) PROVE Landed'
  BY <1>4, <1>a, <1>b DEF Edit, Bounds
<1>5. ASSUME NEW m \in 1..Msgs, Delete(m) PROVE Landed'
  <2>1. /\ DOMAIN slot' \subseteq DOMAIN slot
        /\ bounds' = [bounds EXCEPT !["deletes"] = @ + 1]
        /\ UNCHANGED <<used, cache, unsaved, open, job>>
    BY <1>5 DEF Delete, Count, Restrict, client, control, flags, marks
  <2>2. bounds'.switches = 0 /\ bounds'.reloads = 0
    BY <1>b, <1>c, <2>1 DEF Bounds
  <2> QED
    BY <1>1, <2>1, <2>2
<1>6. CASE Open
  <2>1. /\ job' = [job EXCEPT !["history"] = Start(cache), !["sync"] = Start(Empty)]
        /\ open' = TRUE /\ ~open
        /\ UNCHANGED <<slot, used, bounds, cache, unsaved>>
    BY <1>6 DEF Open, server, flags, marks
  <2>2. \A k \in Kind : job[k].at # "decrypt"
    BY <1>c, <2>1
  <2> QED
    BY <1>c, <1>d, <2>1, <2>2
<1>7. CASE Switch \/ Reload
  BY <1>7, <1>a, <1>c DEF Switch, Reload
<1>8. CASE Reconnect
  <2>1. /\ open /\ job["sync"].at = "idle"
        /\ job' = [job EXCEPT !["sync"] = Start(Empty)]
        /\ bounds' = [bounds EXCEPT !["drops"] = @ + 1]
        /\ UNCHANGED <<slot, used, cache, unsaved, open>>
    BY <1>8 DEF Reconnect, At, Count, server, client, flags, marks
  <2>2. bounds'.switches = 0 /\ bounds'.reloads = 0
    BY <1>b, <1>c, <2>1 DEF Bounds
  <2>3. \A k \in Kind : job'[k] = job[k] \/ (open /\ job[k].at # "decrypt")
    BY <1>a, <2>1
  <2> QED
    BY <1>1, <2>1, <2>2, <2>3
<1>9. CASE HandleEvent
  <2> DEFINE e == Head(events)
  <2>1. /\ OnMessage(e) \/ OnEdited(e) \/ OnDeleted(e)
        /\ UNCHANGED <<slot, used, bounds, open, unsaved>>
    BY <1>9 DEF HandleEvent, server, flags, marks
  <2> HIDE DEF e
  <2>2. CASE OnMessage(e)
    <3>1. \/ UNCHANGED job
          \/ open /\ job["live"].at = "idle" /\ job' = [job EXCEPT !["live"] = Start(Empty)]
      BY <2>2 DEF OnMessage, At
    <3>2. \A k \in Kind : job'[k] = job[k] \/ (open /\ job[k].at # "decrypt")
      BY <1>a, <3>1
    <3>3. UNCHANGED cache
      BY <2>2 DEF OnMessage
    <3> QED
      BY <1>1, <1>c, <2>1, <3>2, <3>3
  <2>3. CASE OnEdited(e)
    <3>1. \/ UNCHANGED job
          \/ open /\ job["edit"].at = "idle" /\ \E s : job' = [job EXCEPT !["edit"] = s]
      BY <2>3 DEF OnEdited, At
    <3>2. \A k \in Kind : job'[k] = job[k] \/ (open /\ job[k].at # "decrypt")
      BY <1>a, <3>1
    <3>3. UNCHANGED cache
      BY <2>3 DEF OnEdited
    <3> QED
      BY <1>1, <1>c, <2>1, <3>2, <3>3
  <2>4. CASE OnDeleted(e)
    <3>1. /\ DOMAIN cache' = DOMAIN cache \ {e.m} /\ told' = told \union {e.m} /\ UNCHANGED job
      BY <2>4 DEF OnDeleted, Restrict
    <3>2. told' \intersect DOMAIN slot' = {}
      BY <1>0 DEF Inv, NoSlot, Doomed
    <3>3. DOMAIN cache \intersect DOMAIN slot \subseteq DOMAIN cache'
      BY <2>1, <3>1, <3>2
    <3> QED
      BY <1>1, <1>c, <2>1, <3>1, <3>3
  <2> QED
    BY <2>1, <2>2, <2>3, <2>4
<1>10. ASSUME NEW k \in Kind, Fetch(k) PROVE Landed'
  <2>1. /\ UNCHANGED <<slot, used, bounds, cache, unsaved, open>> /\ job[k].at = "fetch"
        /\ \E j : job' = [job EXCEPT ![k] = j]
    BY <1>10 DEF Fetch, At, server, client, flags, marks
  <2>2. open
    BY <1>b, <1>c, <2>1
  <2>3. \A l \in Kind : job'[l] = job[l] \/ (open /\ job[l].at # "decrypt")
    BY <1>a, <2>1, <2>2
  <2> QED
    BY <1>1, <1>c, <2>1, <2>3
<1>11. ASSUME NEW m \in 1..Msgs, NEW v \in 1..(MaxEdits + 1), Decrypt(m, v) PROVE Landed'
  <2>1. PICK fault \in {n \in {0, 1} : bounds.faults + n <= MaxFaults} :
          LET text == IF <<m, v>> \in used \/ fault = 1 THEN 0 ELSE v
          IN  /\ used' = IF text = 0 THEN used ELSE used \union {<<m, v>>}
              /\ job' = [k \in Kind |-> IF k \in Waiting(m, v)
                            THEN [job[k] EXCEPT !.got = Update(@, [x \in {m} |-> text])]
                            ELSE job[k]]
              /\ bounds' = [bounds EXCEPT !.faults = @ + fault]
    BY <1>11 DEF Decrypt
  <2> DEFINE text == IF <<m, v>> \in used \/ fault = 1 THEN 0 ELSE v
  <2>2. /\ text = 0 => used' = used
        /\ text # 0 => used' = used \union {<<m, v>>} /\ text = v
        /\ job' = [k \in Kind |-> IF k \in Waiting(m, v)
                            THEN [job[k] EXCEPT !.got = Update(@, [x \in {m} |-> text])]
                            ELSE job[k]]
    BY <2>1
  <2>3. v = 1
    BY <1>a
  <2> HIDE DEF text
  <2>4. UNCHANGED <<slot, cache, unsaved, open>>
    BY <1>11 DEF Decrypt, server, client, flags, marks
  <2>5. bounds'.switches = 0 /\ bounds'.reloads = 0
    BY <1>b, <1>c, <2>1 DEF Bounds
  <2>6. ASSUME NEW k \in Kind
        PROVE  /\ job'[k].at = job[k].at
               /\ \A x \in DOMAIN job[k].got : x \in DOMAIN job'[k].got /\ job'[k].got[x] = job[k].got[x]
               /\ k \in Waiting(m, v) => m \in DOMAIN job'[k].got /\ job'[k].got[m] = text
    <3>1. CASE k \in Waiting(m, v)
      <4> DEFINE g == Update(job[k].got, [x \in {m} |-> text])
      <4>1. job'[k] = [job[k] EXCEPT !.got = g]
        BY <2>2, <3>1
      <4>2. job[k] = [at |-> job[k].at, rows |-> job[k].rows, got |-> job[k].got, seed |-> job[k].seed]
        BY DEF Inv, Shapes, IsJob
      <4>3. m \notin DOMAIN job[k].got
        BY <3>1 DEF Waiting
      <4>4. /\ DOMAIN g = DOMAIN job[k].got \union {m} /\ g[m] = text
            /\ \A x \in DOMAIN job[k].got : g[x] = job[k].got[x]
        BY <4>3 DEF Update
      <4> HIDE DEF g
      <4>5. job'[k] = [at |-> job[k].at, rows |-> job[k].rows, got |-> g, seed |-> job[k].seed]
        BY <4>1, <4>2
      <4>6. job'[k].at = job[k].at /\ job'[k].got = g
        BY <4>5
      <4> QED
        BY <4>4, <4>6
    <3>2. CASE k \notin Waiting(m, v)
      BY <2>2, <3>2
    <3> QED
      BY <3>1, <3>2
  <2>7. PICK w \in Kind : w \in Waiting(m, v) /\ job[w].at = "decrypt"
    BY <1>11 DEF Decrypt, Waiting, At
  <2>8. ASSUME NEW x \in DOMAIN slot', <<x, 1>> \in used'
        PROVE  \/ \E k \in Kind : job'[k].at = "decrypt" /\ x \in DOMAIN job'[k].got /\ job'[k].got[x] = 1
               \/ x \in DOMAIN cache' \union unsaved'
    <3>1. CASE <<x, 1>> \in used
      BY <1>c, <2>4, <2>6, <3>1
    <3>2. CASE <<x, 1>> \notin used
      <4>1. x = m /\ text = 1
        BY <2>2, <2>3, <2>8, <3>2
      <4> QED
        BY <2>6, <2>7, <4>1
    <3> QED
      BY <3>1, <3>2
  <2> QED
    BY <1>c, <1>d, <2>4, <2>5, <2>6, <2>8
\* The reader k writes what it has read.
<1>12. ASSUME NEW k \in Kind, NEW texts, job[k].at = "decrypt",
              UNCHANGED <<slot, used, open>>, Saves(texts), bounds'.switches = 0, bounds'.reloads = 0,
              \A m \in DOMAIN job[k].got : job[k].got[m] = 1 => m \in DOMAIN texts /\ texts[m] = 1,
              \E j : job' = [job EXCEPT ![k] = j]
       PROVE  Landed'
  <2>1. /\ DOMAIN cache \subseteq DOMAIN cache' /\ unsaved \subseteq DOMAIN cache' \union unsaved'
        /\ Writable(texts) \subseteq DOMAIN cache' \union unsaved'
    <3>1. PICK lost \in SUBSET Writable(texts) :
             cache' = Cached(texts, lost) /\ unsaved' = (unsaved \ Writable(texts)) \union lost
      BY <1>12, SavedTexts
    <3>2. DOMAIN cache' = DOMAIN cache \union (Writable(texts) \ lost)
      BY <3>1, CachedTexts
    <3> QED
      BY <3>1, <3>2
  <2>2. open
    BY <1>12, <1>b, <1>c
  <2>3. \A l \in Kind \ {k} : job'[l] = job[l]
    BY <1>12, <1>a
  <2>4. ASSUME NEW m \in DOMAIN slot', <<m, 1>> \in used'
        PROVE  \/ \E l \in Kind : job'[l].at = "decrypt" /\ m \in DOMAIN job'[l].got /\ job'[l].got[m] = 1
               \/ m \in DOMAIN cache' \union unsaved'
    <3>1. CASE m \in DOMAIN cache \union unsaved
      BY <2>1, <3>1
    <3>2. ASSUME NEW l \in Kind, job[l].at = "decrypt", m \in DOMAIN job[l].got, job[l].got[m] = 1
          PROVE  \/ \E i \in Kind : job'[i].at = "decrypt" /\ m \in DOMAIN job'[i].got /\ job'[i].got[m] = 1
                 \/ m \in DOMAIN cache' \union unsaved'
      <4>1. CASE l = k
        <5>1. m \in Readable(texts)
          BY <1>12, <3>2, <4>1 DEF Readable
        <5>2. m \notin deletedIds
          BY <1>12, <1>a, <2>4
        <5> QED
          BY <2>1, <5>1, <5>2 DEF Writable
      <4>2. CASE l # k
        BY <2>3, <3>2, <4>2
      <4> QED
        BY <4>1, <4>2
    <3> QED
      BY <1>12, <1>c, <2>4, <3>1, <3>2
  <2> QED
    BY <1>12, <1>c, <1>d, <2>2, <2>4
<1>13. ASSUME NEW texts, sent \in Nat, DOMAIN texts \subseteq 1..sent, Saves(texts)
       PROVE  bounds'.switches = 0 /\ bounds'.reloads = 0
  BY <1>13, <1>b, <1>c DEF Saves, SaveEach, SaveAll, Save, Bounds
<1>14. CASE KeepSync \/ KeepLive \/ KeepEdit
  <2>1. PICK k \in {"sync", "live", "edit"} :
        /\ Saves(job[k].got) /\ job[k].at = "decrypt" /\ \E j : job' = [job EXCEPT ![k] = j]
        /\ UNCHANGED <<slot, used, open>>
    BY <1>14 DEF KeepSync, KeepLive, KeepEdit, Saves, Settled, At, Acking, server
  <2>2. DOMAIN job[k].got \subseteq 1..sent /\ k \in Kind
    BY DEF Inv, Shapes, Kind
  <2> QED
    BY <1>12, <1>13, <1>a, <2>1, <2>2
<1>16. CASE KeepHistory
  <2> DEFINE got == job["history"].got
             seed == job["history"].seed
             out == [m \in DOMAIN got |-> IF got[m] = 0 /\ m \in DOMAIN seed THEN seed[m] ELSE got[m]]
  <2>1. /\ job["history"].at = "decrypt" /\ UNCHANGED <<slot, used, open>>
        /\ Saves(out) /\ \E j : job' = [job EXCEPT !["history"] = j]
    BY <1>16 DEF KeepHistory, Saves, Settled, At, Acking, server
  <2>2. \A m \in DOMAIN got : got[m] = 1 => m \in DOMAIN out /\ out[m] = 1
    OBVIOUS
  <2>3. DOMAIN out \subseteq 1..sent
    BY DEF Inv, Shapes, Kind
  <2> HIDE DEF out
  <2> QED
    BY <1>12, <1>13, <1>a, <2>1, <2>2, <2>3 DEF Kind
<1>17. CASE BreakLive \/ CancelHistory
  BY <1>17, <1>b, <1>c DEF BreakLive, CancelHistory, Settled, At, Kind
<1>18. ASSUME NEW k \in Kind, Acknowledge(k) \/ AckLost(k) PROVE Landed'
  <2>1. /\ job[k].at = "ack" /\ DOMAIN slot' = DOMAIN slot
        /\ UNCHANGED <<used, cache, unsaved, open>> /\ \E j : job' = [job EXCEPT ![k] = j]
        /\ bounds' = bounds \/ bounds' = [bounds EXCEPT !["drops"] = @ + 1]
    BY <1>18 DEF Acknowledge, AckLost, AfterAck, At, Count, server, client, flags, marks
  <2>2. open
    BY <1>b, <1>c, <2>1
  <2>3. \A l \in Kind : job'[l] = job[l] \/ (open /\ job[l].at # "decrypt")
    BY <1>a, <2>1, <2>2
  <2>4. bounds'.switches = 0 /\ bounds'.reloads = 0
    BY <1>b, <1>c, <2>1 DEF Bounds
  <2> QED
    BY <1>1, <2>1, <2>3, <2>4
<1>19. CASE ForeignMessage \/ ForeignPass
  <2>1. /\ UNCHANGED <<slot, used, cache, unsaved, open, job>>
        /\ bounds' = bounds \/ bounds' = [bounds EXCEPT !["foreign"] = @ + 1]
    BY <1>19 DEF ForeignMessage, ForeignPass, Count, server, client, marks
  <2>2. bounds'.switches = 0 /\ bounds'.reloads = 0
    BY <1>b, <1>c, <2>1 DEF Bounds
  <2> QED
    BY <1>1, <2>1, <2>2
<1> QED
  BY <1>2, <1>3, <1>4, <1>5, <1>6, <1>7, <1>8, <1>9, <1>10, <1>11, <1>14,
     <1>16, <1>17, <1>18, <1>19 DEF Next, Read, Keep

\* As long as the chat stays open, the tab is not reloaded and no message is
\* edited, whatever races, drops or is deleted: a text the ratchet has opened is in
\* the hands of a reader or in the cache, unless its write into the cache failed.
\* With one switch of the chat, or one edit, that is not so.
THEOREM NothingIsLost ==
  ASSUME MaxSwitches = 0, MaxReloads = 0, MaxEdits = 0
  PROVE  Spec => []NothingLost
<1>1. Init => Landed
  <2> SUFFICES ASSUME Init PROVE Landed
    OBVIOUS
  <2>1. /\ job = [k \in Kind |-> Idle] /\ DOMAIN slot = {}
        /\ bounds.switches = 0 /\ bounds.reloads = 0
    BY DEF Init
  <2>2. Idle.at = "idle"
    BY DEF Idle, Reader
  <2> QED
    BY <2>1, <2>2 DEF Landed, At
<1>2. Inv /\ Values /\ Landed /\ [Next]_vars => Landed'
  BY LandedStep DEF Steady
<1>3. Inv /\ Values /\ Landed => NothingLost
  <2> SUFFICES ASSUME Inv, Values, Landed PROVE NothingLost
    OBVIOUS
  <2>1. \A m \in DOMAIN cache : cache[m] = 1
    BY DEF Values, IsTexts, Text
  <2>2. \A m \in DOMAIN slot : slot[m].ver = 1
    <3>1. \A m \in DOMAIN slot : slot[m].ver \in 1..(bounds.edits + 1)
      BY DEF Values, Versioned
    <3>2. bounds.edits = 0
      BY DEF Values, Bounds
    <3> QED
      BY <3>1, <3>2
  <2> QED
    BY <2>1, <2>2 DEF Landed, NothingLost, Kept
<1> QED
  BY <1>1, <1>2, <1>3, ValuesHold, PTL DEF Spec
=============================================================================
