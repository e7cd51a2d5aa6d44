------------------------- MODULE KeyDirectoryProofs -------------------------
(***************************************************************************)
(* What KeyDirectory guarantees for any number of tabs, requesters and     *)
(* batches: no prekey is handed out twice; and for a device whose vault    *)
(* one tab unlocks, as long as no answer to a publication is lost, that an  *)
(* id stands for one key for ever, that what is advertised can be          *)
(* answered, and that no key seeds two sessions.  Batches are new keys, and *)
(* a batch enters the directory once; its ids are new as well if the last  *)
(* batch was recorded before.                                              *)
(***************************************************************************)
EXTENDS KeyDirectory, FiniteSetTheorems, SequenceTheorems, TLAPS

RowT == [id : Nat, key : Nat]
TabT == [at : {"idle", "start", "store", "count", "insert", "record"}, batch : SUBSET RowT]
Fetch == [by : Requester, otp : SUBSET RowT]

Typed ==
    /\ rows \subseteq RowT
    /\ nextId \in Nat /\ nextKey \in Nat
    /\ tab \in [Tabs -> TabT]
    /\ handed \in Seq(Fetch)

\* A batch that was generated and not inserted yet.
Coming(t) == tab[t].at \in {"store", "count", "insert"}
Keys(rs) == {r.key : r \in rs}
Out == rows \union UNION {handed[i].otp : i \in DOMAIN handed}

\* Keys come in order, and the directory has seen no key of a coming batch.
FreshKeys ==
    /\ \A r \in Out : r.key < nextKey
    /\ \A t \in Tabs : \A r \in tab[t].batch : r.key < nextKey
    /\ \A t \in Tabs : Coming(t) =>
          /\ \A r \in tab[t].batch, s \in Out : r.key # s.key
          /\ \A u \in Tabs \ {t} : Coming(u) =>
                \A r \in tab[t].batch, s \in tab[u].batch : r.key # s.key

\* A row that was handed out has left the pool.
Popped1 == \A i \in DOMAIN handed : handed[i].otp \intersect rows = {}

\* The batch of b ids from a, with the keys from q.
Rows(a, q) == {[id |-> a + k, key |-> q + k] : k \in 0..(OTP_BATCH_SIZE - 1)}

Batches ==
    \A t \in Tabs : tab[t].at \in {"store", "count", "insert", "record"} =>
        \E a, q \in Nat : tab[t].batch = Rows(a, q)

(***************************************************************************)
(* Types.                                                                  *)
(***************************************************************************)
LEMMA BatchBounds ==
  ASSUME NEW a \in Nat, NEW q \in Nat
  PROVE  /\ Rows(a, q) \in SUBSET RowT
         /\ \A r \in Rows(a, q) : r.id \in a..(a + OTP_BATCH_SIZE - 1) /\ r.key \in q..(q + OTP_BATCH_SIZE - 1)
         /\ Max(Ids(Rows(a, q))) = a + OTP_BATCH_SIZE - 1
<1>0. OTP_BATCH_SIZE \in Nat \ {0}
  BY DirectoryAssumption DEF DirectoryAssumption
<1>1. \A r \in Rows(a, q) : /\ r \in RowT
                            /\ r.id \in a..(a + OTP_BATCH_SIZE - 1)
                            /\ r.key \in q..(q + OTP_BATCH_SIZE - 1)
  BY <1>0 DEF Rows, RowT
<1> DEFINE m == a + OTP_BATCH_SIZE - 1
           last == [id |-> m, key |-> q + (OTP_BATCH_SIZE - 1)]
<1>2. last \in Rows(a, q)
  <2>1. OTP_BATCH_SIZE - 1 \in 0..(OTP_BATCH_SIZE - 1)
    BY <1>0
  <2>2. m = a + (OTP_BATCH_SIZE - 1)
    BY <1>0
  <2> QED
    BY <2>1, <2>2 DEF Rows
<1>3. m \in Ids(Rows(a, q)) /\ \A i \in Ids(Rows(a, q)) : i \in Nat /\ i <= m
  <2>1. last.id = m
    OBVIOUS
  <2>2. m \in Ids(Rows(a, q))
    BY <1>2, <2>1 DEF Ids
  <2>3. ASSUME NEW i \in Ids(Rows(a, q))
        PROVE  i \in Nat /\ i <= m
    BY <1>0, <1>1, <2>3 DEF Ids
  <2> QED
    BY <2>2, <2>3
<1>4. Max(Ids(Rows(a, q))) = m
  <2> DEFINE S == Ids(Rows(a, q))
  <2>1. \E x \in S : \A y \in S : x >= y
    BY <1>0, <1>3
  <2>2. Max(S) \in S /\ \A y \in S : Max(S) >= y
    BY <2>1 DEF Max
  <2> QED
    BY <1>0, <1>3, <2>2
<1> QED
  BY <1>1, <1>4

\* What comes after a batch: the id recorded for the next one.
LEMMA BatchEnds ==
  ASSUME NEW a \in Nat, NEW q \in Nat
  PROVE  /\ Max(Ids(Rows(a, q))) + 1 = a + OTP_BATCH_SIZE /\ a + OTP_BATCH_SIZE \in Nat
         /\ \A r \in Rows(a, q) : r.id \in Nat /\ r.id >= a /\ r.id < a + OTP_BATCH_SIZE
<1>1. OTP_BATCH_SIZE \in Nat \ {0}
  BY DirectoryAssumption DEF DirectoryAssumption
<1>2. Max(Ids(Rows(a, q))) = a + OTP_BATCH_SIZE - 1
  BY BatchBounds
<1>3. \A r \in Rows(a, q) : r.id \in a..(a + OTP_BATCH_SIZE - 1)
  BY BatchBounds
<1> QED
  BY <1>1, <1>2, <1>3

LEMMA TabMoves ==
  ASSUME tab \in [Tabs -> TabT], NEW t \in Tabs, NEW p, NEW b, Goto(t, p, b)
  PROVE  /\ tab'[t].at = p /\ tab'[t].batch = b
         /\ \A u \in Tabs \ {t} : tab'[u] = tab[u]
         /\ [at |-> p, batch |-> b] \in TabT => tab' \in [Tabs -> TabT]
BY DEF Goto

LEMMA TypeStep ==
  ASSUME Typed, Batches, [Next]_vars
  PROVE  Typed' /\ Batches'
<1>0. OTP_BATCH_SIZE \in Nat \ {0}
  BY DirectoryAssumption DEF DirectoryAssumption
<1> USE DEF Typed
<1>1. CASE UNCHANGED <<rows, nextId, nextKey, tab, handed>>
  BY <1>1 DEF Batches
<1>2. CASE UNCHANGED vars
  BY <1>1, <1>2 DEF vars, device, server, handshakes
<1>3. ASSUME NEW t \in Tabs, Replenish(t) \/ CloseTab(t)
      PROVE  Typed' /\ Batches'
  <2>1. tab[t] \in TabT
    OBVIOUS
  <2>2. ASSUME NEW p, Goto(t, p, tab[t].batch), At(t, "store") \/ At(t, "count") \/ At(t, "insert"),
               p \in {"store", "count", "insert", "record"},
               UNCHANGED <<nextId, nextKey, handed>>, rows' \in SUBSET RowT
        PROVE  Typed' /\ Batches'
    <3>1. tab' \in [Tabs -> TabT]
      BY <2>1, <2>2, TabMoves DEF TabT
    <3>2. \A u \in Tabs : tab'[u].at \in {"store", "count", "insert", "record"} =>
                            /\ tab[u].at \in {"store", "count", "insert", "record"}
                            /\ tab'[u].batch = tab[u].batch
      <4>1. /\ tab'[t].batch = tab[t].batch
            /\ tab[t].at \in {"store", "count", "insert", "record"}
            /\ \A u \in Tabs \ {t} : tab'[u] = tab[u]
        BY <2>2, TabMoves DEF At
      <4> QED
        BY <4>1
    <3> QED
      BY <2>2, <3>1, <3>2 DEF Batches
  <2>3. ASSUME NEW p \in {"idle", "start"}, Goto(t, p, {}),
               UNCHANGED <<nextKey, rows, handed>>, nextId' \in Nat
        PROVE  Typed' /\ Batches'
    <3>1. tab' \in [Tabs -> TabT]
      BY <2>3, TabMoves DEF TabT
    <3>2. \A u \in Tabs : tab'[u].at \in {"store", "count", "insert", "record"} => tab'[u] = tab[u]
      BY <2>3, TabMoves
    <3> QED
      BY <2>3, <3>1, <3>2 DEF Batches
  <2>4. CASE CheckInventory(t)
    BY <2>3, <2>4 DEF CheckInventory, server, handshakes
  <2>5. CASE CloseTab(t)
    BY <2>3, <2>5 DEF CloseTab, server, handshakes
  <2>6. CASE Generate(t)
    <3>1. Goto(t, "store", Batch) /\ Batch = Rows(nextId, nextKey)
      BY <2>6 DEF Generate, Batch, Rows
    <3>2. tab' \in [Tabs -> TabT]
      BY <3>1, BatchBounds, TabMoves DEF TabT
    <3>3. \A u \in Tabs : /\ u = t => tab'[u].batch = Rows(nextId, nextKey)
                          /\ u # t => tab'[u] = tab[u]
      BY <3>1, TabMoves
    <3>4. ASSUME NEW u \in Tabs, tab'[u].at \in {"store", "count", "insert", "record"}
          PROVE  \E a, q \in Nat : tab'[u].batch = Rows(a, q)
      BY <3>3, <3>4 DEF Batches
    <3>5. Batches'
      BY <3>4 DEF Batches, Rows
    <3> QED
      BY <1>0, <2>6, <3>2, <3>5 DEF Generate, server, handshakes
  <2>7. CASE StoreNext(t)
    <3>1. AfterStore(Left(t)) \in {"count", "store"}
      BY DEF AfterStore
    <3> QED
      BY <2>2, <2>7, <3>1 DEF StoreNext, server, handshakes
  <2>8. CASE CountRows(t)
    BY <2>2, <2>3, <2>8 DEF CountRows, server, handshakes
  <2>9. CASE InsertRows(t)
    BY <2>1, <2>2, <2>9 DEF InsertRows, handshakes, TabT
  <2>10. CASE RecordNextId(t)
    <3>1. PICK a \in Nat, q \in Nat : tab[t].batch = Rows(a, q)
      BY <2>10 DEF RecordNextId, At, Batches
    <3>2. nextId' \in Nat
      <4>1. nextId' = Max(Ids(Rows(a, q))) + 1
        BY <2>10, <3>1 DEF RecordNextId, NextAfter
      <4> QED
        BY <4>1, BatchEnds
    <3> QED
      BY <2>3, <2>10, <3>2 DEF RecordNextId, server, handshakes
  <2> QED
    BY <1>3, <2>4, <2>5, <2>6, <2>7, <2>8, <2>9, <2>10 DEF Replenish
<1>4. ASSUME NEW r \in Requester, FetchBundle(r)
      PROVE  Typed' /\ Batches'
  <2>1. PICK otp : otp \subseteq rows /\ rows' = rows \ otp
                   /\ handed' = Append(handed, [by |-> r, otp |-> otp])
    BY <1>4 DEF FetchBundle, Popped
  <2>2. handed' \in Seq(Fetch)
    BY <2>1 DEF Fetch
  <2> QED
    BY <1>4, <2>1, <2>2 DEF FetchBundle, device, Batches
<1>5. ASSUME NEW r \in Requester, WindowExpires(r)
      PROVE  UNCHANGED <<rows, nextId, nextKey, tab, handed>>
  BY <1>5 DEF WindowExpires, device, handshakes
<1>6. ASSUME NEW i \in DOMAIN handed, Accept(i) \/ Burn(i) \/ Redeliver(i)
      PROVE  UNCHANGED <<rows, nextId, nextKey, tab, handed>>
  BY <1>6 DEF Accept, Burn, Redeliver, device, server
<1> QED
  BY <1>1, <1>2, <1>3, <1>4, <1>5, <1>6 DEF Next

(***************************************************************************)
(* No key is handed out twice, whatever the tabs do.                       *)
(***************************************************************************)
Handed == Typed /\ Batches /\ FreshKeys /\ Popped1 /\ HandedOnce

\* A step that adds no row and generates no batch.
LEMMA QuietStep ==
  ASSUME FreshKeys, Popped1, HandedOnce, UNCHANGED <<rows, handed, nextKey>>,
         \A t \in Tabs : /\ tab'[t].batch \in {tab[t].batch, {}}
                         /\ Coming(t)' => Coming(t) /\ tab'[t].batch = tab[t].batch
  PROVE  FreshKeys' /\ Popped1' /\ HandedOnce'
<1>1. Out' = Out
  BY DEF Out
<1>2. \A t \in Tabs : \A r \in tab'[t].batch : r \in tab[t].batch
  OBVIOUS
<1>3. FreshKeys'
  BY <1>1, <1>2 DEF FreshKeys
<1> QED
  BY <1>3 DEF Popped1, HandedOnce

LEMMA HandedStep ==
  ASSUME Handed, [Next]_vars
  PROVE  Handed'
<1>0. OTP_BATCH_SIZE \in Nat \ {0} /\ Typed' /\ Batches'
  BY TypeStep, DirectoryAssumption DEF Handed, DirectoryAssumption
<1> SUFFICES FreshKeys' /\ Popped1' /\ HandedOnce'
  BY <1>0 DEF Handed
<1> USE DEF Handed
<1>1. ASSUME UNCHANGED <<rows, handed, nextKey, tab>>
      PROVE  FreshKeys' /\ Popped1' /\ HandedOnce'
  BY <1>1, QuietStep DEF Coming
<1>2. CASE UNCHANGED vars
  BY <1>1, <1>2 DEF vars, device, server, handshakes
<1>3. ASSUME NEW t \in Tabs, Replenish(t) \/ CloseTab(t)
      PROVE  FreshKeys' /\ Popped1' /\ HandedOnce'
  <2>1. tab \in [Tabs -> TabT] /\ tab[t] \in TabT
    BY DEF Typed
  <2>2. ASSUME NEW p, NEW b, Goto(t, p, b), UNCHANGED <<rows, handed, nextKey>>,
               \/ b = {} /\ p \in {"idle", "start"}
               \/ b = tab[t].batch /\ Coming(t)
        PROVE  FreshKeys' /\ Popped1' /\ HandedOnce'
    BY <2>1, <2>2, TabMoves, QuietStep DEF Coming
  <2>3. CASE CheckInventory(t)
    BY <2>2, <2>3 DEF CheckInventory, server, handshakes
  <2>4. CASE CloseTab(t)
    BY <2>2, <2>4 DEF CloseTab, server, handshakes
  <2>5. CASE Generate(t)
    <3>1. Goto(t, "store", Batch) /\ Batch = Rows(nextId, nextKey)
      BY <2>5 DEF Generate, Batch, Rows
    <3>2. /\ tab'[t].batch = Rows(nextId, nextKey)
          /\ \A u \in Tabs \ {t} : tab'[u] = tab[u]
      BY <2>1, <3>1, TabMoves
    <3>3. nextKey \in Nat /\ nextId \in Nat /\ nextKey' = nextKey + OTP_BATCH_SIZE
      BY <2>5 DEF Typed, Generate
    <3>4. \A r \in Rows(nextId, nextKey) : r.key \in Nat /\ nextKey <= r.key /\ r.key < nextKey'
      BY <1>0, <3>3, BatchBounds
    <3>5. Out' = Out /\ Out \subseteq RowT
      <4>1. \A i \in DOMAIN handed : handed[i] \in Fetch
        BY DEF Typed
      <4>2. Out \subseteq RowT
        BY <4>1 DEF Out, Typed, Fetch
      <4> QED
        BY <2>5, <4>2 DEF Generate, server, handshakes, Out
    <3>6. \A u \in Tabs : tab[u].batch \subseteq RowT
      BY DEF Typed, TabT
    <3>7. \A r \in Out : r.key < nextKey'
      BY <1>0, <3>3, <3>5 DEF FreshKeys, RowT
    <3>8. \A u \in Tabs : \A r \in tab'[u].batch : r.key < nextKey'
      BY <1>0, <3>2, <3>3, <3>4, <3>6 DEF FreshKeys, RowT
    <3>9. \A r \in Rows(nextId, nextKey) : \A s \in Out : r.key # s.key
      BY <3>3, <3>4, <3>5 DEF FreshKeys, RowT
    <3>10. \A u \in Tabs \ {t} : \A r \in Rows(nextId, nextKey), s \in tab[u].batch : r.key # s.key
      BY <3>3, <3>4, <3>6 DEF FreshKeys, RowT
    <3>11. ASSUME NEW u \in Tabs, Coming(u)'
           PROVE  /\ \A r \in tab'[u].batch, s \in Out' : r.key # s.key
                  /\ \A v \in Tabs \ {u} : Coming(v)' =>
                        \A r \in tab'[u].batch, s \in tab'[v].batch : r.key # s.key
      <4>1. CASE u = t
        BY <3>2, <3>5, <3>9, <3>10, <4>1
      <4>2. CASE u # t
        <5>1. tab'[u] = tab[u] /\ Coming(u)
          BY <3>2, <3>11, <4>2 DEF Coming
        <5>2. \A v \in Tabs \ {u} : Coming(v)' =>
                        \A r \in tab'[u].batch, s \in tab'[v].batch : r.key # s.key
          BY <3>2, <3>10, <4>2, <5>1 DEF FreshKeys, Coming
        <5> QED
          BY <3>5, <5>1, <5>2 DEF FreshKeys
      <4> QED
        BY <4>1, <4>2
    <3>12. FreshKeys'
      <4>1. \A r \in Out' : r.key < nextKey'
        BY <3>5, <3>7
      <4> QED
        BY <3>8, <3>11, <4>1 DEF FreshKeys
    <3> QED
      BY <2>5, <3>12 DEF Generate, server, handshakes, Popped1, HandedOnce
  <2>6. CASE StoreNext(t)
    BY <2>2, <2>6 DEF StoreNext, At, Coming, server, handshakes
  <2>7. CASE CountRows(t)
    BY <2>2, <2>7 DEF CountRows, At, Coming, server, handshakes
  <2>8. CASE InsertRows(t)
    <3>1. Coming(t) /\ Goto(t, "record", tab[t].batch)
          /\ UNCHANGED <<handed, nextKey>>
          /\ rows' \subseteq rows \union tab[t].batch
      BY <2>8 DEF InsertRows, At, Coming, handshakes
    <3>2. /\ tab'[t].batch = tab[t].batch /\ ~Coming(t)'
          /\ \A u \in Tabs \ {t} : tab'[u] = tab[u]
      <4>1. /\ tab'[t].at = "record" /\ tab'[t].batch = tab[t].batch
            /\ \A u \in Tabs \ {t} : tab'[u] = tab[u]
        BY <2>1, <3>1, TabMoves
      <4> QED
        BY <4>1 DEF Coming
    <3>3. Out' \subseteq Out \union tab[t].batch
      BY <3>1 DEF Out
    <3>4. \A r \in Out' : r.key < nextKey'
      BY <3>1, <3>3 DEF FreshKeys
    <3>5. \A u \in Tabs : tab'[u].batch = tab[u].batch /\ (Coming(u)' => Coming(u) /\ u # t)
      BY <3>2 DEF Coming
    <3>6. ASSUME NEW u \in Tabs, Coming(u)'
          PROVE  \A r \in tab[u].batch, s \in Out' : r.key # s.key
      BY <3>1, <3>3, <3>5, <3>6 DEF FreshKeys
    <3>7. FreshKeys'
      BY <3>1, <3>4, <3>5, <3>6 DEF FreshKeys
    <3>8. ASSUME NEW i \in DOMAIN handed
          PROVE  handed[i].otp \intersect rows' = {}
      <4>1. handed[i].otp \subseteq Out
        BY DEF Out
      <4>2. handed[i].otp \intersect tab[t].batch = {}
        BY <3>1, <4>1 DEF FreshKeys
      <4> QED
        BY <3>1, <4>2 DEF Popped1
    <3> QED
      BY <3>1, <3>7, <3>8 DEF Popped1, HandedOnce
  <2>9. CASE RecordNextId(t)
    BY <2>2, <2>9 DEF RecordNextId, server, handshakes
  <2> QED
    BY <1>3, <2>3, <2>4, <2>5, <2>6, <2>7, <2>8, <2>9 DEF Replenish
<1>4. ASSUME NEW r \in Requester, FetchBundle(r)
      PROVE  FreshKeys' /\ Popped1' /\ HandedOnce'
  <2>1. PICK otp : otp \subseteq rows /\ rows' = rows \ otp
                   /\ handed' = Append(handed, [by |-> r, otp |-> otp])
    BY <1>4 DEF FetchBundle, Popped
  <2> DEFINE f == [by |-> r, otp |-> otp]
             n == Len(handed) + 1
  <2>2. /\ DOMAIN handed' = DOMAIN handed \union {n} /\ n \notin DOMAIN handed
        /\ \A i \in DOMAIN handed : handed'[i] = handed[i]
        /\ handed'[n].otp = otp
    BY <2>1 DEF Typed
  <2>3. Out' \subseteq Out
    BY <2>1, <2>2 DEF Out
  <2>4. FreshKeys'
    BY <1>4, <2>3 DEF FetchBundle, device, FreshKeys, Coming
  <2>5. Popped1'
    BY <2>1, <2>2 DEF Popped1
  <2>6. HandedOnce'
    BY <2>1, <2>2 DEF Popped1, HandedOnce
  <2> QED
    BY <2>4, <2>5, <2>6
<1>5. ASSUME NEW r \in Requester, WindowExpires(r)
      PROVE  UNCHANGED <<rows, handed, nextKey, tab>>
  BY <1>5 DEF WindowExpires, device, handshakes
<1>6. ASSUME NEW i \in DOMAIN handed, Accept(i) \/ Burn(i) \/ Redeliver(i)
      PROVE  UNCHANGED <<rows, handed, nextKey, tab>>
  BY <1>6 DEF Accept, Burn, Redeliver, device, server
<1> QED
  BY <1>1, <1>2, <1>3, <1>4, <1>5, <1>6 DEF Next

\* No two bundles carry the same key, for any number of tabs that replenish,
\* are closed or lose an answer: batches are new keys, a batch is inserted
\* once, and the pop takes the row it hands out.
THEOREM HandedOut == Spec => []HandedOnce
<1>1. Init => Handed
  <2> SUFFICES ASSUME Init PROVE Handed
    OBVIOUS
  <2>1. Typed
    BY DEF Init, Typed, Idle, TabT
  <2>2. rows = {} /\ DOMAIN handed = {} /\ \A t \in Tabs : tab[t] = Idle
    BY DEF Init
  <2> QED
    BY <2>1, <2>2 DEF Handed, Batches, FreshKeys, Popped1, HandedOnce, Out, Coming, Idle
<1>2. Handed /\ [Next]_vars => Handed'
  BY HandedStep
<1> QED
  BY <1>1, <1>2, PTL DEF Spec, Handed

(***************************************************************************)
(* One tab, and no answer to a publication lost: an id stands for one key. *)
(***************************************************************************)
OneTab == (\A t, u \in Tabs : t = u) /\ "record" \notin Fragile

\* The batch under way has the ids from nextId, which the directory has not
\* seen, until it is inserted.
Numbered ==
    /\ \A t \in Tabs : Coming(t) \/ tab[t].at = "record" =>
          \E q \in Nat : tab[t].batch = Rows(nextId, q)
    /\ \A r \in Out : r.id < nextId \/ \E t \in Tabs : tab[t].at = "record" /\ r \in tab[t].batch

Recorded == Handed /\ Numbered /\ IdsNeverRecycled

LEMMA RecordedStep ==
  ASSUME OneTab, Recorded, [Next]_vars
  PROVE  Recorded'
<1>0. OTP_BATCH_SIZE \in Nat \ {0} /\ Handed'
  BY HandedStep, DirectoryAssumption DEF Recorded, DirectoryAssumption
<1> SUFFICES Numbered' /\ IdsNeverRecycled'
  BY <1>0 DEF Recorded
<1> USE DEF Recorded
<1>a. /\ rows \subseteq RowT /\ nextId \in Nat /\ nextKey \in Nat
      /\ tab \in [Tabs -> TabT] /\ handed \in Seq(Fetch)
  BY DEF Handed, Typed
<1>b. Out \subseteq RowT
  <2>1. \A i \in DOMAIN handed : handed[i] \in Fetch
    BY <1>a
  <2> QED
    BY <1>a, <2>1 DEF Out, Fetch
<1>c. IdsNeverRecycled <=> \A r, s \in Out : r.id = s.id => r.key = s.key
  BY DEF IdsNeverRecycled, Out
<1>d. ASSUME Out' \subseteq Out
      PROVE  IdsNeverRecycled'
  <2>1. \A r, s \in Out' : r.id = s.id => r.key = s.key
    BY <1>c, <1>d
  <2> QED
    BY <2>1 DEF IdsNeverRecycled, Out
<1>1. ASSUME UNCHANGED <<nextId, tab>>, Out' \subseteq Out
      PROVE  Numbered' /\ IdsNeverRecycled'
  <2>1. \A t \in Tabs : Coming(t)' <=> Coming(t)
    BY <1>1 DEF Coming
  <2>2. \A t \in Tabs : Coming(t)' \/ tab'[t].at = "record" =>
           \E q \in Nat : tab'[t].batch = Rows(nextId', q)
    BY <1>1, <2>1 DEF Numbered
  <2>3. \A r \in Out' : r.id < nextId' \/ \E t \in Tabs : tab'[t].at = "record" /\ r \in tab'[t].batch
    BY <1>1 DEF Numbered
  <2>4. Numbered'
    BY <2>2, <2>3 DEF Numbered, Rows
  <2> QED
    BY <1>1, <1>d, <2>4
<1>2. CASE UNCHANGED vars
  BY <1>1, <1>2 DEF vars, device, server, handshakes, Out
<1>3. ASSUME NEW t \in Tabs, Replenish(t) \/ CloseTab(t)
      PROVE  Numbered' /\ IdsNeverRecycled'
  <2>1. tab[t] \in TabT /\ \A u \in Tabs : u = t
    BY <1>a DEF OneTab
  <2>2. ASSUME NEW p, NEW b, Goto(t, p, b), UNCHANGED <<rows, handed, nextId>>,
               tab[t].at # "record",
               p \in {"idle", "start"} \/ (p # "record" /\ \E q \in Nat : b = Rows(nextId, q))
        PROVE  Numbered' /\ IdsNeverRecycled'
    <3>1. tab'[t].at = p /\ tab'[t].batch = b /\ Out' = Out
      <4>1. tab'[t].at = p /\ tab'[t].batch = b
        BY <1>a, <2>2, TabMoves
      <4> QED
        BY <2>2, <4>1 DEF Out
    <3>2. \A r \in Out : r.id < nextId
      BY <2>1, <2>2 DEF Numbered
    <3>3. Coming(t)' \/ tab'[t].at = "record" => \E q \in Nat : tab'[t].batch = Rows(nextId, q)
      BY <2>2, <3>1 DEF Coming
    <3>4. Numbered'
      <4>1. nextId' = nextId
        BY <2>2
      <4>2. \A u \in Tabs : Coming(u)' \/ tab'[u].at = "record" =>
                              \E q \in Nat : tab'[u].batch = Rows(nextId, q)
        BY <2>1, <3>3
      <4>3. \A r \in Out' : r.id < nextId'
        BY <3>1, <3>2, <4>1
      <4>4. \A u \in Tabs : Coming(u)' \/ tab'[u].at = "record" =>
                              \E q \in Nat : tab'[u].batch = Rows(nextId', q)
        BY <4>1, <4>2
      <4> QED
        BY <4>3, <4>4 DEF Numbered
    <3> QED
      BY <1>d, <3>1, <3>4
  <2>3. Coming(t) => tab[t].at # "record" /\ \E q \in Nat : tab[t].batch = Rows(nextId, q)
    BY DEF Coming, Numbered
  <2>4. CASE CheckInventory(t)
    <3>1. /\ Goto(t, "start", {}) /\ tab[t].at # "record"
          /\ UNCHANGED <<rows, handed, nextId>>
      BY <2>4 DEF CheckInventory, At, server, handshakes
    <3> QED
      BY <2>2, <3>1
  <2>5. CASE CloseTab(t)
    <3>1. /\ Goto(t, "idle", {}) /\ tab[t].at # "record"
          /\ UNCHANGED <<rows, handed, nextId>>
      BY <2>5 DEF CloseTab, server, handshakes, OneTab
    <3> QED
      BY <2>2, <3>1
  <2>6. CASE Generate(t)
    <3>1. Goto(t, "store", Batch) /\ Batch = Rows(nextId, nextKey)
      BY <2>6 DEF Generate, Batch, Rows
    <3> QED
      BY <1>a, <2>2, <2>6, <3>1 DEF Generate, At, server, handshakes
  <2>7. CASE StoreNext(t)
    <3>1. AfterStore(Left(t)) \in {"count", "store"}
      BY DEF AfterStore
    <3> QED
      BY <2>2, <2>3, <2>7, <3>1 DEF StoreNext, At, Coming, server, handshakes
  <2>8. CASE CountRows(t)
    <3>1. /\ Goto(t, "idle", {}) \/ Goto(t, "insert", tab[t].batch)
          /\ Coming(t) /\ UNCHANGED <<rows, handed, nextId>>
      BY <2>8 DEF CountRows, At, Coming, server, handshakes
    <3> QED
      BY <2>2, <2>3, <3>1
  <2>9. CASE InsertRows(t)
    <3>1. PICK q \in Nat : tab[t].batch = Rows(nextId, q)
      BY <2>3, <2>9 DEF InsertRows, At, Coming
    <3>2. /\ Goto(t, "record", tab[t].batch) /\ UNCHANGED <<handed, nextId>>
          /\ rows' \subseteq rows \union tab[t].batch /\ tab[t].at = "insert"
      BY <2>9 DEF InsertRows, At, handshakes
    <3>3. tab'[t].at = "record" /\ tab'[t].batch = Rows(nextId, q)
      BY <1>a, <3>1, <3>2, TabMoves
    <3>4. Out' \subseteq Out \union Rows(nextId, q)
      BY <3>1, <3>2 DEF Out
    <3>5. \A r \in Out : r.id < nextId
      BY <2>1, <3>2 DEF Numbered
    <3>6. \A r \in Rows(nextId, q) : r.id >= nextId
      BY <1>0, <1>a, BatchBounds
    <3>7. \A r, s \in Rows(nextId, q) : r.id = s.id => r.key = s.key
      BY <1>0, <1>a DEF Rows
    <3>8. \A r, s \in Out' : r.id = s.id => r.key = s.key
      BY <1>a, <1>b, <1>c, <3>4, <3>5, <3>6, <3>7 DEF RowT
    <3>9. \A r \in Out' : r.id < nextId' \/ \E u \in Tabs : tab'[u].at = "record" /\ r \in tab'[u].batch
      BY <3>2, <3>3, <3>4, <3>5
    <3>10. Numbered'
      <4>1. \A u \in Tabs : tab'[u].batch = Rows(nextId', q)
        BY <2>1, <3>2, <3>3
      <4> QED
        BY <3>9, <4>1 DEF Numbered, Rows
    <3> QED
      BY <3>8, <3>10 DEF IdsNeverRecycled, Out
  <2>10. CASE RecordNextId(t)
    <3>1. PICK q \in Nat : tab[t].batch = Rows(nextId, q)
      BY <2>10 DEF RecordNextId, At, Numbered
    <3>2. /\ Goto(t, "idle", {}) /\ UNCHANGED <<rows, handed>>
          /\ nextId' = Max(Ids(tab[t].batch)) + 1
      BY <2>10 DEF RecordNextId, NextAfter, server, handshakes
    <3>3. nextId' = nextId + OTP_BATCH_SIZE
      <4>1. nextId \in Nat
        BY <1>a
      <4>2. nextId' = Max(Ids(Rows(nextId, q))) + 1
        BY <3>1, <3>2
      <4> QED
        BY <4>1, <4>2, BatchEnds
    <3>4. \A r \in Rows(nextId, q) : r.id < nextId'
      <4>1. nextId \in Nat
        BY <1>a
      <4> QED
        BY <3>3, <4>1, BatchEnds
    <3>5. \A r \in Out : r.id < nextId'
      BY <1>0, <1>a, <1>b, <2>1, <3>1, <3>3, <3>4 DEF Numbered, RowT
    <3>6. tab'[t].at = "idle" /\ Out' = Out
      <4>1. tab'[t].at = "idle"
        BY <1>a, <3>2, TabMoves
      <4> QED
        BY <3>2, <4>1 DEF Out
    <3>7. Numbered'
      BY <2>1, <3>5, <3>6 DEF Numbered, Coming
    <3> QED
      BY <1>d, <3>6, <3>7
  <2> QED
    BY <1>3, <2>4, <2>5, <2>6, <2>7, <2>8, <2>9, <2>10 DEF Replenish
<1>4. ASSUME NEW r \in Requester, FetchBundle(r)
      PROVE  UNCHANGED <<nextId, tab>> /\ Out' \subseteq Out
  <2>1. PICK otp : otp \subseteq rows /\ rows' = rows \ otp
                   /\ handed' = Append(handed, [by |-> r, otp |-> otp])
    BY <1>4 DEF FetchBundle, Popped
  <2>2. /\ DOMAIN handed' = DOMAIN handed \union {Len(handed) + 1}
        /\ \A i \in DOMAIN handed : handed'[i] = handed[i]
        /\ handed'[Len(handed) + 1].otp = otp
    BY <1>a, <2>1
  <2>3. Out' \subseteq Out
    BY <2>1, <2>2 DEF Out
  <2> QED
    BY <1>4, <2>3 DEF FetchBundle, device
<1>5. ASSUME NEW r \in Requester, WindowExpires(r)
      PROVE  UNCHANGED <<nextId, tab>> /\ Out' \subseteq Out
  BY <1>5 DEF WindowExpires, device, handshakes, Out
<1>6. ASSUME NEW i \in DOMAIN handed, Accept(i) \/ Burn(i) \/ Redeliver(i)
      PROVE  UNCHANGED <<nextId, tab>> /\ Out' \subseteq Out
  BY <1>6 DEF Accept, Burn, Redeliver, device, server, Out
<1> QED
  BY <1>1, <1>2, <1>3, <1>4, <1>5, <1>6 DEF Next

\* A device whose vault one tab at a time activates, and that loses no answer
\* to a publication, never publishes two keys under one id (otp-ledger.ts rests
\* on it): the counter in localStorage is past every id the directory has seen.
THEOREM OneKeyPerId ==
  ASSUME OneTab
  PROVE  Spec => []IdsNeverRecycled
<1>1. Init => Recorded
  <2> SUFFICES ASSUME Init PROVE Recorded
    OBVIOUS
  <2>1. Typed
    BY DEF Init, Typed, Idle, TabT
  <2>2. rows = {} /\ DOMAIN handed = {} /\ \A t \in Tabs : tab[t] = Idle
    BY DEF Init
  <2> QED
    BY <2>1, <2>2 DEF Recorded, Numbered, IdsNeverRecycled, Handed, Batches, FreshKeys,
                      Popped1, HandedOnce, Out, Coming, Idle
<1>2. Recorded /\ [Next]_vars => Recorded'
  BY RecordedStep
<1> QED
  BY <1>1, <1>2, PTL DEF Spec, Recorded

(***************************************************************************)
(* What such a device advertises, it can answer.                           *)
(***************************************************************************)
Given == UNION {handed[i].otp : i \in DOMAIN handed}
Open == {i \in DOMAIN handed : stage[i] = "sent" /\ seeded[i] = <<>>}
Advertised == rows \union UNION {handed[i].otp : i \in Open}
Held(r) == r.id \in DOMAIN priv /\ priv[r.id] = r.key

\* The store has a batch up to some id while the tab stores it, and all of it
\* when it counts and inserts.
Stored ==
    /\ \A i \in DOMAIN priv : priv[i] \in Nat /\ priv[i] < nextKey
    /\ \A t \in Tabs : tab[t].at = "store" =>
          \E j \in 0..(OTP_BATCH_SIZE - 1) :
             \A r \in tab[t].batch : ~Held(r) <=> r.id >= nextId + j
    /\ \A t \in Tabs : tab[t].at \in {"count", "insert"} => \A r \in tab[t].batch : Held(r)

\* The ledger has ids of bundles, and a bundle that had a prekey and was
\* answered once was accepted once.
Answered ==
    /\ stage \in Seq({"sent", "refused", "saved", "done"}) /\ Len(stage) = Len(handed)
    /\ seeded \in Seq(Seq(Nat)) /\ Len(seeded) = Len(handed)
    /\ ledger \in Seq(Nat) /\ ToSet(ledger) \subseteq Ids(Given)
    /\ \A i \in DOMAIN handed :
          /\ handed[i].otp = {} \/ \E r : handed[i].otp = {r}
          /\ stage[i] # "sent" /\ handed[i].otp # {} => seeded[i] # <<>>

Ready == \A r \in Advertised : r.id \notin ToSet(ledger) /\ Held(r)

Prepared == Recorded /\ Stored /\ Answered /\ Ready

LEMMA BatchRows ==
  ASSUME NEW a \in Nat, NEW q \in Nat
  PROVE  /\ IsFiniteSet(Rows(a, q))
         /\ \A k \in 0..(OTP_BATCH_SIZE - 1) : [id |-> a + k, key |-> q + k] \in Rows(a, q)
         /\ \A r, s \in Rows(a, q) : r.id = s.id => r = s
<1>0. OTP_BATCH_SIZE \in Nat \ {0}
  BY DirectoryAssumption DEF DirectoryAssumption
<1> DEFINE B == 0..(OTP_BATCH_SIZE - 1)
           f == [k \in B |-> [id |-> a + k, key |-> q + k]]
<1>1. f \in Surjection(B, Rows(a, q))
  BY DEF Surjection, Rows
<1>2. IsFiniteSet(B)
  BY <1>0, FS_Interval
<1>3. IsFiniteSet(Rows(a, q))
  BY <1>1, <1>2, FS_Surjection
<1>4. \A r, s \in Rows(a, q) : r.id = s.id => r = s
  BY <1>0 DEF Rows
<1> QED
  BY <1>3, <1>4 DEF Rows

\* The next key of the batch is stored.
LEMMA StoreOne ==
  ASSUME OneTab, Prepared, NEW t \in Tabs, StoreNext(t)
  PROVE  \E r \in tab[t].batch :
           /\ r.id >= nextId
           /\ priv' = [i \in DOMAIN priv \union {r.id} |-> IF i = r.id THEN r.key ELSE priv[i]]
           /\ tab'[t].batch = tab[t].batch
           /\ \/ tab'[t].at = "count" /\ \A x \in tab[t].batch : Held(x)'
              \/ /\ tab'[t].at = "store"
                 /\ \E j \in 0..(OTP_BATCH_SIZE - 1) :
                      \A x \in tab[t].batch : ~Held(x)' <=> x.id >= nextId + j
<1>0. OTP_BATCH_SIZE \in Nat \ {0}
  BY DirectoryAssumption DEF DirectoryAssumption
<1>1. nextId \in Nat /\ tab \in [Tabs -> TabT]
  BY DEF Prepared, Recorded, Handed, Typed
<1>2. tab[t].at = "store"
  BY DEF StoreNext, At
<1>3. PICK q \in Nat : tab[t].batch = Rows(nextId, q)
  BY <1>2 DEF Prepared, Recorded, Numbered, Coming
<1>4. PICK j \in 0..(OTP_BATCH_SIZE - 1) :
         \A x \in tab[t].batch : ~Held(x) <=> x.id >= nextId + j
  BY <1>2 DEF Prepared, Stored
<1> DEFINE row(k) == [id |-> nextId + k, key |-> q + k]
           r == CHOOSE x \in Left(t) : \A y \in Left(t) : x.id <= y.id
<1>5. \A x : x \in Left(t) <=> x \in tab[t].batch /\ x.id >= nextId + j
  BY <1>4 DEF Left, Held
<1>6. row(j) \in tab[t].batch /\ row(j).id = nextId + j
  BY <1>1, <1>3, BatchRows
<1>7. row(j) \in Left(t)
  BY <1>1, <1>5, <1>6
<1>8. \A x \in tab[t].batch : x.id \in nextId..(nextId + OTP_BATCH_SIZE - 1)
  BY <1>1, <1>3, BatchBounds
<1>9. r \in Left(t) /\ \A y \in Left(t) : r.id <= y.id
  BY <1>5, <1>6, <1>7
<1>10. r \in tab[t].batch /\ r.id = nextId + j
  BY <1>1, <1>5, <1>6, <1>7, <1>8, <1>9
<1>11. /\ priv' = [i \in DOMAIN priv \union {r.id} |-> IF i = r.id THEN r.key ELSE priv[i]]
       /\ Goto(t, AfterStore(Left(t)), tab[t].batch)
  BY DEF StoreNext
<1> HIDE DEF r
<1>12. tab'[t].at = AfterStore(Left(t)) /\ tab'[t].batch = tab[t].batch
  BY <1>1, <1>11, TabMoves
<1>13. ASSUME NEW x \in tab[t].batch
       PROVE  ~Held(x)' <=> x.id >= nextId + (j + 1)
  <2>1. CASE x.id = r.id
    <3>1. x = r
      <4>1. x \in Rows(nextId, q) /\ r \in Rows(nextId, q)
        BY <1>3, <1>10
      <4> QED
        BY <1>1, <2>1, <4>1, BatchRows
    <3>2. r.id \in DOMAIN priv' /\ priv'[r.id] = r.key
      BY <1>11
    <3>3. Held(x)'
      BY <3>1, <3>2 DEF Held
    <3> QED
      BY <1>1, <1>10, <3>1, <3>3
  <2>2. CASE x.id # r.id
    <3>1. Held(x)' <=> Held(x)
      BY <1>11, <2>2 DEF Held
    <3>2. x.id >= nextId + j <=> x.id >= nextId + (j + 1)
      BY <1>1, <1>8, <1>10, <2>2
    <3> QED
      BY <1>4, <3>1, <3>2
  <2> QED
    BY <2>1, <2>2
<1>14. CASE j = OTP_BATCH_SIZE - 1
  <2>1. \A x \in Left(t) : x = r
    <3> SUFFICES ASSUME NEW x \in Left(t) PROVE x = r
      OBVIOUS
    <3>1. x \in tab[t].batch /\ x.id = r.id
      <4>1. x \in tab[t].batch /\ x.id >= nextId + j
        BY <1>5
      <4>2. x.id \in nextId..(nextId + OTP_BATCH_SIZE - 1)
        BY <1>8, <4>1
      <4>3. nextId \in Nat
        BY <1>1
      <4>4. x.id = nextId + j
        BY <1>0, <1>14, <4>1, <4>2, <4>3
      <4> QED
        BY <1>10, <4>1, <4>4
    <3>2. x \in Rows(nextId, q) /\ r \in Rows(nextId, q)
      BY <1>3, <1>10, <3>1
    <3> QED
      BY <1>1, <3>1, <3>2, BatchRows
  <2>2. Left(t) = {r}
    BY <1>9, <2>1
  <2>3. AfterStore(Left(t)) = "count"
    BY <2>2, FS_Singleton DEF AfterStore
  <2>4. \A x \in tab[t].batch : Held(x)'
    BY <1>0, <1>1, <1>8, <1>13, <1>14
  <2> QED
    BY <1>1, <1>10, <1>11, <1>12, <2>3, <2>4
<1>15. CASE j # OTP_BATCH_SIZE - 1
  <2>1. j + 1 \in 0..(OTP_BATCH_SIZE - 1)
    BY <1>0, <1>15
  <2>2. row(j + 1) \in tab[t].batch /\ row(j + 1).id = nextId + (j + 1)
    BY <1>1, <1>3, <2>1, BatchRows
  <2>3. row(j + 1) \in Left(t) /\ row(j + 1) # row(j)
    BY <1>1, <1>5, <1>6, <2>2
  <2>4. IsFiniteSet(Left(t))
    <3>1. Left(t) \subseteq Rows(nextId, q)
      BY <1>3 DEF Left
    <3> QED
      BY <1>1, <3>1, BatchRows, FS_Subset
  <2>5. Cardinality(Left(t)) # 1
    BY <1>7, <2>3, <2>4, FS_Singleton
  <2>6. AfterStore(Left(t)) = "store"
    BY <2>5 DEF AfterStore
  <2> QED
    BY <1>1, <1>10, <1>11, <1>12, <1>13, <2>1, <2>6
<1> QED
  BY <1>14, <1>15

LEMMA SeedOf ==
  ASSUME NEW S, S = {} \/ \E k \in Nat : S = {k}
  PROVE  /\ SetToSeq(S) \in Seq(Nat)
         /\ S # {} => SetToSeq(S) # <<>>
<1>1. CASE S = {}
  <2>1. Cardinality(S) = 0
    BY <1>1, FS_EmptySet
  <2>2. [i \in 1..0 |-> 0] \in [1..Cardinality(S) -> S] /\ IsInjective([i \in 1..0 |-> 0])
    BY <1>1, <2>1 DEF IsInjective
  <2>3. SetToSeq(S) \in [1..0 -> S]
    BY <2>1, <2>2 DEF SetToSeq
  <2> QED
    BY <1>1, <2>3
<1>2. ASSUME NEW k \in Nat, S = {k}
      PROVE  SetToSeq(S) \in Seq(Nat) /\ SetToSeq(S) # <<>>
  <2>1. Cardinality(S) = 1
    BY <1>2, FS_Singleton
  <2>2. [i \in 1..1 |-> k] \in [1..Cardinality(S) -> S] /\ IsInjective([i \in 1..1 |-> k])
    BY <1>2, <2>1 DEF IsInjective
  <2>3. SetToSeq(S) \in [1..1 -> S]
    BY <2>1, <2>2 DEF SetToSeq
  <2>4. SetToSeq(S) \in [1..1 -> Nat]
    BY <1>2, <2>3
  <2>5. \A s \in [1..1 -> Nat] : s \in Seq(Nat) /\ s # <<>>
    <3>1. \A s \in [1..1 -> Nat] : s \in Seq(Nat)
      <4>1. [1..1 -> Nat] \in {[1..n -> Nat] : n \in Nat}
        OBVIOUS
      <4>2. Seq(Nat) = UNION {[1..n -> Nat] : n \in Nat}
        BY SeqDef, Zenon
      <4> QED
        BY <4>1, <4>2, Zenon
    <3>2. \A s \in [1..1 -> Nat] : DOMAIN s # DOMAIN <<>>
      <4>1. DOMAIN <<>> = {} /\ 1 \in 1..1
        OBVIOUS
      <4> QED
        BY <4>1
    <3> QED
      BY <3>1, <3>2
  <2> QED
    BY <2>4, <2>5
<1> QED
  BY <1>1, <1>2

\* The ledger after a mark has no other id than before and the marked one.
LEMMA MarkedIds ==
  ASSUME ledger \in Seq(Nat), NEW id \in Nat
  PROVE  /\ Marked(id) \in Seq(Nat)
         /\ ToSet(Marked(id)) \subseteq ToSet(ledger) \union {id}
<1> DEFINE l == Append(ledger, id)
<1>1. /\ l \in Seq(Nat) /\ Len(l) = Len(ledger) + 1
      /\ \A i \in 1..Len(l) : l[i] \in ToSet(ledger) \union {id}
  BY DEF ToSet
<1>2. Tail(l) \in Seq(Nat) /\ \A i \in 1..Len(Tail(l)) : Tail(l)[i] \in ToSet(ledger) \union {id}
  <2>1. l # <<>>
    <3>1. Len(l) # 0
      BY <1>1
    <3> QED
      BY <3>1, EmptySeq
  <2>2. Tail(l) \in Seq(Nat) /\ Len(Tail(l)) = Len(l) - 1 /\ \A i \in 1..Len(Tail(l)) : Tail(l)[i] = l[i + 1]
    BY <1>1, <2>1, HeadTailProperties
  <2> QED
    BY <1>1, <2>2
<1> QED
  BY <1>1, <1>2 DEF Marked, ToSet

LEMMA PreparedStep ==
  ASSUME OneTab, Prepared, [Next]_vars
  PROVE  Prepared'
<1>0. OTP_BATCH_SIZE \in Nat \ {0} /\ Recorded'
  BY RecordedStep, DirectoryAssumption DEF Prepared, DirectoryAssumption
<1> SUFFICES Stored' /\ Answered' /\ Ready'
  BY <1>0 DEF Prepared
<1> USE DEF Prepared
<1>a. /\ rows \subseteq RowT /\ nextId \in Nat /\ nextKey \in Nat
      /\ tab \in [Tabs -> TabT] /\ handed \in Seq(Fetch)
      /\ \A i \in DOMAIN handed : handed[i].otp \subseteq RowT
  <2>1. rows \subseteq RowT /\ nextId \in Nat /\ nextKey \in Nat
        /\ tab \in [Tabs -> TabT] /\ handed \in Seq(Fetch)
    BY DEF Recorded, Handed, Typed
  <2>2. \A i \in DOMAIN handed : handed[i] \in Fetch
    BY <2>1
  <2> QED
    BY <2>1, <2>2 DEF Fetch
<1>b. Out = rows \union Given /\ Advertised \subseteq Out /\ Out \subseteq RowT
  BY <1>a DEF Out, Given, Advertised, Open
<1>c. \A r, s \in Out : r.id = s.id => r = s
  <2>1. \A r, s \in Out : r.id = s.id => r.key = s.key
    BY DEF Recorded, IdsNeverRecycled, Out
  <2> QED
    BY <1>b, <2>1 DEF RowT
<1>d. /\ Len(stage) = Len(handed) /\ Len(seeded) = Len(handed)
      /\ stage \in Seq({"sent", "refused", "saved", "done"}) /\ seeded \in Seq(Seq(Nat))
      /\ DOMAIN stage = DOMAIN handed /\ DOMAIN seeded = DOMAIN handed
  BY <1>a DEF Answered
<1>1. ASSUME UNCHANGED <<rows, priv, ledger, handed, stage, seeded>>
      PROVE  Answered' /\ Ready'
  <2>1. Given' = Given /\ Advertised' = Advertised
    BY <1>1 DEF Given, Advertised, Open
  <2>2. Answered'
    BY <1>1, <2>1 DEF Answered
  <2> QED
    BY <1>1, <2>1, <2>2 DEF Ready, Held
<1>2. ASSUME UNCHANGED <<priv, nextId, nextKey, tab>>
      PROVE  Stored'
  BY <1>2 DEF Stored, Held
<1>3. CASE UNCHANGED vars
  BY <1>1, <1>2, <1>3 DEF vars, device, server, handshakes
<1>4. ASSUME NEW t \in Tabs, Replenish(t) \/ CloseTab(t)
      PROVE  Stored' /\ Answered' /\ Ready'
  <2>1. tab[t] \in TabT /\ \A u \in Tabs : u = t
    BY <1>a DEF OneTab
  <2>2. ASSUME NEW p \in {"idle", "start"}, Goto(t, p, {}), UNCHANGED <<priv, nextKey>>
        PROVE  Stored'
    <3>1. tab'[t].at = p
      BY <1>a, <2>2, TabMoves
    <3> QED
      BY <2>1, <2>2, <3>1 DEF Stored
  <2>3. CASE CheckInventory(t)
    BY <1>1, <2>2, <2>3 DEF CheckInventory, server, handshakes
  <2>4. CASE CloseTab(t)
    BY <1>1, <2>2, <2>4 DEF CloseTab, server, handshakes
  <2>5. CASE Generate(t)
    <3>1. /\ Goto(t, "store", Batch) /\ Batch = Rows(nextId, nextKey)
          /\ nextKey' = nextKey + OTP_BATCH_SIZE /\ UNCHANGED <<priv, nextId>>
      BY <2>5 DEF Generate, Batch, Rows
    <3>2. tab'[t].at = "store" /\ tab'[t].batch = Rows(nextId, nextKey)
      BY <1>a, <3>1, TabMoves
    <3>3. \A r \in Rows(nextId, nextKey) : r.key >= nextKey /\ r.id >= nextId
      BY <1>0, <1>a, BatchBounds
    <3>4. \A r \in Rows(nextId, nextKey) : ~Held(r)' /\ r.id >= nextId + 0
      BY <1>a, <3>1, <3>3 DEF Stored, Held
    <3>5. 0 \in 0..(OTP_BATCH_SIZE - 1)
      BY <1>0
    <3>6. \E j \in 0..(OTP_BATCH_SIZE - 1) : \A r \in tab'[t].batch : ~Held(r)' <=> r.id >= nextId' + j
      BY <3>1, <3>2, <3>4, <3>5
    <3>7. \A i \in DOMAIN priv' : priv'[i] \in Nat /\ priv'[i] < nextKey'
      BY <1>0, <1>a, <3>1 DEF Stored
    <3>8. Stored'
      BY <2>1, <3>2, <3>6, <3>7 DEF Stored
    <3> QED
      BY <1>1, <2>5, <3>8 DEF Generate, server, handshakes
  <2>6. CASE StoreNext(t)
    <3>1. PICK r \in tab[t].batch :
           /\ r.id >= nextId
           /\ priv' = [i \in DOMAIN priv \union {r.id} |-> IF i = r.id THEN r.key ELSE priv[i]]
           /\ tab'[t].batch = tab[t].batch
           /\ \/ tab'[t].at = "count" /\ \A x \in tab[t].batch : Held(x)'
              \/ /\ tab'[t].at = "store"
                 /\ \E j \in 0..(OTP_BATCH_SIZE - 1) :
                      \A x \in tab[t].batch : ~Held(x)' <=> x.id >= nextId + j
      BY <2>6, StoreOne
    <3>2. UNCHANGED <<nextId, nextKey, rows, ledger, handed, stage, seeded>> /\ tab[t].at = "store"
      BY <2>6 DEF StoreNext, At, server, handshakes
    <3>3. r.key \in Nat /\ r.key < nextKey
      <4>1. r \in RowT
        BY <2>1 DEF TabT
      <4> QED
        BY <4>1 DEF Recorded, Handed, FreshKeys, RowT
    <3>4. \A i \in DOMAIN priv' : priv'[i] \in Nat /\ priv'[i] < nextKey'
      BY <3>1, <3>2, <3>3 DEF Stored
    <3>5. Stored'
      BY <2>1, <3>1, <3>2, <3>4 DEF Stored
    <3>6. \A s \in Out : s.id \in Nat /\ s.id < nextId
      BY <1>b, <2>1, <3>2 DEF Recorded, Numbered, RowT
    <3>7. \A s \in Out : Held(s) => Held(s)'
      BY <1>a, <3>1, <3>6 DEF Held
    <3>8. Advertised' = Advertised
      BY <3>2 DEF Advertised, Open
    <3>9. Ready'
      BY <1>b, <3>2, <3>7, <3>8 DEF Ready
    <3> QED
      BY <3>2, <3>5, <3>9 DEF Answered, Given
  <2>7. CASE CountRows(t)
    <3>1. /\ UNCHANGED <<priv, nextId, nextKey, rows, ledger, handed, stage, seeded>>
          /\ tab[t].at = "count"
          /\ Goto(t, "idle", {}) \/ Goto(t, "insert", tab[t].batch)
      BY <2>7 DEF CountRows, At, server, handshakes
    <3>2. CASE Goto(t, "insert", tab[t].batch)
      <4>1. tab'[t].at = "insert" /\ tab'[t].batch = tab[t].batch
        BY <1>a, <3>2, TabMoves
      <4>2. Stored'
        BY <2>1, <3>1, <4>1 DEF Stored, Held
      <4> QED
        BY <1>1, <3>1, <4>2
    <3> QED
      BY <1>1, <2>2, <3>1, <3>2
  <2>8. CASE InsertRows(t)
    <3>1. /\ Goto(t, "record", tab[t].batch) /\ tab[t].at = "insert"
          /\ UNCHANGED <<priv, nextId, nextKey, ledger, handed, stage, seeded>>
          /\ rows' \subseteq rows \union tab[t].batch
      BY <2>8 DEF InsertRows, At, handshakes
    <3>2. tab'[t].at = "record"
      BY <1>a, <3>1, TabMoves
    <3>3. Stored'
      BY <2>1, <3>1, <3>2 DEF Stored
    <3>4. \A s \in Out : s.id \in Nat /\ s.id < nextId
      BY <1>b, <2>1, <3>1 DEF Recorded, Numbered, RowT
    <3>5. \A i \in ToSet(ledger) : i < nextId
      BY <1>b, <3>4 DEF Answered, Ids
    <3>6. PICK q \in Nat : tab[t].batch = Rows(nextId, q)
      BY <3>1 DEF Recorded, Numbered, Coming
    <3>7. \A r \in tab[t].batch : r.id \in Nat /\ r.id >= nextId
      BY <1>0, <1>a, <3>6, BatchBounds
    <3>8. \A r \in tab[t].batch : r.id \notin ToSet(ledger) /\ Held(r)
      BY <1>a, <3>1, <3>5, <3>7 DEF Stored
    <3>9. Advertised' \subseteq Advertised \union tab[t].batch
      BY <3>1 DEF Advertised, Open
    <3>10. Ready'
      BY <3>1, <3>8, <3>9 DEF Ready, Held
    <3> QED
      BY <3>1, <3>3, <3>10 DEF Answered, Given
  <2>9. CASE RecordNextId(t)
    BY <1>1, <2>2, <2>9 DEF RecordNextId, server, handshakes
  <2> QED
    BY <1>4, <2>3, <2>4, <2>5, <2>6, <2>7, <2>8, <2>9 DEF Replenish
<1>5. ASSUME NEW r \in Requester, FetchBundle(r)
      PROVE  Stored' /\ Answered' /\ Ready'
  <2> DEFINE lowest == {x \in rows : x.id = Min(Ids(rows))}
  <2>1. lowest = {} \/ \E x : lowest = {x}
    <3>1. \A x, y \in lowest : x = y
      BY <1>b, <1>c
    <3> QED
      BY <3>1
  <2> HIDE DEF lowest
  <2>2. PICK otp : /\ otp = {} \/ otp = lowest
                   /\ rows' = rows \ otp
                   /\ handed' = Append(handed, [by |-> r, otp |-> otp])
    BY <1>5 DEF FetchBundle, Popped, lowest
  <2> DEFINE n == Len(handed) + 1
  <2>3. otp \subseteq rows /\ (otp = {} \/ \E x : otp = {x})
    BY <2>1, <2>2 DEF lowest
  <2>4. /\ UNCHANGED <<priv, nextId, nextKey, tab, ledger>>
        /\ stage' = Append(stage, "sent") /\ seeded' = Append(seeded, <<>>)
    BY <1>5 DEF FetchBundle, device
  <2>5. /\ DOMAIN handed' = DOMAIN handed \union {n} /\ n \notin DOMAIN handed
        /\ \A i \in DOMAIN handed : handed'[i] = handed[i]
        /\ handed'[n].otp = otp /\ Len(handed') = n
    BY <1>a, <2>2
  <2>6. /\ stage' \in Seq({"sent", "refused", "saved", "done"}) /\ Len(stage') = n
        /\ stage'[n] = "sent" /\ \A i \in DOMAIN handed : stage'[i] = stage[i]
    BY <1>a, <1>d, <2>4
  <2>7. /\ seeded' \in Seq(Seq(Nat)) /\ Len(seeded') = n
        /\ \A i \in DOMAIN handed : seeded'[i] = seeded[i]
    BY <1>a, <1>d, <2>4
  <2>8. Given \subseteq Given'
    BY <2>5 DEF Given
  <2>9. Answered'
    <3>1. \A i \in DOMAIN handed' :
             /\ handed'[i].otp = {} \/ \E x : handed'[i].otp = {x}
             /\ stage'[i] # "sent" /\ handed'[i].otp # {} => seeded'[i] # <<>>
      <4>1. \A i \in DOMAIN handed :
               /\ handed[i].otp = {} \/ \E x : handed[i].otp = {x}
               /\ stage[i] # "sent" /\ handed[i].otp # {} => seeded[i] # <<>>
        BY DEF Answered
      <4>2. (handed'[n].otp = {} \/ \E x : handed'[n].otp = {x}) /\ stage'[n] = "sent"
        BY <2>3, <2>5, <2>6
      <4> HIDE DEF n
      <4>3. ASSUME NEW i \in DOMAIN handed
            PROVE  /\ handed'[i].otp = {} \/ \E x : handed'[i].otp = {x}
                   /\ stage'[i] # "sent" /\ handed'[i].otp # {} => seeded'[i] # <<>>
        <5>1. handed'[i] = handed[i] /\ stage'[i] = stage[i] /\ seeded'[i] = seeded[i]
          BY <2>5, <2>6, <2>7
        <5> QED
          BY <4>1, <5>1
      <4> QED
        BY <2>5, <4>2, <4>3
    <3>2. ledger' \in Seq(Nat) /\ ToSet(ledger') \subseteq Ids(Given')
      BY <2>4, <2>8 DEF Answered, Ids
    <3> QED
      BY <2>5, <2>6, <2>7, <3>1, <3>2 DEF Answered
  <2>10. Advertised' \subseteq Advertised
    <3>1. Open' \subseteq Open \union {n}
      BY <2>5, <2>6, <2>7 DEF Open
    <3>2. \A i \in Open' : handed'[i].otp \subseteq Advertised
      BY <2>3, <2>5, <3>1 DEF Open, Advertised
    <3> QED
      BY <2>2, <3>2 DEF Advertised
  <2>11. Ready'
    BY <2>4, <2>10 DEF Ready, Held
  <2> QED
    BY <1>2, <2>4, <2>9, <2>11
<1>6. ASSUME NEW r \in Requester, WindowExpires(r)
      PROVE  Stored' /\ Answered' /\ Ready'
  BY <1>1, <1>2, <1>6 DEF WindowExpires, device, handshakes
<1>7. ASSUME NEW i \in DOMAIN handed, Accept(i)
      PROVE  Stored' /\ Answered' /\ Ready'
  <2>1. /\ UNCHANGED <<rows, priv, nextId, nextKey, tab, ledger, handed>>
        /\ stage[i] = "sent"
    BY <1>7 DEF Accept, device, server
  <2>2. PICK next \in {"refused", "saved"} : stage' = [stage EXCEPT ![i] = next]
    BY <1>7 DEF Accept
  <2>3. /\ stage' \in Seq({"sent", "refused", "saved", "done"}) /\ Len(stage') = Len(handed)
        /\ stage'[i] # "sent" /\ \A k \in DOMAIN handed : k # i => stage'[k] = stage[k]
    BY <1>a, <1>d, <2>2
  <2>4. /\ seeded' \in Seq(Seq(Nat)) /\ Len(seeded') = Len(handed)
        /\ \A k \in DOMAIN handed : k # i => seeded'[k] = seeded[k]
        /\ handed[i].otp # {} => seeded'[i] # <<>>
    <3>1. CASE \E r \in handed[i].otp : Refused(r.id)
      <4>1. seeded' = seeded
        BY <1>7, <3>1 DEF Accept
      <4>2. PICK r \in handed[i].otp : Refused(r.id)
        BY <3>1
      <4>3. seeded[i] # <<>>
        <5>1. SUFFICES ASSUME seeded[i] = <<>> PROVE FALSE
          OBVIOUS
        <5>2. i \in Open /\ r \in Advertised
          BY <2>1, <4>2, <5>1 DEF Open, Advertised
        <5> QED
          BY <4>2, <5>2 DEF Ready, Held, Refused
      <4> QED
        BY <1>d, <4>1, <4>3
    <3>2. CASE ~\E r \in handed[i].otp : Refused(r.id)
      <4> DEFINE S == {priv[r.id] : r \in handed[i].otp}
      <4>1. seeded' = [seeded EXCEPT ![i] = @ \o SetToSeq(S)]
        BY <1>7, <3>2 DEF Accept
      <4>2. S = {} \/ \E k \in Nat : S = {k}
        <5>1. \A r \in handed[i].otp : priv[r.id] \in Nat
          BY <3>2 DEF Refused, Stored
        <5>2. handed[i].otp = {} \/ \E x : handed[i].otp = {x}
          BY DEF Answered
        <5> QED
          BY <5>1, <5>2
      <4>3. SetToSeq(S) \in Seq(Nat) /\ (handed[i].otp # {} => SetToSeq(S) # <<>>)
        BY <4>2, SeedOf
      <4>4. seeded[i] \in Seq(Nat)
        BY <1>d
      <4> HIDE DEF S
      <4>5. /\ seeded[i] \o SetToSeq(S) \in Seq(Nat)
            /\ handed[i].otp # {} => seeded[i] \o SetToSeq(S) # <<>>
        BY <4>3, <4>4, ConcatProperties, EmptySeq
      <4> QED
        BY <1>a, <1>d, <4>1, <4>5
    <3> QED
      BY <3>1, <3>2
  <2>5. Answered'
    <3>1. Given' = Given
      BY <2>1 DEF Given
    <3>2. \A k \in DOMAIN handed' :
             /\ handed'[k].otp = {} \/ \E x : handed'[k].otp = {x}
             /\ stage'[k] # "sent" /\ handed'[k].otp # {} => seeded'[k] # <<>>
      BY <2>1, <2>3, <2>4 DEF Answered
    <3> QED
      BY <1>d, <2>1, <2>3, <2>4, <3>1, <3>2 DEF Answered
  <2>6. Advertised' \subseteq Advertised
    <3>1. Open' \subseteq Open
      BY <2>1, <2>3, <2>4 DEF Open
    <3> QED
      BY <2>1, <3>1 DEF Advertised
  <2>7. Ready'
    BY <2>1, <2>6 DEF Ready, Held
  <2> QED
    BY <1>2, <2>1, <2>5, <2>7
<1>8. ASSUME NEW i \in DOMAIN handed, Burn(i)
      PROVE  Stored' /\ Answered' /\ Ready'
  <2>1. /\ UNCHANGED <<rows, nextId, nextKey, tab, handed, seeded>>
        /\ stage[i] = "saved" /\ stage' = [stage EXCEPT ![i] = "done"]
    BY <1>8 DEF Burn, server
  <2>2. /\ stage' \in Seq({"sent", "refused", "saved", "done"}) /\ Len(stage') = Len(handed)
        /\ stage'[i] = "done" /\ \A k \in DOMAIN handed : k # i => stage'[k] = stage[k]
    BY <1>a, <1>d, <2>1
  <2>3. Advertised' \subseteq Advertised
    BY <2>1, <2>2 DEF Advertised, Open
  <2>4. \A k \in DOMAIN handed : stage'[k] # "sent" /\ handed[k].otp # {} => seeded[k] # <<>>
    BY <2>1, <2>2 DEF Answered
  <2>5. CASE handed[i].otp = {}
    <3>1. UNCHANGED <<ledger, priv>>
      BY <1>8, <2>5 DEF Burn
    <3>2. Answered'
      <4>1. Given' = Given
        BY <2>1 DEF Given
      <4> QED
        BY <1>d, <2>1, <2>2, <2>4, <3>1, <4>1 DEF Answered
    <3> QED
      BY <1>2, <2>1, <2>3, <3>1, <3>2 DEF Ready, Held
  <2>6. CASE handed[i].otp # {}
    <3>1. PICK r \in handed[i].otp :
             /\ ledger' = Marked(r.id)
             /\ priv' = priv \/ priv' = Restrict(priv, DOMAIN priv \ {r.id})
      BY <1>8, <2>6 DEF Burn
    <3>2. r \in Given /\ r \in Out /\ r \in RowT
      BY <1>b, <3>1 DEF Given
    <3>3. ledger' \in Seq(Nat) /\ ToSet(ledger') \subseteq ToSet(ledger) \union {r.id}
      BY <3>1, <3>2, MarkedIds DEF RowT, Answered
    <3>4. ToSet(ledger') \subseteq Ids(Given)
      BY <3>2, <3>3 DEF Answered, Ids
    <3>5. Answered'
      <4>1. Given' = Given
        BY <2>1 DEF Given
      <4> QED
        BY <1>d, <2>1, <2>2, <2>4, <3>3, <3>4, <4>1 DEF Answered
    <3>6. \A s : s.id # r.id => (Held(s)' <=> Held(s))
      BY <3>1 DEF Held, Restrict
    <3>7. \A s \in Advertised' : s.id # r.id
      <4>1. SUFFICES ASSUME NEW s \in Advertised', s.id = r.id PROVE FALSE
        OBVIOUS
      <4>2. s = r
        BY <1>b, <1>c, <2>3, <3>2, <4>1
      <4>3. r \notin rows
        BY <3>1 DEF Recorded, Handed, Popped1
      <4>4. PICK k \in DOMAIN handed : r \in handed[k].otp /\ stage'[k] = "sent"
        BY <2>1, <4>1, <4>2, <4>3 DEF Advertised, Open
      <4>5. k # i
        BY <2>2, <4>4
      <4> QED
        BY <3>1, <4>4, <4>5 DEF Recorded, Handed, HandedOnce
    <3>8. Ready'
      BY <2>3, <3>3, <3>6, <3>7 DEF Ready
    <3>9. \A t \in Tabs : Coming(t) => \A s \in tab[t].batch : Held(s)' <=> Held(s)
      <4> SUFFICES ASSUME NEW t \in Tabs, Coming(t), NEW s \in tab[t].batch
                   PROVE  Held(s)' <=> Held(s)
        OBVIOUS
      <4>1. PICK q \in Nat : tab[t].batch = Rows(nextId, q)
        BY DEF Recorded, Numbered
      <4>2. s.id \in Nat /\ s.id >= nextId
        <5>1. nextId \in Nat /\ s \in Rows(nextId, q)
          BY <1>a, <4>1
        <5> QED
          BY <5>1, BatchEnds
      <4>3. r.id \in Nat /\ r.id < nextId
        BY <3>2 DEF Recorded, Numbered, OneTab, Coming, RowT
      <4> QED
        BY <1>a, <3>6, <4>2, <4>3
    <3>10. \A k \in DOMAIN priv' : priv'[k] \in Nat /\ priv'[k] < nextKey'
      BY <2>1, <3>1 DEF Stored, Restrict
    <3>11. Stored'
      BY <2>1, <3>9, <3>10 DEF Stored, Coming
    <3> QED
      BY <3>5, <3>8, <3>11
  <2> QED
    BY <2>5, <2>6
<1>9. ASSUME NEW i \in DOMAIN handed, Redeliver(i)
      PROVE  Stored' /\ Answered' /\ Ready'
  <2>1. /\ UNCHANGED <<rows, priv, nextId, nextKey, tab, ledger, handed, seeded>>
        /\ stage[i] # "sent" /\ stage' = [stage EXCEPT ![i] = "sent"]
    BY <1>9 DEF Redeliver, device, server
  <2>2. /\ stage' \in Seq({"sent", "refused", "saved", "done"}) /\ Len(stage') = Len(handed)
        /\ \A k \in DOMAIN handed : k # i => stage'[k] = stage[k]
        /\ stage'[i] = "sent"
    BY <1>a, <1>d, <2>1
  <2>3. Answered'
    <3>1. Given' = Given
      BY <2>1 DEF Given
    <3> QED
      BY <1>d, <2>1, <2>2, <3>1 DEF Answered
  <2>4. handed[i].otp = {} \/ seeded[i] # <<>>
    BY <2>1 DEF Answered
  <2>5. Advertised' \subseteq Advertised
    BY <2>1, <2>2, <2>4 DEF Advertised, Open
  <2> QED
    BY <1>2, <2>1, <2>3, <2>5 DEF Ready, Held
<1> QED
  BY <1>3, <1>4, <1>5, <1>6, <1>7, <1>8, <1>9 DEF Next

LEMMA PreparedInit == Init => Prepared
<1> SUFFICES ASSUME Init PROVE Prepared
  OBVIOUS
<1>1. Typed
  BY DEF Init, Typed, Idle, TabT
<1>2. /\ rows = {} /\ handed = <<>> /\ stage = <<>> /\ seeded = <<>> /\ ledger = <<>>
      /\ DOMAIN priv = {} /\ \A t \in Tabs : tab[t].at = "idle" /\ tab[t].batch = {}
  BY DEF Init, Idle
<1>3. Recorded
  BY <1>1, <1>2 DEF Recorded, Numbered, IdsNeverRecycled, Handed, Batches, FreshKeys,
                    Popped1, HandedOnce, Out, Coming
<1>4. Stored /\ Ready
  BY <1>2 DEF Stored, Ready, Advertised, Open
<1>5. Answered
  BY <1>2 DEF Answered, Given, ToSet, Ids
<1> QED
  BY <1>3, <1>4, <1>5 DEF Prepared

\* Whatever prekey such a device has in the directory, or in a bundle it has
\* not answered yet, it can answer: its store has the private key and its ledger
\* does not know the id.  The private keys are stored before the batch is
\* published, the ids are never met again, and a key is burnt for the one bundle
\* that carried it.
THEOREM AdvertisedIsAnswerable ==
  ASSUME OneTab
  PROVE  Spec => []Answerable
<1>1. Init => Prepared
  BY PreparedInit
<1>2. Prepared /\ [Next]_vars => Prepared'
  BY PreparedStep
<1>3. Prepared => Answerable
  BY DEF Prepared, Ready, Answerable, Advertised, Open, Held
<1> QED
  BY <1>1, <1>2, <1>3, PTL DEF Spec

(***************************************************************************)
(* No key seeds two sessions of such a device.                             *)
(***************************************************************************)
\* The ledger has no id twice and no more than LEDGER_CAP, and each of them is
\* of a handshake that was accepted.
Ledger ==
    /\ IsInjective(ledger) /\ Len(ledger) <= LEDGER_CAP
    /\ \A id \in ToSet(ledger) : \E k \in Used : \E r \in handed[k].otp : r.id = id

\* What the store has under the id of a bundle is the key of that bundle.
Exact == \A r \in Given : r.id \in DOMAIN priv => priv[r.id] = r.key

\* An accepted handshake that is not between the save and the burn: its key is
\* gone unless a delete failed, and the ledger knows it unless it was displaced.
Burnt ==
    \A i \in DOMAIN handed : stage[i] # "saved" /\ seeded[i] # <<>> =>
        \A r \in handed[i].otp :
            /\ r.id \in DOMAIN priv => faults > 0
            /\ r.id \in ToSet(ledger) \/ Len(ledger) = LEDGER_CAP

Spent == faults \in Nat /\ Ledger /\ Exact /\ Burnt /\ SeedsOnce

\* markOtpConsumed: the ledger stays without repetitions and within its cap,
\* knows the id, and forgets one only when it is full.
LEMMA MarkedBound ==
  ASSUME ledger \in Seq(Nat), IsInjective(ledger), Len(ledger) <= LEDGER_CAP, NEW id \in Nat
  PROVE  /\ IsInjective(Marked(id)) /\ Len(Marked(id)) <= LEDGER_CAP
         /\ Len(ledger) <= Len(Marked(id))
         /\ id \in ToSet(Marked(id))
         /\ \A x \in ToSet(ledger) : x \in ToSet(Marked(id)) \/ Len(Marked(id)) = LEDGER_CAP
<1>0. LEDGER_CAP \in Nat \ {0} /\ Len(ledger) \in Nat
  BY DirectoryAssumption DEF DirectoryAssumption
<1>1. CASE id \in ToSet(ledger)
  <2>1. Marked(id) = ledger
    BY <1>1 DEF Marked
  <2> QED
    BY <1>0, <1>1, <2>1
<1>2. CASE id \notin ToSet(ledger)
  <2> DEFINE l == Append(ledger, id)
             n == Len(ledger) + 1
  <2>1. /\ l \in Seq(Nat) /\ Len(l) = n /\ l[n] = id /\ DOMAIN l = 1..n
        /\ \A i \in 1..Len(ledger) : l[i] = ledger[i]
    OBVIOUS
  <2>2. \A i \in DOMAIN ledger : ledger[i] # id
    BY <1>2 DEF ToSet
  <2>3. \A i, j \in 1..n : l[i] = l[j] => i = j
    <3>1. \A i, j \in 1..Len(ledger) : ledger[i] = ledger[j] => i = j
      BY DEF IsInjective
    <3>2. \A i \in 1..n : i = n \/ i \in 1..Len(ledger)
      BY <1>0
    <3> QED
      BY <2>1, <2>2, <3>1, <3>2
  <2>4. CASE Len(l) > LEDGER_CAP
    <3>1. Len(ledger) = LEDGER_CAP /\ n = LEDGER_CAP + 1
      BY <1>0, <2>1, <2>4
    <3>2. Marked(id) = Tail(l)
      BY <1>2, <2>4 DEF Marked
    <3>3. /\ Tail(l) \in Seq(Nat) /\ Len(Tail(l)) = n - 1
          /\ \A i \in 1..Len(Tail(l)) : Tail(l)[i] = l[i + 1]
      <4>1. l # <<>>
        <5>1. Len(<<>>) = 0
          OBVIOUS
        <5> HIDE DEF l
        <5> QED
          BY <1>0, <2>1, <5>1
      <4> QED
        BY <2>1, <4>1, HeadTailProperties
    <3> DEFINE m == Tail(l)
    <3> HIDE DEF l, n, m
    <3>4. Len(m) = LEDGER_CAP /\ DOMAIN m = 1..LEDGER_CAP
      BY <1>0, <3>1, <3>3 DEF m
    <3>5. \A i \in 1..LEDGER_CAP : i + 1 \in 1..n /\ m[i] = l[i + 1]
      BY <1>0, <3>1, <3>3, <3>4 DEF m
    <3>6. \A i, j \in 1..LEDGER_CAP : m[i] = m[j] => i = j
      <4> SUFFICES ASSUME NEW i \in 1..LEDGER_CAP, NEW j \in 1..LEDGER_CAP, m[i] = m[j]
                   PROVE  i = j
        OBVIOUS
      <4>1. i + 1 = j + 1
        BY <2>3, <3>5
      <4> QED
        BY <1>0, <4>1
    <3>7. m[LEDGER_CAP] = id /\ LEDGER_CAP \in 1..LEDGER_CAP
      BY <1>0, <2>1, <3>1, <3>5
    <3>8. id \in ToSet(m)
      BY <3>4, <3>7 DEF ToSet
    <3>9. IsInjective(m)
      BY <3>4, <3>6 DEF IsInjective
    <3>10. Marked(id) = m
      BY <3>2 DEF m
    <3> QED
      BY <1>0, <3>1, <3>4, <3>8, <3>9, <3>10
  <2>5. CASE ~(Len(l) > LEDGER_CAP)
    <3>1. Marked(id) = l
      BY <1>2, <2>5 DEF Marked
    <3>2. id \in ToSet(l) /\ \A x \in ToSet(ledger) : x \in ToSet(l)
      <4>1. n \in 1..n /\ \A i \in 1..Len(ledger) : i \in 1..n
        BY <1>0
      <4>2. DOMAIN ledger = 1..Len(ledger)
        OBVIOUS
      <4> HIDE DEF l, n
      <4> QED
        BY <2>1, <4>1, <4>2 DEF ToSet
    <3>3. IsInjective(l)
      <4> HIDE DEF l, n
      <4> QED
        BY <2>1, <2>3 DEF IsInjective
    <3> HIDE DEF l
    <3> QED
      BY <1>0, <2>1, <2>5, <3>1, <3>2, <3>3
  <2> QED
    BY <2>4, <2>5
<1> QED
  BY <1>1, <1>2

\* SeedOf, with the values.
LEMMA SeedOfOne ==
  ASSUME NEW s \in Seq(Nat), NEW k \in Nat
  PROVE  /\ SetToSeq({k}) \in Seq(Nat) /\ Len(SetToSeq({k})) = 1
         /\ ToSet(s \o SetToSeq({k})) \subseteq ToSet(s) \union {k}
         /\ Len(s \o SetToSeq({k})) = Len(s) + 1
<1> DEFINE S == {k}
<1>1. Cardinality(S) = 1
  BY FS_Singleton
<1>2. [i \in 1..1 |-> k] \in [1..Cardinality(S) -> S] /\ IsInjective([i \in 1..1 |-> k])
  BY <1>1 DEF IsInjective
<1>3. SetToSeq(S) \in [1..1 -> S]
  BY <1>1, <1>2 DEF SetToSeq
<1> DEFINE o == SetToSeq(S)
<1> HIDE DEF o
<1>4. DOMAIN o = 1..1 /\ \A i \in 1..1 : o[i] = k
  BY <1>3 DEF o
<1>5. o \in Seq(Nat)
  <2>1. [1..1 -> Nat] \in {[1..n -> Nat] : n \in Nat}
    OBVIOUS
  <2>2. Seq(Nat) = UNION {[1..n -> Nat] : n \in Nat}
    BY SeqDef, Zenon
  <2>3. o \in [1..1 -> Nat]
    BY <1>3 DEF o
  <2> QED
    BY <2>1, <2>2, <2>3, Zenon
<1>6. Len(o) = 1
  BY <1>4, <1>5
<1>7. /\ Len(s \o o) = Len(s) + 1
      /\ \A i \in 1..(Len(s) + 1) : (s \o o)[i] = IF i <= Len(s) THEN s[i] ELSE o[i - Len(s)]
  <2>1. /\ Len(s \o o) = Len(s) + Len(o)
        /\ \A i \in 1..Len(s) + Len(o) : (s \o o)[i] = IF i <= Len(s) THEN s[i] ELSE o[i - Len(s)]
    BY <1>5, ConcatProperties
  <2> QED
    BY <1>6, <2>1
<1>8. ASSUME NEW x \in ToSet(s \o o)
      PROVE  x \in ToSet(s) \union {k}
  <2>1. s \o o \in Seq(Nat)
    BY <1>5, ConcatProperties
  <2>2. PICK i \in 1..(Len(s) + 1) : x = (s \o o)[i]
    BY <1>7, <1>8, <2>1 DEF ToSet
  <2>3. CASE i <= Len(s)
    <3>1. i \in DOMAIN s /\ x = s[i]
      BY <1>7, <2>2, <2>3
    <3> QED
      BY <3>1 DEF ToSet
  <2>4. CASE ~(i <= Len(s))
    <3>1. i - Len(s) = 1
      BY <2>4
    <3>2. x = o[1]
      BY <1>7, <2>2, <2>4, <3>1
    <3> QED
      BY <1>4, <3>2
  <2> QED
    BY <2>3, <2>4
<1> QED
  BY <1>5, <1>6, <1>7, <1>8 DEF o

\* Facts about a prepared directory that the steps need.
LEMMA PreparedFacts ==
  ASSUME Prepared
  PROVE  /\ tab \in [Tabs -> TabT] /\ handed \in Seq(Fetch)
         /\ nextId \in Nat /\ nextKey \in Nat /\ rows \subseteq RowT
         /\ \A i \in DOMAIN handed : handed[i].otp \subseteq RowT
         /\ Len(stage) = Len(handed) /\ Len(seeded) = Len(handed)
         /\ stage \in Seq({"sent", "refused", "saved", "done"}) /\ seeded \in Seq(Seq(Nat))
         /\ DOMAIN stage = DOMAIN handed /\ DOMAIN seeded = DOMAIN handed
         /\ ledger \in Seq(Nat)
         /\ \A r \in Given : r \in RowT /\ r \in Out
         /\ \A i \in DOMAIN handed : \A r, s \in handed[i].otp : r = s
<1>1. /\ tab \in [Tabs -> TabT] /\ handed \in Seq(Fetch)
      /\ nextId \in Nat /\ nextKey \in Nat /\ rows \subseteq RowT
  BY DEF Prepared, Recorded, Handed, Typed
<1>2. \A i \in DOMAIN handed : handed[i] \in Fetch
  BY <1>1
<1>3. \A i \in DOMAIN handed : handed[i].otp \subseteq RowT
  BY <1>2 DEF Fetch
<1>4. /\ Len(stage) = Len(handed) /\ Len(seeded) = Len(handed)
      /\ stage \in Seq({"sent", "refused", "saved", "done"}) /\ seeded \in Seq(Seq(Nat))
      /\ ledger \in Seq(Nat)
  BY DEF Prepared, Answered
<1>5. DOMAIN stage = DOMAIN handed /\ DOMAIN seeded = DOMAIN handed
  BY <1>1, <1>4
<1>6. \A r \in Given : r \in RowT /\ r \in Out
  BY <1>3 DEF Given, Out
<1>7. \A i \in DOMAIN handed : \A r, s \in handed[i].otp : r = s
  BY DEF Prepared, Answered
<1> QED
  BY <1>1, <1>3, <1>4, <1>5, <1>6, <1>7

\* A prekey that is met again and not refused has been displaced from a full
\* ledger, after a delete that failed.
LEMMA SecondTime ==
  ASSUME Prepared, Spent, NEW i \in DOMAIN handed, NEW r \in handed[i].otp,
         stage[i] = "sent", seeded[i] # <<>>, ~Refused(r.id)
  PROVE  faults > 0 /\ Cardinality(Used) > LEDGER_CAP
<1>0. LEDGER_CAP \in Nat \ {0}
  BY DirectoryAssumption DEF DirectoryAssumption
<1>1. r.id \notin ToSet(ledger) /\ r.id \in DOMAIN priv
  BY DEF Refused
<1>2. faults > 0 /\ Len(ledger) = LEDGER_CAP
  BY <1>1 DEF Spent, Burnt
<1>3. ledger \in Seq(Nat) /\ DOMAIN ledger = 1..LEDGER_CAP
  BY <1>0, <1>2 DEF Prepared, Answered
<1>4. DOMAIN seeded = DOMAIN handed /\ DOMAIN seeded = 1..Len(seeded) /\ Len(seeded) \in Nat
  BY DEF Prepared, Recorded, Handed, Typed, Answered
<1>5. i \in Used /\ IsFiniteSet(Used)
  <2>1. IsFiniteSet(DOMAIN seeded)
    BY <1>4, FS_Interval
  <2> QED
    BY <1>4, <2>1, FS_Subset DEF Used
<1> DEFINE Of(p) == {k \in Used : \E s \in handed[k].otp : s.id = ledger[p]}
           f == [p \in 1..LEDGER_CAP |-> CHOOSE k \in Used : k \in Of(p)]
<1>6. \A p \in 1..LEDGER_CAP : Of(p) # {} /\ i \notin Of(p)
  <2> SUFFICES ASSUME NEW p \in 1..LEDGER_CAP PROVE Of(p) # {} /\ i \notin Of(p)
    OBVIOUS
  <2>1. ledger[p] \in ToSet(ledger)
    BY <1>3 DEF ToSet
  <2>2. \A s \in handed[i].otp : s = r
    BY PreparedFacts
  <2> QED
    BY <1>1, <2>1, <2>2 DEF Spent, Ledger
<1>7. \A p, q \in 1..LEDGER_CAP : \A k \in Of(p) : k \in Of(q) => p = q
  <2> SUFFICES ASSUME NEW p \in 1..LEDGER_CAP, NEW q \in 1..LEDGER_CAP,
                      NEW k \in Of(p), k \in Of(q)
               PROVE  p = q
    OBVIOUS
  <2>1. k \in DOMAIN handed
    BY <1>4 DEF Used
  <2>2. \A s, u \in handed[k].otp : s = u
    BY <2>1 DEF Prepared, Answered
  <2>3. ledger[p] = ledger[q]
    BY <2>2
  <2> QED
    BY <1>3, <2>3 DEF Spent, Ledger, IsInjective
<1>8. \A p \in 1..LEDGER_CAP : f[p] \in Of(p) /\ f[p] \in Used \ {i}
  <2> SUFFICES ASSUME NEW p \in 1..LEDGER_CAP PROVE f[p] \in Of(p) /\ f[p] \in Used \ {i}
    OBVIOUS
  <2>1. f[p] = CHOOSE k \in Used : k \in Of(p)
    OBVIOUS
  <2>2. \E k \in Used : k \in Of(p)
    BY <1>6
  <2> HIDE DEF f, Of
  <2>3. f[p] \in Used /\ f[p] \in Of(p)
    BY <2>1, <2>2
  <2> QED
    BY <1>6, <2>3
<1>9. f \in Injection(1..LEDGER_CAP, Used \ {i})
  <2> DEFINE T == Used \ {i}
  <2>1. f \in [1..LEDGER_CAP -> T]
    BY <1>8
  <2>2. DOMAIN f = 1..LEDGER_CAP
    OBVIOUS
  <2> HIDE DEF f, Of, T
  <2>3. IsInjective(f)
    <3> SUFFICES ASSUME NEW p \in 1..LEDGER_CAP, NEW q \in 1..LEDGER_CAP, f[p] = f[q]
                 PROVE  p = q
      BY <2>2 DEF IsInjective
    <3>1. f[p] \in Of(p) /\ f[p] \in Of(q)
      BY <1>8
    <3> QED
      BY <1>7, <3>1
  <2>4. f \in Injection(1..LEDGER_CAP, T)
    BY <2>1, <2>3 DEF Injection
  <2> QED
    BY <2>4 DEF T
<1> HIDE DEF f, Of
<1>10. Cardinality(1..LEDGER_CAP) = LEDGER_CAP
  BY <1>0, FS_Interval
<1>11. IsFiniteSet(Used \ {i}) /\ Cardinality(Used \ {i}) = Cardinality(Used) - 1
  BY <1>5, FS_RemoveElement
<1>12. Cardinality(1..LEDGER_CAP) <= Cardinality(Used \ {i})
  BY <1>9, <1>11, FS_Injection
<1>13. Cardinality(Used) \in Nat
  BY <1>5, FS_CardinalityType
<1> QED
  BY <1>0, <1>2, <1>10, <1>11, <1>12, <1>13

LEMMA UsedGrows ==
  ASSUME Answered', handed' \in Seq(Fetch), Used \subseteq Used', Cardinality(Used) > LEDGER_CAP
  PROVE  Cardinality(Used') > LEDGER_CAP
<1>1. seeded' \in Seq(Seq(Nat)) /\ Len(seeded') \in Nat /\ DOMAIN seeded' = 1..Len(seeded')
  BY DEF Answered
<1>2. IsFiniteSet(DOMAIN seeded')
  BY <1>1, FS_Interval
<1>3. IsFiniteSet(Used')
  <2>1. Used' \subseteq DOMAIN seeded'
    BY DEF Used
  <2> QED
    BY <1>2, <2>1, FS_Subset
<1>4. /\ IsFiniteSet(Used) /\ Cardinality(Used) <= Cardinality(Used')
  BY <1>3, FS_Subset
<1>5. LEDGER_CAP \in Nat /\ Cardinality(Used) \in Nat /\ Cardinality(Used') \in Nat
  BY <1>3, <1>4, FS_CardinalityType, DirectoryAssumption DEF DirectoryAssumption
<1> QED
  BY <1>4, <1>5

\* The handshakes stay, and the store keeps what it has of their keys.
LEMMA SpentQuiet ==
  ASSUME Spent, UNCHANGED <<ledger, handed, stage, seeded>>,
         faults' \in Nat, faults' >= faults,
         \A r \in Given : r.id \in DOMAIN priv' => r.id \in DOMAIN priv /\ priv'[r.id] = priv[r.id]
  PROVE  Spent'
<1>1. Given' = Given /\ Used' = Used
  BY DEF Given, Used
<1>2. Ledger'
  BY <1>1 DEF Spent, Ledger
<1>3. Exact'
  BY <1>1 DEF Spent, Exact
<1>4. faults > 0 => faults' > 0
  BY DEF Spent
<1>5. Burnt'
  <2>1. \A i \in DOMAIN handed : \A r \in handed[i].otp : r \in Given
    BY DEF Given
  <2> QED
    BY <1>4, <2>1 DEF Spent, Burnt
<1>6. SeedsOnce'
  BY <1>1, <1>4 DEF Spent, SeedsOnce
<1> QED
  BY <1>2, <1>3, <1>5, <1>6 DEF Spent

LEMMA SpentStep ==
  ASSUME OneTab, Prepared, Spent, [Next]_vars
  PROVE  Spent'
<1>0. Prepared' /\ LEDGER_CAP \in Nat \ {0} /\ MaxFaults \in Nat
  BY PreparedStep, DirectoryAssumption DEF DirectoryAssumption
<1>a. /\ tab \in [Tabs -> TabT] /\ handed \in Seq(Fetch)
      /\ nextId \in Nat /\ nextKey \in Nat /\ rows \subseteq RowT
      /\ \A i \in DOMAIN handed : handed[i].otp \subseteq RowT
      /\ Len(stage) = Len(handed) /\ Len(seeded) = Len(handed)
      /\ stage \in Seq({"sent", "refused", "saved", "done"}) /\ seeded \in Seq(Seq(Nat))
      /\ DOMAIN stage = DOMAIN handed /\ DOMAIN seeded = DOMAIN handed
      /\ ledger \in Seq(Nat)
  BY PreparedFacts
<1>b. /\ \A r \in Given : r \in RowT /\ r \in Out
      /\ \A i \in DOMAIN handed : \A r, s \in handed[i].otp : r = s
      /\ \A i \in DOMAIN handed : \A r \in handed[i].otp : r \in Given
  <2>1. \A i \in DOMAIN handed : \A r \in handed[i].otp : r \in Given
    BY DEF Given
  <2> QED
    BY <2>1, PreparedFacts
<1>c. /\ faults \in Nat /\ Ledger /\ Exact /\ Burnt /\ SeedsOnce
  BY DEF Spent
<1>d. ASSUME Used \subseteq Used', Cardinality(Used) > LEDGER_CAP
      PROVE  Cardinality(Used') > LEDGER_CAP
  BY <1>0, <1>d, UsedGrows DEF Prepared, Recorded, Handed, Typed
<1>1. ASSUME UNCHANGED <<priv, ledger, handed, stage, seeded, faults>>
      PROVE  Spent'
  <2>1. faults' \in Nat /\ faults' >= faults
    BY <1>1, <1>c
  <2> QED
    BY <1>1, <2>1, SpentQuiet
<1>2. CASE UNCHANGED vars
  BY <1>1, <1>2 DEF vars, device, server, handshakes
<1>3. ASSUME NEW t \in Tabs, Replenish(t) \/ CloseTab(t)
      PROVE  Spent'
  <2>1. CASE CheckInventory(t)
    BY <1>1, <2>1 DEF CheckInventory, handshakes
  <2>2. CASE Generate(t)
    BY <1>1, <2>2 DEF Generate, handshakes
  <2>3. CASE StoreNext(t)
    <3>1. PICK x \in tab[t].batch :
           /\ x.id >= nextId
           /\ priv' = [i \in DOMAIN priv \union {x.id} |-> IF i = x.id THEN x.key ELSE priv[i]]
      BY <2>3, StoreOne
    <3>2. UNCHANGED <<ledger, handed, stage, seeded, faults>> /\ tab[t].at = "store"
      BY <2>3 DEF StoreNext, At, handshakes
    <3>3. \A r \in Given : r.id \in Nat /\ r.id < nextId
      <4>1. \A u \in Tabs : u = t
        BY DEF OneTab
      <4>2. \A r \in Out : r.id < nextId
        BY <3>2, <4>1 DEF Prepared, Recorded, Numbered
      <4> QED
        BY <1>b, <4>2 DEF RowT
    <3>4. x.id \in Nat
      <4>1. tab[t] \in TabT
        BY <1>a
      <4> QED
        BY <4>1 DEF TabT, RowT
    <3>5. \A r \in Given : r.id # x.id
      BY <1>a, <3>1, <3>3, <3>4
    <3>6. \A r \in Given : r.id \in DOMAIN priv' => r.id \in DOMAIN priv /\ priv'[r.id] = priv[r.id]
      BY <3>1, <3>5
    <3>7. faults' \in Nat /\ faults' >= faults
      BY <1>c, <3>2
    <3> QED
      BY <3>2, <3>6, <3>7, SpentQuiet
  <2>4. CASE CountRows(t)
    BY <1>1, <2>4 DEF CountRows, handshakes
  <2>5. CASE InsertRows(t)
    BY <1>1, <2>5 DEF InsertRows, handshakes
  <2>6. CASE RecordNextId(t)
    BY <1>1, <2>6 DEF RecordNextId, handshakes
  <2>7. CASE CloseTab(t)
    <3>1. UNCHANGED <<priv, ledger, handed, stage, seeded>> /\ faults' = faults + 1
      BY <2>7 DEF CloseTab, handshakes
    <3>2. faults' \in Nat /\ faults' >= faults
      BY <1>c, <3>1
    <3> QED
      BY <3>1, <3>2, SpentQuiet
  <2> QED
    BY <1>3, <2>1, <2>2, <2>3, <2>4, <2>5, <2>6, <2>7 DEF Replenish
<1>4. ASSUME NEW r \in Requester, FetchBundle(r)
      PROVE  Spent'
  <2>1. PICK otp : otp \subseteq rows /\ handed' = Append(handed, [by |-> r, otp |-> otp])
    BY <1>4 DEF FetchBundle
  <2>2. /\ UNCHANGED <<priv, ledger, faults>>
        /\ stage' = Append(stage, "sent") /\ seeded' = Append(seeded, <<>>)
    BY <1>4 DEF FetchBundle, device
  <2> DEFINE n == Len(handed) + 1
             empty == <<>>
  <2>3. /\ DOMAIN handed' = DOMAIN handed \union {n} /\ n \notin DOMAIN handed
        /\ \A i \in DOMAIN handed : handed'[i] = handed[i]
        /\ handed'[n].otp = otp
    BY <1>a, <2>1
  <2>4. \A i \in DOMAIN handed : stage'[i] = stage[i]
    BY <1>a, <2>2
  <2>5. /\ DOMAIN seeded' = DOMAIN seeded \union {n} /\ seeded'[n] = empty
        /\ \A i \in DOMAIN handed : seeded'[i] = seeded[i]
    <3>1. empty \in Seq(Nat) /\ seeded' = Append(seeded, empty)
      BY <2>2
    <3> HIDE DEF empty
    <3> QED
      BY <1>a, <3>1
  <2>6. Len(empty) = 0 /\ ToSet(empty) = {}
    BY DEF ToSet
  <2>7. Used' = Used
    BY <1>a, <2>3, <2>5 DEF Used
  <2> HIDE DEF empty, n
  <2>8. Ledger'
    <3>1. \A k \in Used : handed'[k] = handed[k]
      BY <1>a, <2>3 DEF Used
    <3> QED
      BY <1>c, <2>2, <2>7, <3>1 DEF Ledger
  <2>9. Exact'
    <3>1. Given' = Given \union otp
      BY <2>3 DEF Given
    <3>2. \A x \in rows : Held(x)
      BY DEF Prepared, Ready, Advertised
    <3> QED
      BY <1>c, <2>1, <2>2, <3>1, <3>2 DEF Exact, Held
  <2>10. Burnt'
    BY <1>c, <2>2, <2>3, <2>4, <2>5 DEF Burnt, empty
  <2>11. SeedsOnce'
    <3>1. ASSUME NEW i \in DOMAIN handed'
          PROVE  /\ Len(seeded'[i]) > 1 => faults' > 0 /\ Cardinality(Used') > LEDGER_CAP
                 /\ \A k \in ToSet(seeded'[i]) : \E x \in handed'[i].otp : x.key = k
      <4>1. CASE i = n
        BY <2>5, <2>6, <4>1
      <4>2. CASE i \in DOMAIN handed
        <5>1. handed'[i] = handed[i] /\ seeded'[i] = seeded[i]
          BY <2>3, <2>5, <4>2
        <5>2. /\ Len(seeded[i]) > 1 => faults > 0 /\ Cardinality(Used) > LEDGER_CAP
              /\ \A k \in ToSet(seeded[i]) : \E x \in handed[i].otp : x.key = k
          BY <1>c, <4>2 DEF SeedsOnce
        <5> QED
          BY <2>2, <2>7, <5>1, <5>2
      <4> QED
        BY <2>3, <4>1, <4>2
    <3> QED
      BY <3>1 DEF SeedsOnce
  <2> QED
    BY <1>c, <2>2, <2>8, <2>9, <2>10, <2>11 DEF Spent
<1>5. ASSUME NEW r \in Requester, WindowExpires(r)
      PROVE  Spent'
  BY <1>1, <1>5 DEF WindowExpires, device, handshakes
<1>6. ASSUME NEW i \in DOMAIN handed, Accept(i)
      PROVE  Spent'
  <2>1. UNCHANGED <<priv, ledger, handed, faults>> /\ stage[i] = "sent"
    BY <1>6 DEF Accept, device
  <2>2. Given' = Given
    BY <2>1 DEF Given
  <2>3. PICK next \in {"refused", "saved"} : stage' = [stage EXCEPT ![i] = next]
    BY <1>6 DEF Accept
  <2>4. \A k \in DOMAIN handed : k # i => stage'[k] = stage[k]
    BY <1>a, <2>3
  <2>5. CASE \E r \in handed[i].otp : Refused(r.id)
    <3>1. seeded' = seeded
      BY <1>6, <2>5 DEF Accept
    <3>2. PICK r \in handed[i].otp : Refused(r.id)
      BY <2>5
    <3>3. Used' = Used
      BY <3>1 DEF Used
    <3>4. Burnt'
      <4>1. \A x \in handed[i].otp : x = r
        BY <1>b
      <4>2. stage'[i] = "refused"
        BY <1>6, <1>a, <2>5 DEF Accept
      <4>3. r.id \in ToSet(ledger) \/ r.id \notin DOMAIN priv
        BY <3>2 DEF Refused
      <4>4. seeded[i] # <<>> => /\ r.id \in DOMAIN priv => faults > 0
                                /\ r.id \in ToSet(ledger) \/ Len(ledger) = LEDGER_CAP
        BY <1>c, <2>1 DEF Burnt
      <4> QED
        BY <1>c, <2>1, <2>4, <3>1, <4>1, <4>4 DEF Burnt
    <3>5. Ledger' /\ Exact' /\ SeedsOnce'
      BY <1>c, <2>1, <2>2, <3>1, <3>3 DEF Ledger, Exact, SeedsOnce
    <3> QED
      BY <1>c, <2>1, <3>4, <3>5 DEF Spent
  <2>6. CASE ~\E r \in handed[i].otp : Refused(r.id)
    <3> DEFINE S == {priv[r.id] : r \in handed[i].otp}
    <3>1. seeded' = [seeded EXCEPT ![i] = @ \o SetToSeq(S)] /\ stage'[i] = "saved"
      BY <1>6, <1>a, <2>6 DEF Accept
    <3>2. seeded[i] \in Seq(Nat)
      BY <1>a
    <3>3. SetToSeq(S) \in Seq(Nat)
      <4>1. \A r \in handed[i].otp : priv[r.id] \in Nat
        BY <2>6 DEF Refused, Prepared, Stored
      <4>2. handed[i].otp = {} \/ \E x : handed[i].otp = {x}
        BY DEF Prepared, Answered
      <4>3. S = {} \/ \E k \in Nat : S = {k}
        BY <4>1, <4>2
      <4> QED
        BY <4>3, SeedOf
    <3> DEFINE o == SetToSeq(S)
               s == seeded[i] \o o
    <3>4. DOMAIN seeded' = DOMAIN seeded /\ seeded'[i] = s
          /\ \A k \in DOMAIN handed : k # i => seeded'[k] = seeded[k]
      BY <1>a, <3>1
    <3>5. handed[i].otp = {} => s = seeded[i]
      <4>1. SUFFICES ASSUME handed[i].otp = {} PROVE s = seeded[i]
        OBVIOUS
      <4>2. S = {}
        BY <4>1
      <4>3. o = <<>>
        <5>1. Cardinality({}) = 0
          BY FS_EmptySet
        <5>2. [k \in 1..0 |-> 0] \in [1..Cardinality({}) -> {}] /\ IsInjective([k \in 1..0 |-> 0])
          BY <5>1 DEF IsInjective
        <5>3. SetToSeq({}) \in [1..0 -> {}]
          BY <5>1, <5>2 DEF SetToSeq
        <5>4. o \in Seq(Nat) /\ DOMAIN o = 1..0
          BY <3>3, <4>2, <5>3
        <5> HIDE DEF o
        <5>5. Len(o) = 0
          BY <5>4
        <5> QED
          BY <5>4, <5>5, EmptySeq
      <4> HIDE DEF o
      <4> QED
        BY <3>2, <4>3, ConcatEmptySeq
    <3>6. ASSUME NEW r \in handed[i].otp
          PROVE  /\ Len(s) = Len(seeded[i]) + 1 /\ s # <<>>
                 /\ ToSet(s) \subseteq ToSet(seeded[i]) \union {r.key}
      <4>1. r.key \in Nat /\ priv[r.id] = r.key
        <5>1. r \in Given /\ r.id \in DOMAIN priv
          BY <1>b, <2>6 DEF Refused
        <5> QED
          BY <1>b, <1>c, <5>1 DEF Exact, RowT
      <4>2. handed[i].otp = {r}
        BY <1>b
      <4>3. S = {r.key}
        BY <4>1, <4>2
      <4>4. o = SetToSeq({r.key})
        BY <4>3
      <4> HIDE DEF o, S
      <4>5. /\ Len(s) = Len(seeded[i]) + 1
            /\ ToSet(s) \subseteq ToSet(seeded[i]) \union {r.key}
        BY <3>2, <4>1, <4>4, SeedOfOne
      <4>6. Len(seeded[i]) \in Nat /\ Len(<<>>) = 0
        BY <3>2
      <4> HIDE DEF s
      <4> QED
        BY <4>5, <4>6
    <3> HIDE DEF S, o, s
    <3>7. Used \subseteq Used'
      <4>1. ASSUME NEW k \in Used PROVE k \in Used'
        <5>1. k \in DOMAIN handed /\ seeded[k] # <<>>
          BY <1>a DEF Used
        <5>2. seeded'[k] # <<>>
          <6>1. CASE k # i
            BY <3>4, <5>1, <6>1
          <6>2. CASE k = i
            BY <3>4, <3>5, <3>6, <5>1, <6>2
          <6> QED
            BY <6>1, <6>2
        <5> QED
          BY <1>a, <3>4, <5>1, <5>2 DEF Used
      <4> QED
        BY <4>1
    <3>8. Ledger'
      BY <1>c, <2>1, <3>7 DEF Ledger
    <3>9. Exact'
      BY <1>c, <2>1, <2>2 DEF Exact
    <3>10. Burnt'
      BY <1>c, <2>1, <2>4, <3>1, <3>4 DEF Burnt
    <3>11. \A k \in DOMAIN handed : k # i =>
             /\ Len(seeded'[k]) > 1 => faults' > 0 /\ Cardinality(Used') > LEDGER_CAP
             /\ \A v \in ToSet(seeded'[k]) : \E x \in handed'[k].otp : x.key = v
      BY <1>c, <1>d, <2>1, <3>4, <3>7 DEF SeedsOnce
    <3>12. \A v \in ToSet(s) : \E x \in handed[i].otp : x.key = v
      <4>1. CASE handed[i].otp = {}
        BY <1>c, <3>5, <4>1 DEF SeedsOnce
      <4>2. CASE handed[i].otp # {}
        <5>1. PICK r : r \in handed[i].otp
          BY <4>2
        <5>2. ToSet(s) \subseteq ToSet(seeded[i]) \union {r.key}
          BY <3>6, <5>1
        <5> QED
          BY <1>c, <5>1, <5>2 DEF SeedsOnce
      <4> QED
        BY <4>1, <4>2
    <3>13. Len(s) > 1 => faults > 0 /\ Cardinality(Used) > LEDGER_CAP
      <4>1. CASE handed[i].otp = {}
        BY <1>c, <3>5, <4>1 DEF SeedsOnce
      <4>2. CASE handed[i].otp # {}
        <5>1. PICK r : r \in handed[i].otp
          BY <4>2
        <5>2. CASE seeded[i] = <<>>
          <6>1. Len(seeded[i]) = 0
            BY <5>2
          <6>2. Len(s) = 1
            BY <3>6, <5>1, <6>1
          <6> QED
            BY <6>2
        <5>3. CASE seeded[i] # <<>>
          BY <2>1, <2>6, <5>1, <5>3, SecondTime
        <5> QED
          BY <5>2, <5>3
      <4> QED
        BY <4>1, <4>2
    <3>14. SeedsOnce'
      <4>1. Len(seeded'[i]) > 1 => faults' > 0 /\ Cardinality(Used') > LEDGER_CAP
        BY <1>d, <2>1, <3>4, <3>7, <3>13
      <4>2. \A v \in ToSet(seeded'[i]) : \E x \in handed'[i].otp : x.key = v
        BY <2>1, <3>4, <3>12
      <4> QED
        BY <2>1, <3>11, <4>1, <4>2 DEF SeedsOnce
    <3> QED
      BY <1>c, <2>1, <3>8, <3>9, <3>10, <3>14 DEF Spent
  <2> QED
    BY <2>5, <2>6
<1>7. ASSUME NEW i \in DOMAIN handed, Burn(i)
      PROVE  Spent'
  <2>1. /\ UNCHANGED <<handed, seeded>>
        /\ stage[i] = "saved" /\ stage' = [stage EXCEPT ![i] = "done"]
    BY <1>7 DEF Burn
  <2>2. \A k \in DOMAIN handed : k # i => stage'[k] = stage[k]
    BY <1>a, <2>1
  <2>3. Given' = Given /\ Used' = Used
    BY <2>1 DEF Given, Used
  <2>4. PICK fail \in {0, 1} :
           /\ faults' = faults + fail
           /\ IF handed[i].otp = {}
              THEN fail = 0 /\ UNCHANGED <<ledger, priv>>
              ELSE \E r \in handed[i].otp :
                     /\ ledger' = Marked(r.id)
                     /\ priv' = IF fail = 1 THEN priv
                                ELSE Restrict(priv, DOMAIN priv \ {r.id})
    BY <1>7 DEF Burn
  <2>5. faults' \in Nat /\ faults' >= faults /\ (fail = 1 => faults' > 0)
    BY <1>c, <2>4
  <2>6. CASE handed[i].otp = {}
    <3>1. UNCHANGED <<ledger, priv, faults>>
      BY <1>c, <2>4, <2>6
    <3>2. Burnt'
      BY <1>c, <2>1, <2>2, <2>6, <3>1 DEF Burnt
    <3>3. Ledger' /\ Exact' /\ SeedsOnce'
      BY <1>c, <2>1, <2>3, <3>1 DEF Ledger, Exact, SeedsOnce
    <3> QED
      BY <2>5, <3>2, <3>3 DEF Spent
  <2>7. CASE handed[i].otp # {}
    <3>1. PICK r \in handed[i].otp :
             /\ ledger' = Marked(r.id)
             /\ fail = 1 => priv' = priv
             /\ fail = 0 => priv' = Restrict(priv, DOMAIN priv \ {r.id})
      BY <2>4, <2>7
    <3>2. r \in Given /\ r.id \in Nat /\ \A x \in handed[i].otp : x = r
      BY <1>b DEF RowT
    <3>3. /\ IsInjective(ledger') /\ Len(ledger') <= LEDGER_CAP
          /\ Len(ledger) <= Len(ledger') /\ Len(ledger') \in Nat /\ Len(ledger) \in Nat
          /\ r.id \in ToSet(ledger')
          /\ \A x \in ToSet(ledger) : x \in ToSet(ledger') \/ Len(ledger') = LEDGER_CAP
          /\ ToSet(ledger') \subseteq ToSet(ledger) \union {r.id}
      <4>1. IsInjective(ledger) /\ Len(ledger) <= LEDGER_CAP
        BY <1>c DEF Ledger
      <4>2. Marked(r.id) \in Seq(Nat) /\ ToSet(Marked(r.id)) \subseteq ToSet(ledger) \union {r.id}
        BY <1>a, <3>2, MarkedIds
      <4>3. /\ IsInjective(Marked(r.id)) /\ Len(Marked(r.id)) <= LEDGER_CAP
            /\ Len(ledger) <= Len(Marked(r.id))
            /\ r.id \in ToSet(Marked(r.id))
            /\ \A x \in ToSet(ledger) : x \in ToSet(Marked(r.id)) \/ Len(Marked(r.id)) = LEDGER_CAP
        BY <1>a, <3>2, <4>1, MarkedBound
      <4>4. Len(Marked(r.id)) \in Nat /\ Len(ledger) \in Nat
        BY <1>a, <4>2
      <4> QED
        BY <3>1, <4>2, <4>3, <4>4
    <3>4. i \in Used
      BY <1>a, <2>1, <2>7 DEF Prepared, Answered, Used
    <3>5. Ledger'
      <4>1. \A id \in ToSet(ledger') : \E k \in Used : \E x \in handed[k].otp : x.id = id
        BY <1>c, <3>3, <3>4 DEF Ledger
      <4> QED
        BY <2>1, <2>3, <3>3, <4>1 DEF Ledger
    <3>6. /\ DOMAIN priv' \subseteq DOMAIN priv
          /\ \A id \in DOMAIN priv' : priv'[id] = priv[id]
          /\ r.id \in DOMAIN priv' => fail = 1
      BY <3>1 DEF Restrict
    <3>7. Exact'
      BY <1>c, <2>3, <3>6 DEF Exact
    <3>8. Burnt'
      <4> SUFFICES ASSUME NEW k \in DOMAIN handed, stage'[k] # "saved", seeded[k] # <<>>,
                          NEW x \in handed[k].otp
                   PROVE  /\ x.id \in DOMAIN priv' => faults' > 0
                          /\ x.id \in ToSet(ledger') \/ Len(ledger') = LEDGER_CAP
        BY <2>1 DEF Burnt
      <4>1. CASE k = i
        BY <2>5, <3>2, <3>3, <3>6, <4>1
      <4>2. CASE k # i
        <5>1. /\ x.id \in DOMAIN priv => faults > 0
              /\ x.id \in ToSet(ledger) \/ Len(ledger) = LEDGER_CAP
          BY <1>c, <2>2, <4>2 DEF Burnt
        <5>2. x.id \in DOMAIN priv' => faults' > 0
          BY <1>c, <2>5, <3>6, <5>1
        <5>3. Len(ledger) = LEDGER_CAP => Len(ledger') = LEDGER_CAP
          BY <1>0, <3>3
        <5> QED
          BY <3>3, <5>1, <5>2, <5>3
      <4> QED
        BY <4>1, <4>2
    <3>9. SeedsOnce'
      <4>1. faults > 0 => faults' > 0
        BY <1>c, <2>5
      <4> QED
        BY <1>c, <2>1, <2>3, <4>1 DEF SeedsOnce
    <3> QED
      BY <2>5, <3>5, <3>7, <3>8, <3>9 DEF Spent
  <2> QED
    BY <2>6, <2>7
<1>8. ASSUME NEW i \in DOMAIN handed, Redeliver(i)
      PROVE  Spent'
  <2>1. /\ UNCHANGED <<priv, ledger, handed, seeded, faults>>
        /\ stage[i] # "saved" /\ stage' = [stage EXCEPT ![i] = "sent"]
    BY <1>8 DEF Redeliver, device
  <2>2. \A k \in DOMAIN handed : stage'[k] # "saved" => stage[k] # "saved"
    BY <1>a, <2>1
  <2>3. Given' = Given /\ Used' = Used
    BY <2>1 DEF Given, Used
  <2>4. Burnt'
    BY <1>c, <2>1, <2>2 DEF Burnt
  <2>5. Ledger' /\ Exact' /\ SeedsOnce'
    BY <1>c, <2>1, <2>3 DEF Ledger, Exact, SeedsOnce
  <2> QED
    BY <1>c, <2>1, <2>4, <2>5 DEF Spent
<1> QED
  BY <1>2, <1>3, <1>4, <1>5, <1>6, <1>7, <1>8 DEF Next

LEMMA SpentInit == Init => Spent
<1> SUFFICES ASSUME Init PROVE Spent
  OBVIOUS
<1>1. /\ handed = <<>> /\ seeded = <<>> /\ ledger = <<>> /\ faults = 0
  BY DEF Init
<1>2. DOMAIN handed = {} /\ DOMAIN ledger = {} /\ Len(ledger) = 0 /\ faults \in Nat
  BY <1>1
<1>3. Ledger
  BY <1>2, DirectoryAssumption DEF Ledger, IsInjective, ToSet, DirectoryAssumption
<1>4. Exact /\ Burnt /\ SeedsOnce
  BY <1>2 DEF Exact, Given, Burnt, SeedsOnce
<1> QED
  BY <1>2, <1>3, <1>4 DEF Spent

\* A device one tab unlocks, and that loses no answer to a publication, accepts
\* a handshake with the key its initiator used, and accepts one a second time
\* only after a delete that failed and LEDGER_CAP prekeys of others: the missing
\* key refuses it, or the ledger.
THEOREM KeysSeedOnce ==
  ASSUME OneTab
  PROVE  Spec => []SeedsOnce
<1>1. Init => Prepared
  BY PreparedInit
<1>2. Init => Spent
  BY SpentInit
<1>3. Prepared /\ Spent /\ [Next]_vars => Prepared' /\ Spent'
  BY PreparedStep, SpentStep
<1>4. Spent => SeedsOnce
  BY DEF Spent
<1> QED
  BY <1>1, <1>2, <1>3, <1>4, PTL DEF Spec

(***************************************************************************)
(* The types, with the pool within its limit.                              *)
(***************************************************************************)
Natural(r) == r.id > 0 /\ r.key > 0

\* Ids and keys count from one.
Counted ==
    /\ nextId > 0 /\ nextKey > 0
    /\ \A r \in Out : Natural(r)
    /\ \A t \in Tabs : \A r \in tab[t].batch : Natural(r)
    /\ \A i \in DOMAIN priv : i \in Nat /\ i > 0 /\ priv[i] > 0

\* A batch that was found to fit still fits when it is inserted.
Roomy ==
    /\ IsFiniteSet(rows) /\ Cardinality(rows) <= MAX_OPKS_PER_DEVICE
    /\ \A t \in Tabs : tab[t].at = "insert" =>
          Cardinality(rows) + OTP_BATCH_SIZE <= MAX_OPKS_PER_DEVICE

Shaped ==
    /\ Counted /\ Roomy
    /\ \A t \in Tabs : tab[t].at \in {"idle", "start"} => tab[t].batch = {}
    /\ pops \in [Requester -> Nat]

LEMMA BatchSize ==
  ASSUME NEW a \in Nat, NEW q \in Nat
  PROVE  /\ IsFiniteSet(Rows(a, q)) /\ Cardinality(Rows(a, q)) <= OTP_BATCH_SIZE
         /\ Rows(a, q) # {}
<1>0. OTP_BATCH_SIZE \in Nat \ {0}
  BY DirectoryAssumption DEF DirectoryAssumption
<1> DEFINE B == 0..(OTP_BATCH_SIZE - 1)
           f == [k \in B |-> [id |-> a + k, key |-> q + k]]
<1>1. f \in Surjection(B, Rows(a, q))
  BY DEF Surjection, Rows
<1>2. IsFiniteSet(B) /\ Cardinality(B) = OTP_BATCH_SIZE
  BY <1>0, FS_Interval
<1>3. 0 \in B
  BY <1>0
<1>4. Rows(a, q) # {}
  BY <1>3, BatchRows
<1> HIDE DEF B, f
<1>5. IsFiniteSet(Rows(a, q)) /\ Cardinality(Rows(a, q)) <= Cardinality(B)
  BY <1>1, <1>2, FS_Surjection
<1> QED
  BY <1>2, <1>4, <1>5

\* A step that leaves the pool alone, and tabs that stay where they are or
\* start over.
LEMMA RoomyQuiet ==
  ASSUME Roomy, rows' \subseteq rows,
         \A t \in Tabs : tab'[t].at = "insert" => tab[t].at = "insert"
  PROVE  Roomy'
<1>1. IsFiniteSet(rows') /\ Cardinality(rows') <= Cardinality(rows)
  BY FS_Subset DEF Roomy
<1>2. Cardinality(rows') \in Nat /\ Cardinality(rows) \in Nat
  BY <1>1, FS_CardinalityType DEF Roomy
<1>3. MAX_OPKS_PER_DEVICE \in Nat /\ OTP_BATCH_SIZE \in Nat
  BY DirectoryAssumption DEF DirectoryAssumption
<1>4. Cardinality(rows') <= MAX_OPKS_PER_DEVICE
  BY <1>1, <1>2, <1>3 DEF Roomy
<1>5. ASSUME NEW t \in Tabs, tab'[t].at = "insert"
      PROVE  Cardinality(rows') + OTP_BATCH_SIZE <= MAX_OPKS_PER_DEVICE
  <2>1. Cardinality(rows) + OTP_BATCH_SIZE <= MAX_OPKS_PER_DEVICE
    BY <1>5 DEF Roomy
  <2> QED
    BY <1>1, <1>2, <1>3, <2>1
<1> QED
  BY <1>1, <1>4, <1>5 DEF Roomy

LEMMA ShapedStep ==
  ASSUME OneTab, Prepared, Shaped, [Next]_vars
  PROVE  Shaped'
<1>0. /\ OTP_BATCH_SIZE \in Nat \ {0} /\ MAX_OPKS_PER_DEVICE \in Nat
  BY DirectoryAssumption DEF DirectoryAssumption
<1>a. /\ tab \in [Tabs -> TabT] /\ handed \in Seq(Fetch)
      /\ nextId \in Nat /\ nextKey \in Nat /\ rows \subseteq RowT
      /\ \A r \in Given : r \in RowT /\ r \in Out
  BY PreparedFacts
<1>b. /\ Counted /\ Roomy /\ pops \in [Requester -> Nat]
      /\ \A t \in Tabs : tab[t].at \in {"idle", "start"} => tab[t].batch = {}
  BY DEF Shaped
<1>1. ASSUME UNCHANGED <<nextId, nextKey, tab, pops>>, rows' \subseteq rows, Out' \subseteq Out,
             DOMAIN priv' \subseteq DOMAIN priv, \A i \in DOMAIN priv' : priv'[i] = priv[i]
      PROVE  Shaped'
  <2>1. Counted'
    BY <1>1, <1>b DEF Counted, Natural
  <2>2. Roomy'
    BY <1>1, <1>b, RoomyQuiet
  <2> QED
    BY <1>1, <1>b, <2>1, <2>2 DEF Shaped
<1>2. CASE UNCHANGED vars
  BY <1>1, <1>2 DEF vars, device, server, handshakes, Out
<1>3. ASSUME NEW t \in Tabs, Replenish(t) \/ CloseTab(t)
      PROVE  Shaped'
  <2>1. tab[t] \in TabT /\ \A u \in Tabs : u = t
    BY <1>a DEF OneTab
  <2> DEFINE none == {}
  <2>2. ASSUME NEW p, NEW b, Goto(t, p, b), UNCHANGED <<rows, handed, nextKey, pops, priv>>,
               nextId' \in Nat, nextId' > 0, p # "insert",
               (b = none /\ p \in {"idle", "start"}) \/ (b = tab[t].batch /\ p \notin {"idle", "start"})
        PROVE  Shaped'
    <3>1. tab'[t].at = p /\ tab'[t].batch = b
      BY <1>a, <2>2, TabMoves
    <3>2. Out' = Out
      BY <2>2 DEF Out
    <3>3. Counted'
      <4>1. \A u \in Tabs : \A r \in tab'[u].batch : r \in tab[u].batch
        BY <2>1, <2>2, <3>1
      <4> QED
        BY <1>b, <2>2, <3>2, <4>1 DEF Counted, Natural
    <3>4. Roomy'
      <4>1. \A u \in Tabs : tab'[u].at = "insert" => tab[u].at = "insert"
        BY <2>1, <2>2, <3>1
      <4> QED
        BY <1>b, <2>2, <4>1, RoomyQuiet
    <3>5. \A u \in Tabs : tab'[u].at \in {"idle", "start"} => tab'[u].batch = {}
      BY <2>1, <2>2, <3>1
    <3> QED
      BY <1>b, <2>2, <3>3, <3>4, <3>5 DEF Shaped
  <2>3. nextId > 0 /\ nextId \in Nat
    BY <1>a, <1>b DEF Counted
  <2>4. CASE CheckInventory(t)
    <3>1. /\ Goto(t, "start", none) /\ UNCHANGED <<rows, handed, nextKey, pops, priv, nextId>>
      BY <2>4 DEF CheckInventory, server, handshakes
    <3> QED
      BY <2>2, <2>3, <3>1
  <2>5. CASE CloseTab(t)
    <3>1. /\ Goto(t, "idle", none) /\ UNCHANGED <<rows, handed, nextKey, pops, priv, nextId>>
      BY <2>5 DEF CloseTab, server, handshakes
    <3> QED
      BY <2>2, <2>3, <3>1
  <2>6. CASE Generate(t)
    <3>1. /\ Goto(t, "store", Batch) /\ Batch = Rows(nextId, nextKey)
          /\ nextKey' = nextKey + OTP_BATCH_SIZE
          /\ UNCHANGED <<priv, nextId>>
      BY <2>6 DEF Generate, Batch, Rows
    <3>2. UNCHANGED <<rows, handed, pops>>
      BY <2>6 DEF Generate, server, handshakes
    <3>3. tab'[t].at = "store" /\ tab'[t].batch = Rows(nextId, nextKey)
      BY <1>a, <3>1, TabMoves
    <3>4. Out' = Out
      BY <3>2 DEF Out
    <3>5. \A r \in Rows(nextId, nextKey) : Natural(r)
      <4>1. nextKey > 0 /\ nextKey \in Nat
        BY <1>a, <1>b DEF Counted
      <4>2. \A r \in Rows(nextId, nextKey) : /\ r.id \in nextId..(nextId + OTP_BATCH_SIZE - 1)
                                             /\ r.key \in nextKey..(nextKey + OTP_BATCH_SIZE - 1)
        BY <2>3, <4>1, BatchBounds
      <4> QED
        BY <1>0, <2>3, <4>1, <4>2 DEF Natural
    <3>6. Counted'
      <4>1. nextKey' > 0
        BY <1>0, <1>a, <3>1
      <4>2. \A u \in Tabs : \A r \in tab'[u].batch : Natural(r)
        BY <2>1, <3>3, <3>5
      <4>3. nextId' > 0 /\ \A i \in DOMAIN priv' : i \in Nat /\ i > 0 /\ priv'[i] > 0
        BY <1>b, <2>3, <3>1 DEF Counted
      <4>4. \A r \in Out' : Natural(r)
        BY <1>b, <3>4 DEF Counted
      <4> QED
        BY <4>1, <4>2, <4>3, <4>4 DEF Counted, Natural
    <3>7. Roomy'
      <4>1. \A u \in Tabs : tab'[u].at = "insert" => tab[u].at = "insert"
        BY <2>1, <3>3
      <4> QED
        BY <1>b, <3>2, <4>1, RoomyQuiet
    <3>8. \A u \in Tabs : tab'[u].at \in {"idle", "start"} => tab'[u].batch = {}
      BY <2>1, <3>3
    <3> QED
      BY <1>b, <3>2, <3>6, <3>7, <3>8 DEF Shaped
  <2>7. CASE StoreNext(t)
    <3>1. PICK x \in tab[t].batch :
           /\ x.id >= nextId
           /\ priv' = [i \in DOMAIN priv \union {x.id} |-> IF i = x.id THEN x.key ELSE priv[i]]
           /\ tab'[t].batch = tab[t].batch
           /\ tab'[t].at \in {"store", "count"}
      BY <2>7, StoreOne
    <3>2. UNCHANGED <<nextId, nextKey, rows, handed, pops>>
      BY <2>7 DEF StoreNext, server, handshakes
    <3>3. Out' = Out
      BY <3>2 DEF Out
    <3>4. \A i \in DOMAIN priv' : i \in Nat /\ i > 0 /\ priv'[i] > 0
      <4>1. x \in RowT /\ Natural(x)
        BY <1>b, <2>1, <3>1 DEF Counted, TabT
      <4> QED
        BY <1>b, <3>1, <4>1 DEF Counted, Natural, RowT
    <3>5. Counted'
      BY <1>b, <2>1, <3>1, <3>2, <3>3, <3>4 DEF Counted, Natural
    <3>6. Roomy'
      <4>1. \A u \in Tabs : tab'[u].at = "insert" => tab[u].at = "insert"
        BY <2>1, <3>1
      <4> QED
        BY <1>b, <3>2, <4>1, RoomyQuiet
    <3>7. \A u \in Tabs : tab'[u].at \in {"idle", "start"} => tab'[u].batch = {}
      BY <2>1, <3>1
    <3> QED
      BY <1>b, <3>2, <3>5, <3>6, <3>7 DEF Shaped
  <2>8. CASE CountRows(t)
    <3>1. UNCHANGED <<rows, handed, nextKey, pops, priv, nextId>>
      BY <2>8 DEF CountRows, server, handshakes
    <3>2. CASE Cardinality(rows) + OTP_BATCH_SIZE > MAX_OPKS_PER_DEVICE
      <4>1. Goto(t, "idle", none)
        BY <2>8, <3>2 DEF CountRows
      <4> QED
        BY <2>2, <2>3, <3>1, <4>1
    <3>3. CASE ~(Cardinality(rows) + OTP_BATCH_SIZE > MAX_OPKS_PER_DEVICE)
      <4>1. Goto(t, "insert", tab[t].batch)
        BY <2>8, <3>3 DEF CountRows
      <4>2. tab'[t].at = "insert" /\ tab'[t].batch = tab[t].batch
        BY <1>a, <4>1, TabMoves
      <4>3. Out' = Out
        BY <3>1 DEF Out
      <4>4. Counted'
        BY <1>b, <2>1, <3>1, <4>2, <4>3 DEF Counted, Natural
      <4>5. Cardinality(rows) \in Nat
        BY <1>b, FS_CardinalityType DEF Roomy
      <4>6. Cardinality(rows) + OTP_BATCH_SIZE <= MAX_OPKS_PER_DEVICE
        BY <1>0, <3>3, <4>5
      <4>7. Roomy'
        BY <1>b, <3>1, <4>6 DEF Roomy
      <4>8. \A u \in Tabs : tab'[u].at \in {"idle", "start"} => tab'[u].batch = {}
        BY <2>1, <4>2
      <4> QED
        BY <1>b, <3>1, <4>4, <4>7, <4>8 DEF Shaped
    <3> QED
      BY <3>2, <3>3
  <2>9. CASE InsertRows(t)
    <3>1. /\ Goto(t, "record", tab[t].batch) /\ tab[t].at = "insert"
          /\ UNCHANGED <<handed, nextKey, pops, priv, nextId>>
          /\ rows' \subseteq rows \union tab[t].batch
      BY <2>9 DEF InsertRows, At, handshakes
    <3>2. tab'[t].at = "record" /\ tab'[t].batch = tab[t].batch
      BY <1>a, <3>1, TabMoves
    <3>3. PICK q \in Nat : tab[t].batch = Rows(nextId, q)
      BY <3>1 DEF Prepared, Recorded, Numbered, Coming
    <3>4. Counted'
      <4>1. Out' \subseteq Out \union tab[t].batch
        BY <3>1 DEF Out
      <4> QED
        BY <1>b, <2>1, <3>1, <3>2, <4>1 DEF Counted, Natural
    <3>5. IsFiniteSet(rows') /\ Cardinality(rows') <= MAX_OPKS_PER_DEVICE
      <4> DEFINE b == tab[t].batch
                 both == rows \union b
      <4>1. IsFiniteSet(b) /\ Cardinality(b) <= OTP_BATCH_SIZE
        BY <2>3, <3>3, BatchSize
      <4>2. IsFiniteSet(rows) /\ Cardinality(rows) + OTP_BATCH_SIZE <= MAX_OPKS_PER_DEVICE
        BY <1>b, <3>1 DEF Roomy
      <4>3. rows' \in SUBSET both
        BY <3>1
      <4> HIDE DEF b
      <4>4. /\ IsFiniteSet(both)
            /\ Cardinality(both) = Cardinality(rows) + Cardinality(b) - Cardinality(rows \cap b)
        BY <4>1, <4>2, FS_Union
      <4>5. IsFiniteSet(rows \cap b)
        <5>1. rows \cap b \in SUBSET rows
          OBVIOUS
        <5> QED
          BY <4>2, <5>1, FS_Subset
      <4> HIDE DEF both
      <4>6. IsFiniteSet(rows') /\ Cardinality(rows') <= Cardinality(both)
        BY <4>3, <4>4, FS_Subset
      <4>7. /\ Cardinality(b) \in Nat /\ Cardinality(rows) \in Nat /\ Cardinality(rows \cap b) \in Nat
            /\ Cardinality(both) \in Nat /\ Cardinality(rows') \in Nat
        BY <4>1, <4>2, <4>4, <4>5, <4>6, FS_CardinalityType
      <4> QED
        BY <1>0, <4>1, <4>2, <4>4, <4>6, <4>7
    <3>6. Roomy'
      BY <2>1, <3>2, <3>5 DEF Roomy
    <3>7. \A u \in Tabs : tab'[u].at \in {"idle", "start"} => tab'[u].batch = {}
      BY <2>1, <3>2
    <3> QED
      BY <1>b, <3>1, <3>4, <3>6, <3>7 DEF Shaped
  <2>10. CASE RecordNextId(t)
    <3>1. PICK q \in Nat : tab[t].batch = Rows(nextId, q)
      BY <2>10 DEF RecordNextId, At, Prepared, Recorded, Numbered
    <3>2. /\ Goto(t, "idle", none) /\ UNCHANGED <<rows, handed, nextKey, pops, priv>>
          /\ nextId' = Max(Ids(Rows(nextId, q))) + 1
      BY <2>10, <3>1 DEF RecordNextId, NextAfter, server, handshakes
    <3>3. nextId' = (nextId + OTP_BATCH_SIZE - 1) + 1
      BY <2>3, <3>2, BatchBounds
    <3>4. nextId' \in Nat /\ nextId' > 0
      BY <1>0, <2>3, <3>3
    <3> QED
      BY <2>2, <3>2, <3>4
  <2> QED
    BY <1>3, <2>4, <2>5, <2>6, <2>7, <2>8, <2>9, <2>10 DEF Replenish
<1>4. ASSUME NEW r \in Requester, FetchBundle(r)
      PROVE  Shaped'
  <2>1. PICK otp : otp \subseteq rows /\ rows' = rows \ otp
                   /\ handed' = Append(handed, [by |-> r, otp |-> otp])
    BY <1>4 DEF FetchBundle, Popped
  <2>2. /\ DOMAIN handed' = DOMAIN handed \union {Len(handed) + 1}
        /\ \A i \in DOMAIN handed : handed'[i] = handed[i]
        /\ handed'[Len(handed) + 1].otp = otp
    BY <1>a, <2>1
  <2>3. Out' \subseteq Out
    BY <2>1, <2>2 DEF Out
  <2>4. UNCHANGED <<priv, nextId, nextKey, tab>> /\ pops' = [pops EXCEPT ![r] = @ + 1]
    BY <1>4 DEF FetchBundle, device
  <2>5. pops' \in [Requester -> Nat]
    BY <1>b, <2>4
  <2>6. Counted'
    BY <1>b, <2>3, <2>4 DEF Counted, Natural
  <2>7. Roomy'
    BY <1>b, <2>1, <2>4, RoomyQuiet
  <2> QED
    BY <1>b, <2>4, <2>5, <2>6, <2>7 DEF Shaped
<1>5. ASSUME NEW r \in Requester, WindowExpires(r)
      PROVE  Shaped'
  <2>1. UNCHANGED <<priv, nextId, nextKey, tab, rows, handed>> /\ pops' = [pops EXCEPT ![r] = 0]
    BY <1>5 DEF WindowExpires, device, handshakes
  <2>2. pops' \in [Requester -> Nat]
    BY <1>b, <2>1
  <2>3. Counted'
    BY <1>b, <2>1 DEF Counted, Natural, Out
  <2>4. Roomy'
    BY <1>b, <2>1, RoomyQuiet
  <2> QED
    BY <1>b, <2>1, <2>2, <2>3, <2>4 DEF Shaped
<1>6. ASSUME NEW i \in DOMAIN handed, Accept(i) \/ Redeliver(i)
      PROVE  Shaped'
  BY <1>1, <1>6 DEF Accept, Redeliver, device, server, Out
<1>7. ASSUME NEW i \in DOMAIN handed, Burn(i)
      PROVE  Shaped'
  <2>1. UNCHANGED <<nextId, nextKey, tab, rows, pops, handed>>
    BY <1>7 DEF Burn, server
  <2>2. priv' = priv \/ \E r \in handed[i].otp : priv' = Restrict(priv, DOMAIN priv \ {r.id})
    BY <1>7 DEF Burn
  <2>3. DOMAIN priv' \subseteq DOMAIN priv /\ \A k \in DOMAIN priv' : priv'[k] = priv[k]
    BY <2>2 DEF Restrict
  <2> QED
    BY <1>1, <2>1, <2>3 DEF Out
<1> QED
  BY <1>2, <1>3, <1>4, <1>5, <1>6, <1>7 DEF Next

LEMMA ShapeIsType ==
  ASSUME Prepared, Spent, Shaped
  PROVE  TypeOK
<1>a. /\ tab \in [Tabs -> TabT] /\ handed \in Seq(Fetch)
      /\ nextId \in Nat /\ nextKey \in Nat /\ rows \subseteq RowT
      /\ Len(stage) = Len(handed) /\ Len(seeded) = Len(handed)
      /\ stage \in Seq({"sent", "refused", "saved", "done"}) /\ seeded \in Seq(Seq(Nat))
      /\ DOMAIN stage = DOMAIN handed /\ DOMAIN seeded = DOMAIN handed
      /\ \A r \in Given : r \in RowT /\ r \in Out
      /\ \A i \in DOMAIN handed : \A r, s \in handed[i].otp : r = s
  BY PreparedFacts
<1>b. Counted /\ Roomy
  BY DEF Shaped
<1>1. ASSUME NEW r, r \in RowT, Natural(r), r.key < nextKey
      PROVE  r \in Row
  BY <1>1, <1>a DEF Row, RowT, Natural
<1>2. \A r \in Out : r.key < nextKey
  BY DEF Prepared, Recorded, Handed, FreshKeys
<1>3. rows \subseteq Row
  <2>1. \A r \in rows : r \in Out
    BY DEF Out
  <2> QED
    BY <1>1, <1>2, <1>a, <1>b, <2>1 DEF Counted
<1>4. Cardinality(Ids(rows)) = Cardinality(rows)
  <2> DEFINE f == [r \in rows |-> r.id]
  <2>1. \A r, s \in rows : r.id = s.id => r = s
    <3>1. \A r, s \in rows : r.id = s.id => r.key = s.key
      BY DEF Prepared, Recorded, IdsNeverRecycled
    <3> QED
      BY <1>a, <3>1 DEF RowT
  <2>2. f \in Surjection(rows, Ids(rows))
    BY DEF Surjection, Ids
  <2>3. f \in Injection(rows, Ids(rows))
    BY <2>1 DEF Injection, IsInjective, Ids
  <2> HIDE DEF f
  <2> QED
    BY <1>b, <2>2, <2>3, FS_Surjection DEF Roomy
<1>5. \A i \in DOMAIN priv : [id |-> i, key |-> priv[i]] \in Row
  <2> SUFFICES ASSUME NEW i \in DOMAIN priv PROVE [id |-> i, key |-> priv[i]] \in Row
    OBVIOUS
  <2>1. priv[i] \in Nat /\ priv[i] < nextKey /\ priv[i] > 0 /\ i \in Nat /\ i > 0
    BY <1>b DEF Prepared, Stored, Counted
  <2> QED
    BY <1>a, <2>1 DEF Row
<1>6. ASSUME NEW t \in Tabs
      PROVE  /\ tab[t].at \in {"idle", "start", "store", "count", "insert", "record"}
             /\ tab[t].batch \subseteq Row
             /\ tab[t].batch = {} <=> tab[t].at \in {"idle", "start"}
  <2>1. tab[t] \in TabT
    BY <1>a
  <2>2. /\ tab[t].at \in {"idle", "start", "store", "count", "insert", "record"}
        /\ tab[t].batch \subseteq RowT
    BY <2>1 DEF TabT
  <2>3. tab[t].batch \subseteq Row
    <3>1. \A r \in tab[t].batch : r.key < nextKey
      BY DEF Prepared, Recorded, Handed, FreshKeys
    <3> QED
      BY <1>1, <1>b, <2>2, <3>1 DEF Counted
  <2>4. tab[t].at \in {"idle", "start"} => tab[t].batch = {}
    BY DEF Shaped
  <2>5. tab[t].at \notin {"idle", "start"} => tab[t].batch # {}
    <3> SUFFICES ASSUME tab[t].at \notin {"idle", "start"} PROVE tab[t].batch # {}
      OBVIOUS
    <3>1. PICK a \in Nat, q \in Nat : tab[t].batch = Rows(a, q)
      BY <2>2 DEF Prepared, Recorded, Handed, Batches
    <3> QED
      BY <3>1, BatchSize
  <2> QED
    BY <2>2, <2>3, <2>4, <2>5
<1>7. ASSUME NEW i \in DOMAIN handed
      PROVE  handed[i].otp \subseteq Row /\ Cardinality(handed[i].otp) <= 1
  <2>1. \A r \in handed[i].otp : r \in Given
    BY DEF Given
  <2>2. handed[i].otp \subseteq Row
    BY <1>1, <1>2, <1>a, <1>b, <2>1 DEF Counted
  <2>3. handed[i].otp = {} \/ \E r : handed[i].otp = {r}
    BY DEF Prepared, Answered
  <2>4. Cardinality(handed[i].otp) = 0 \/ Cardinality(handed[i].otp) = 1
    BY <2>3, FS_EmptySet, FS_Singleton
  <2> QED
    BY <2>2, <2>4
<1>8. stage \in [DOMAIN handed -> {"sent", "refused", "saved", "done"}]
  <2>1. \A i \in DOMAIN stage : stage[i] \in {"sent", "refused", "saved", "done"}
    BY <1>a
  <2>2. stage = [i \in DOMAIN stage |-> stage[i]]
    BY <1>a
  <2> QED
    BY <1>a, <2>1, <2>2
<1>9. nextId \in Nat \ {0} /\ Cardinality(rows) <= MAX_OPKS_PER_DEVICE
  BY <1>a, <1>b DEF Counted, Roomy
<1>10. IsInjective(ledger) /\ Len(ledger) <= LEDGER_CAP
  BY DEF Spent, Ledger
<1>11. pops \in [Requester -> Nat]
  BY DEF Shaped
<1> QED
  BY <1>3, <1>4, <1>5, <1>6, <1>7, <1>8, <1>9, <1>10, <1>11, <1>a DEF TypeOK

\* A device one tab unlocks, and that loses no answer to a publication: rows
\* with one key per id, never more of them than MAX_OPKS_PER_DEVICE although
\* they are counted in one statement and inserted in another, and a ledger
\* without repetitions and within its cap.
THEOREM TypeCorrect ==
  ASSUME OneTab
  PROVE  Spec => []TypeOK
<1>1. Init => Prepared
  BY PreparedInit
<1>2. Init => Spent
  BY SpentInit
<1>3. Init => Shaped
  <2> SUFFICES ASSUME Init PROVE Shaped
    OBVIOUS
  <2>1. /\ handed = <<>> /\ nextId = 1 /\ nextKey = 1
        /\ DOMAIN priv = {} /\ \A t \in Tabs : tab[t].at = "idle" /\ tab[t].batch = {}
    BY DEF Init, Idle
  <2>2. rows = {} /\ pops \in [Requester -> Nat]
    BY DEF Init
  <2>3. Counted
    <3>1. Out = {}
      BY <2>1, <2>2 DEF Out
    <3> QED
      BY <2>1, <3>1 DEF Counted
  <2>4. Roomy
    <3>1. IsFiniteSet(rows) /\ Cardinality(rows) = 0
      BY <2>2, FS_EmptySet
    <3>2. MAX_OPKS_PER_DEVICE \in Nat
      BY DirectoryAssumption DEF DirectoryAssumption
    <3> QED
      BY <2>1, <3>1, <3>2 DEF Roomy
  <2> QED
    BY <2>1, <2>2, <2>3, <2>4 DEF Shaped
<1>4. Prepared /\ Spent /\ Shaped /\ [Next]_vars => Prepared' /\ Spent' /\ Shaped'
  BY PreparedStep, SpentStep, ShapedStep
<1>5. Prepared /\ Spent /\ Shaped => TypeOK
  BY ShapeIsType
<1> QED
  BY <1>1, <1>2, <1>3, <1>4, <1>5, PTL DEF Spec
=============================================================================
