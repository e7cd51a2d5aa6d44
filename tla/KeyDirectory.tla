---------------------------- MODULE KeyDirectory ----------------------------
(***************************************************************************)
(* The one-time prekeys of one device, from generation to the handshake    *)
(* that uses them up: the replenishment of client/src/lib/vault/           *)
(* activate-vault.ts, the directory of server/src/routes/keys.ts that      *)
(* stores the public halves and hands them out, and the responder's replay *)
(* ledger (client/src/lib/ratchet/otp-ledger.ts, prekey-store.ts).         *)
(*                                                                         *)
(* A key pair is a number, and its two halves carry the same number.  Every *)
(* requester sets up a session of its own with the device, so handshakes   *)
(* meet in the prekeys only (DrSession has the sessions, and the tab that  *)
(* is closed between saving one and burning its prekey).                   *)
(***************************************************************************)
EXTENDS Integers, Sequences, FiniteSets, SequencesExt, FiniteSetsExt, Functions

CONSTANTS
    Tabs,                       \* browser contexts of the device that unlock its vault
    Requester,                  \* users who fetch its bundle
    OTP_REPLENISH_THRESHOLD,
    OTP_BATCH_SIZE,
    MAX_OPKS_PER_DEVICE,
    OPK_POPS_PER_TARGET_PER_HOUR,
    LEDGER_CAP,
    Fragile,                    \* the phases of a replenishment a tab may be closed in
    MaxBatches,                 \* bound: batches generated
    MaxFetches,                 \* bound: bundles served
    MaxFaults                   \* bound: tabs closed, failed deletes

ASSUME DirectoryAssumption ==
    /\ Tabs # {}
    /\ {OTP_BATCH_SIZE, LEDGER_CAP} \subseteq Nat \ {0}
    /\ {OTP_REPLENISH_THRESHOLD, MAX_OPKS_PER_DEVICE, OPK_POPS_PER_TARGET_PER_HOUR,
        MaxBatches, MaxFetches, MaxFaults} \subseteq Nat
    /\ Fragile \subseteq {"start", "store", "count", "record"}

VARIABLES
    rows,      \* onetime_prekeys on the server, records [id, key]
    priv,      \* the prekey store: id |-> private key
    nextId,    \* OTP_NEXT_ID_KEY in localStorage
    ledger,    \* ids used up, oldest first
    tab,       \* tab[t]: the replenishment t is running
    nextKey,   \* the next key pair to generate
    pops,      \* opkPops[r]: prekeys r asked for in the current hour
    handed,    \* bundles served, in order: [by, otp], otp a set of one row or none
    stage,     \* stage[i]: where the device is with the handshake of handed[i]
    faults,
    seeded     \* history: seeded[i], the private keys handed[i] was accepted with

device == <<priv, nextId, ledger, tab, nextKey>>
server == <<rows, pops>>
handshakes == <<handed, stage, seeded>>
vars == <<device, server, handshakes, faults>>

Idle == [at |-> "idle", batch |-> {}]
At(t, phase) == tab[t].at = phase
Goto(t, phase, batch) == tab' = [tab EXCEPT ![t] = [at |-> phase, batch |-> batch]]

Ids(rs) == {r.id : r \in rs}

Init ==
    /\ rows = {}
    /\ priv = [i \in {} |-> 0]
    /\ nextId = 1
    /\ ledger = <<>>
    /\ tab = [t \in Tabs |-> Idle]
    /\ nextKey = 1
    /\ pops = [r \in Requester |-> 0]
    /\ handed = <<>>
    /\ stage = <<>>
    /\ faults = 0
    /\ seeded = <<>>

----------------------------------------------------------------------------
(* replenishOtpsIfNeeded, on every activation of the vault *)

\* fetchInventory: the pool is low.
CheckInventory(t) ==
    /\ At(t, "idle")
    /\ Cardinality(rows) <= OTP_REPLENISH_THRESHOLD
    /\ Goto(t, "start", {})
    /\ UNCHANGED <<priv, nextId, ledger, nextKey, server, handshakes, faults>>

\* publishDrOtpBatch: the ids follow the last published one, the keys are new.
Batch == {[id |-> nextId + k, key |-> nextKey + k] : k \in 0..(OTP_BATCH_SIZE - 1)}

Generate(t) ==
    /\ At(t, "start")
    /\ nextKey <= OTP_BATCH_SIZE * (MaxBatches - 1) + 1
    /\ Goto(t, "store", Batch)
    /\ nextKey' = nextKey + OTP_BATCH_SIZE
    /\ UNCHANGED <<priv, nextId, ledger, server, handshakes, faults>>

\* What of the batch is not stored yet.
Left(t) == {r \in tab[t].batch : r.id \notin DOMAIN priv \/ priv[r.id] # r.key}

\* putPrekeyPrivate replaces what the store has under the id; the next phase
\* starts when the batch is through.
\* Mutant: the batch is published without waiting for its keys to be stored.
AfterStore_NoWait(left) == "count"
AfterStore(left) == IF Cardinality(left) = 1 THEN "count" ELSE "store"

StoreNext(t) ==
    /\ At(t, "store")
    /\ LET r == CHOOSE x \in Left(t) : \A y \in Left(t) : x.id <= y.id
       IN  priv' = [i \in DOMAIN priv \union {r.id} |-> IF i = r.id THEN r.key ELSE priv[i]]
    /\ Goto(t, AfterStore(Left(t)), tab[t].batch)
    /\ UNCHANGED <<nextId, ledger, nextKey, server, handshakes, faults>>

\* POST /keys/one-time: the rows are counted, then inserted.
CountRows(t) ==
    /\ At(t, "count")
    /\ IF Cardinality(rows) + OTP_BATCH_SIZE > MAX_OPKS_PER_DEVICE
       THEN Goto(t, "idle", {})
       ELSE Goto(t, "insert", tab[t].batch)
    /\ UNCHANGED <<priv, nextId, ledger, nextKey, server, handshakes, faults>>

\* INSERT ... ON CONFLICT DO NOTHING.
InsertRows(t) ==
    /\ At(t, "insert")
    /\ rows' = rows \union {r \in tab[t].batch : r.id \notin Ids(rows)}
    /\ Goto(t, "record", tab[t].batch)
    /\ UNCHANGED <<priv, nextId, ledger, nextKey, pops, handshakes, faults>>

\* Mutant: the last id of the batch is taken for the next one.
NextAfter_Last(batch) == Max(Ids(batch))
NextAfter(batch) == Max(Ids(batch)) + 1

\* The answer arrives: localStorage.setItem(OTP_NEXT_ID_KEY, startId + count).
RecordNextId(t) ==
    /\ At(t, "record")
    /\ nextId' = NextAfter(tab[t].batch)
    /\ Goto(t, "idle", {})
    /\ UNCHANGED <<priv, ledger, nextKey, server, handshakes, faults>>

\* The tab is closed, or the request ("count") or its answer ("record") is lost:
\* the error is swallowed, and the next activation starts over.
CloseTab(t) ==
    /\ tab[t].at \in Fragile
    /\ faults < MaxFaults
    /\ faults' = faults + 1
    /\ Goto(t, "idle", {})
    /\ UNCHANGED <<priv, nextId, ledger, nextKey, server, handshakes>>

----------------------------------------------------------------------------
(* GET /keys/bundle *)

\* Mutant: the row handed out stays.
Popped_Stays(otp) == rows
Popped(otp) == rows \ otp

\* mayPopOpk, then the lowest row is deleted and handed out; over the budget,
\* or with the pool empty, the bundle has no prekey.
FetchBundle(r) ==
    LET lowest == {x \in rows : x.id = Min(Ids(rows))}
        otp == IF pops[r] < OPK_POPS_PER_TARGET_PER_HOUR THEN lowest ELSE {}
    IN  /\ Len(handed) < MaxFetches
        /\ pops' = [pops EXCEPT ![r] = @ + 1]
        /\ rows' = Popped(otp)
        /\ handed' = Append(handed, [by |-> r, otp |-> otp])
        /\ stage' = Append(stage, "sent")
        /\ seeded' = Append(seeded, <<>>)
        /\ UNCHANGED <<device, faults>>

\* The hour is over (or the server restarts: opkPops is in memory).
WindowExpires(r) ==
    /\ pops[r] > 0
    /\ pops' = [pops EXCEPT ![r] = 0]
    /\ UNCHANGED <<device, rows, handshakes, faults>>

----------------------------------------------------------------------------
(* acceptIncomingInit, as far as the prekey goes *)

\* isOtpConsumed, and the lookup of the private key.
\* Mutant: only the private key is looked up.
Refused_NoLedger(id) == id \notin DOMAIN priv
Refused(id) == id \in ToSet(ledger) \/ id \notin DOMAIN priv

\* acceptSession saves the session: a bundle without a prekey needs none.
Accept(i) ==
    /\ stage[i] = "sent"
    /\ IF \E r \in handed[i].otp : Refused(r.id)
       THEN /\ stage' = [stage EXCEPT ![i] = "refused"]
            /\ UNCHANGED seeded
       ELSE /\ stage' = [stage EXCEPT ![i] = "saved"]
            /\ seeded' = [seeded EXCEPT ![i] =
                            @ \o SetToSeq({priv[r.id] : r \in handed[i].otp})]
    /\ UNCHANGED <<device, server, handed, faults>>

\* markOtpConsumed keeps the last LEDGER_CAP ids.
\* Mutant: one more is kept.
Marked_OneMore(id) ==
    IF id \in ToSet(ledger) THEN ledger
    ELSE LET l == Append(ledger, id)
         IN  IF Len(l) > LEDGER_CAP + 1 THEN Tail(l) ELSE l

Marked(id) ==
    IF id \in ToSet(ledger) THEN ledger
    ELSE LET l == Append(ledger, id)
         IN  IF Len(l) > LEDGER_CAP THEN Tail(l) ELSE l

\* The id is marked and the private key deleted; a delete may fail silently.
Burn(i) ==
    /\ stage[i] = "saved"
    /\ \E fail \in {k \in {0, 1} : faults + k <= MaxFaults} :
          /\ faults' = faults + fail
          /\ IF handed[i].otp = {}
             THEN fail = 0 /\ UNCHANGED <<ledger, priv>>
             ELSE \E r \in handed[i].otp :
                     /\ ledger' = Marked(r.id)
                     /\ priv' = IF fail = 1 THEN priv
                                ELSE Restrict(priv, DOMAIN priv \ {r.id})
    /\ stage' = [stage EXCEPT ![i] = "done"]
    /\ UNCHANGED <<nextId, tab, nextKey, server, handed, seeded>>

\* The server offers the handshake again, after the session was reset or the
\* handshake refused.
Redeliver(i) ==
    /\ stage[i] \in {"done", "refused"} /\ Len(seeded[i]) <= 1
    /\ stage' = [stage EXCEPT ![i] = "sent"]
    /\ UNCHANGED <<device, server, handed, seeded, faults>>

Replenish(t) ==
    \/ CheckInventory(t) \/ Generate(t) \/ StoreNext(t)
    \/ CountRows(t) \/ InsertRows(t) \/ RecordNextId(t)

Next ==
    \/ \E t \in Tabs : Replenish(t) \/ CloseTab(t)
    \/ \E r \in Requester : FetchBundle(r) \/ WindowExpires(r)
    \/ \E i \in DOMAIN handed : Accept(i) \/ Burn(i) \/ Redeliver(i)

Spec == Init /\ [][Next]_vars

----------------------------------------------------------------------------
(* Properties *)

Row == [id : Nat \ {0}, key : 1..(nextKey - 1)]

\* Rows have one key per id, the ledger no more than LEDGER_CAP ids, and a
\* replenishment has a batch from the moment it generates one.
TypeOK ==
    /\ rows \subseteq Row /\ Cardinality(Ids(rows)) = Cardinality(rows)
    /\ Cardinality(rows) <= MAX_OPKS_PER_DEVICE
    /\ \A i \in DOMAIN priv : [id |-> i, key |-> priv[i]] \in Row
    /\ nextId \in Nat \ {0}
    /\ IsInjective(ledger) /\ Len(ledger) <= LEDGER_CAP
    /\ \A t \in Tabs :
          /\ tab[t].at \in {"idle", "start", "store", "count", "insert", "record"}
          /\ tab[t].batch \subseteq Row
          /\ tab[t].batch = {} <=> tab[t].at \in {"idle", "start"}
    /\ pops \in [Requester -> Nat]
    /\ \A i \in DOMAIN handed : handed[i].otp \subseteq Row /\ Cardinality(handed[i].otp) <= 1
    /\ stage \in [DOMAIN handed -> {"sent", "refused", "saved", "done"}]
    /\ DOMAIN seeded = DOMAIN handed

\* No two bundles carry the same key, whoever fetches them and whenever the
\* pool is refilled: the pop is atomic and a key is never inserted twice.
HandedOnce ==
    \A i, j \in DOMAIN handed : handed[i].otp \intersect handed[j].otp # {} => i = j

\* A public key that is advertised, or handed out and not yet used, can be
\* answered: the ledger does not know its id, and the store has that very key.
\* publishDrOtpBatch stores before it publishes, for this.
Answerable ==
    \A r \in rows \union UNION {handed[i].otp : i \in {k \in DOMAIN handed :
                                    stage[k] = "sent" /\ seeded[k] = <<>>}} :
        /\ r.id \notin ToSet(ledger)
        /\ r.id \in DOMAIN priv /\ priv[r.id] = r.key

Used == {i \in DOMAIN seeded : seeded[i] # <<>>}

\* What a handshake was accepted with is the key its initiator used, and no key
\* seeds two sessions: a handshake met again is refused, by the missing key or,
\* when the delete failed, by the ledger for the next LEDGER_CAP prekeys.
SeedsOnce ==
    \A i \in DOMAIN handed :
        /\ Len(seeded[i]) > 1 => faults > 0 /\ Cardinality(Used) > LEDGER_CAP
        /\ \A k \in ToSet(seeded[i]) : \E r \in handed[i].otp : r.key = k

\* An id stands for one key for ever (otp-ledger.ts rests on it): no id is
\* inserted again with another key.
IdsNeverRecycled ==
    \A r, s \in rows \union UNION {handed[i].otp : i \in DOMAIN handed} :
        r.id = s.id => r.key = s.key
=============================================================================
