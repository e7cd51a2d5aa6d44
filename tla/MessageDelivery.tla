--------------------------- MODULE MessageDelivery ---------------------------
(***************************************************************************)
(* How the messages of one direct chat reach one device: the delivery slots *)
(* of server/src/routes/messages.ts, and the four readers a tab runs side  *)
(* by side on them,                                                        *)
(*    history  use-load-chat-messages.ts, on opening the chat,             *)
(*    sync     use-message-delivery-sync.ts, on opening and reconnecting,  *)
(*    live     the pull of use-chat-realtime.ts, on a chat_message event,  *)
(*    edit     its handler of message_edited.                              *)
(* A slot holds a ratchet envelope, which opens once (DrSession): a reader  *)
(* that comes second gets nothing, and what the first one drops is gone.   *)
(* An edit puts another envelope in the same slot, so a text is a version  *)
(* number.  Each kind of reader runs one at a time, and treats its rows,   *)
(* which do not depend on one another, in one step per phase.              *)
(***************************************************************************)
EXTENDS Integers, Sequences, FiniteSets, SequencesExt, FiniteSetsExt, Functions

CONSTANTS
    Msgs,                \* bound: messages the peer sends
    DECRYPT_RETRY_CAP,
    MaxEdits, MaxDeletes,  \* bounds: edits, deletions for everyone
    MaxSwitches,         \* bound: times the user leaves the chat
    MaxReloads,          \* bound: times the tab is reloaded
    MaxDrops,            \* bound: times the socket drops
    MaxForeign,          \* bound: events of another chat
    MaxFaults            \* bound: decryptions and cache writes that fail

ASSUME DeliveryAssumption ==
    /\ {Msgs, MaxEdits, MaxDeletes, MaxSwitches, MaxReloads, MaxDrops,
        MaxForeign, MaxFaults} \subseteq Nat
    /\ DECRYPT_RETRY_CAP \in Nat \ {0}

VARIABLES
    sent,        \* messages sent so far
    slot,        \* message_deliveries: m |-> [ver, delivered]
    events,      \* what the socket still has for the device
    used,        \* envelopes <<m, ver>> the ratchet has opened
    cache,       \* message_feed in IndexedDB: m |-> version
    deletedIds,  \* deletedMessageIds, in memory
    open,        \* the chat is the active one
    view,        \* chatStore.messages: m |-> version, 0 for [DECRYPT_FAIL]
    job,         \* job[k]: what the reader of kind k is doing
    again,       \* pendingPullAgainRef
    foreign,     \* pendingPullRef is held by the pull of another chat
    fails,       \* decryptFailCountRef: m |-> failures in a row
    bounds,      \* how often each bounded thing has happened
    told,        \* history: deletions the device has heard of
    gaveUp,      \* history: messages acknowledged as unreadable
    unsaved,     \* history: messages whose last write into the cache failed
    crossed,     \* history: messages an edit of which crossed a reader
    absorbed     \* history: messages whose event went to a pull of another chat

server == <<sent, slot>>
client == <<cache, deletedIds, view, fails>>
flags == <<again, foreign, absorbed>>
control == <<open, job, flags>>
marks == <<told, gaveUp, unsaved, crossed>>
vars == <<server, events, used, client, control, bounds, marks>>

Kind == {"history", "sync", "live", "edit"}
Empty == [m \in {} |-> 0]

\* `rows` are the slots fetched, `got` the rows decrypted (0: failed), `seed`
\* the cached texts a history load starts from, or the target of an edit.
At(k, phase) == job[k].at = phase
Reader(phase, rows, seed) == [at |-> phase, rows |-> rows, got |-> Empty, seed |-> seed]
Idle == Reader("idle", Empty, Empty)
Start(seed) == Reader("fetch", Empty, seed)
Finish(k) == job' = [job EXCEPT ![k] = Idle]

Readable(f) == {m \in DOMAIN f : f[m] > 0}
Pending == {m \in DOMAIN slot : ~slot[m].delivered}
Versions(ms) == [m \in ms |-> slot[m].ver]
Update(f, g) == [m \in DOMAIN f \union DOMAIN g |-> IF m \in DOMAIN g THEN g[m] ELSE f[m]]
Count(what) == bounds' = [bounds EXCEPT ![what] = @ + 1]

Init ==
    /\ sent = 0 /\ slot = [m \in {} |-> 0] /\ events = <<>>
    /\ used = {} /\ cache = Empty /\ deletedIds = {}
    /\ open = FALSE /\ view = Empty
    /\ job = [k \in Kind |-> Idle] /\ fails = Empty
    /\ again = FALSE /\ foreign = FALSE /\ absorbed = {}
    /\ bounds = [edits |-> 0, deletes |-> 0, switches |-> 0,
                 reloads |-> 0, drops |-> 0, foreign |-> 0, faults |-> 0]
    /\ told = {} /\ gaveUp = {} /\ unsaved = {} /\ crossed = {}

----------------------------------------------------------------------------
(* The peer, through the server *)

\* POST /send: the slot and the event.
Send ==
    /\ sent < Msgs
    /\ sent' = sent + 1
    /\ slot' = Update(slot, [m \in {sent'} |-> [ver |-> 1, delivered |-> FALSE]])
    /\ events' = Append(events, [type |-> "chat_message", m |-> sent'])
    /\ UNCHANGED <<used, client, control, bounds, marks>>

\* PATCH /:messageId: a new envelope, to be pulled again.
Edit(m) ==
    /\ m \in DOMAIN slot /\ bounds.edits < MaxEdits
    /\ slot' = [slot EXCEPT ![m] = [ver |-> @.ver + 1, delivered |-> FALSE]]
    /\ events' = Append(events, [type |-> "message_edited", m |-> m])
    /\ Count("edits")
    /\ crossed' = crossed \union {x \in {m} : \E k \in Kind : x \in DOMAIN job[k].rows}
    /\ UNCHANGED <<sent, used, client, control, told, gaveUp, unsaved>>

\* DELETE /:messageId, for everyone.
Delete(m) ==
    /\ m \in DOMAIN slot /\ bounds.deletes < MaxDeletes
    /\ slot' = Restrict(slot, DOMAIN slot \ {m})
    /\ events' = Append(events, [type |-> "message_deleted", m |-> m])
    /\ Count("deletes")
    /\ UNCHANGED <<sent, used, client, control, marks>>

----------------------------------------------------------------------------
(* The tab *)

\* The chat is opened: the view is seeded from the cache, and history and sync
\* start.
Open ==
    /\ ~open /\ At("history", "idle") /\ At("sync", "idle")
    /\ open' = TRUE
    /\ view' = cache
    /\ job' = [job EXCEPT !["history"] = Start(cache),
                          !["sync"] = Start(Empty)]
    /\ UNCHANGED <<server, events, used, cache, deletedIds, flags, fails, bounds, marks>>

\* The user turns to another chat: the history load is cancelled, the others
\* look at activeChatId themselves.
Switch ==
    /\ open /\ bounds.switches < MaxSwitches
    /\ open' = FALSE
    /\ view' = Empty
    /\ Count("switches")
    /\ UNCHANGED <<server, events, used, cache, deletedIds, job, flags, fails, marks>>

\* What is in memory is gone, and the socket with it.
Reload ==
    /\ bounds.reloads < MaxReloads
    /\ open' = FALSE /\ view' = Empty /\ events' = <<>>
    /\ job' = [k \in Kind |-> Idle] /\ again' = FALSE /\ foreign' = FALSE
    /\ fails' = Empty /\ deletedIds' = {}
    /\ Count("reloads")
    /\ UNCHANGED <<server, used, cache, absorbed, marks>>

\* Events are lost; on reconnecting the open chat is synced.
Reconnect ==
    /\ open /\ At("sync", "idle") /\ bounds.drops < MaxDrops
    /\ events' = <<>>
    /\ job' = [job EXCEPT !["sync"] = Start(Empty)]
    /\ Count("drops")
    /\ UNCHANGED <<server, used, client, open, flags, fails, marks>>

\* chat_message: a pull starts, or the running one repeats.  There is one pair of
\* flags for all chats, so the running one may be that of the chat before.
\* Mutant: an event that finds a pull running is dropped.
OnMessage_Dropped(e) ==
    /\ e.type = "chat_message"
    /\ IF open /\ At("live", "idle") /\ ~foreign
       THEN job' = [job EXCEPT !["live"] = Start(Empty)]
       ELSE UNCHANGED job
    /\ UNCHANGED <<cache, deletedIds, view, told, flags>>

OnMessage(e) ==
    /\ e.type = "chat_message"
    /\ IF open /\ At("live", "idle") /\ ~foreign
       THEN job' = [job EXCEPT !["live"] = Start(Empty)] /\ UNCHANGED flags
       ELSE /\ again' = (again \/ open)
            /\ absorbed' = absorbed \union {m \in {e.m} : open /\ foreign}
            /\ UNCHANGED <<job, foreign>>
    /\ UNCHANGED <<cache, deletedIds, view, told>>

OnEdited(e) ==
    /\ e.type = "message_edited"
    /\ IF open /\ At("edit", "idle")
       THEN job' = [job EXCEPT !["edit"] = Start([m \in {e.m} |-> 0])]
       ELSE ~open /\ UNCHANGED job
    /\ UNCHANGED <<cache, deletedIds, view, told, flags>>

\* removeMessage and deleteCachedMessage.
OnDeleted(e) ==
    /\ e.type = "message_deleted"
    /\ view' = Restrict(view, DOMAIN view \ {e.m})
    /\ cache' = Restrict(cache, DOMAIN cache \ {e.m})
    /\ deletedIds' = deletedIds \union {e.m}
    /\ told' = told \union {e.m}
    /\ UNCHANGED <<job, flags>>

HandleEvent ==
    /\ events # <<>>
    /\ OnMessage(Head(events)) \/ OnEdited(Head(events)) \/ OnDeleted(Head(events))
    /\ events' = Tail(events)
    /\ UNCHANGED <<server, used, open, fails, bounds, gaveUp, unsaved, crossed>>

\* While another chat is the active one, an event of it starts a pull there, or
\* asks the running pull, of whichever chat, to repeat.
ForeignMessage ==
    /\ ~open /\ bounds.foreign < MaxForeign
    /\ IF At("live", "idle") /\ ~foreign
       THEN foreign' = TRUE /\ UNCHANGED again
       ELSE again' = TRUE /\ UNCHANGED foreign
    /\ Count("foreign")
    /\ UNCHANGED <<server, events, used, client, open, job, absorbed, marks>>

\* A pass of that pull ends.  It repeats only while its chat is the active one, and
\* forgets either way that it was asked to.
ForeignPass ==
    /\ foreign
    /\ again' = FALSE
    /\ foreign' \in {FALSE, again /\ ~open}
    /\ UNCHANGED <<server, events, used, client, open, job, absorbed, bounds, marks>>

----------------------------------------------------------------------------
(* The readers *)

Wanted(k) ==
    CASE k = "history" -> DOMAIN slot
      [] k = "edit"    -> Pending \intersect DOMAIN job[k].seed
      [] OTHER         -> Pending

\* The live pull stops when the chat is not the active one any more; with no
\* rows history goes on, to show the chat empty, and the others are done.
Fetch(k) ==
    /\ At(k, "fetch")
    /\ job' = IF (k = "live" /\ ~open) \/ (k # "history" /\ Wanted(k) = {})
              THEN [job EXCEPT ![k] = Idle]
              ELSE [job EXCEPT ![k] = Reader("decrypt", Versions(Wanted(k)), job[k].seed)]
    /\ again' = (again /\ k # "live")
    /\ UNCHANGED <<server, events, used, client, open, foreign, absorbed, bounds, marks>>

\* The readers that wait for the envelope of version v of m.
Waiting(m, v) ==
    {k \in Kind : At(k, "decrypt") /\ m \in DOMAIN job[k].rows \ DOMAIN job[k].got
                    /\ job[k].rows[m] = v}

\* decryptFromPeer settles, for every reader that joined: shareInFlightDrDecrypt.
Decrypt(m, v) ==
    /\ Waiting(m, v) # {}
    /\ \E fault \in {k \in {0, 1} : bounds.faults + k <= MaxFaults} :
          LET text == IF <<m, v>> \in used \/ fault = 1 THEN 0 ELSE v
          IN  /\ used' = IF text = 0 THEN used ELSE used \union {<<m, v>>}
              /\ job' = [k \in Kind |-> IF k \in Waiting(m, v)
                            THEN [job[k] EXCEPT !.got = Update(@, [x \in {m} |-> text])]
                            ELSE job[k]]
              /\ bounds' = [bounds EXCEPT !.faults = @ + fault]
    /\ UNCHANGED <<server, events, client, open, flags, marks>>

Settled(k) == At(k, "decrypt") /\ DOMAIN job[k].got = DOMAIN job[k].rows

\* cacheMessage, cacheMessages: failures are not written, nor what was deleted.  A
\* write may fail (`lost`); no reader minds.
\* Mutants: nothing is written; what was deleted meanwhile is.
Writable(texts) == Readable(texts) \ deletedIds
Cached_Never(texts, lost) == cache
Cached_Deleted(texts, lost) == Update(cache, Restrict(texts, Readable(texts) \ lost))
Cached(texts, lost) == Update(cache, Restrict(texts, Writable(texts) \ lost))

Save(texts, lost, faults) ==
    /\ bounds.faults + faults <= MaxFaults
    /\ cache' = Cached(texts, lost)
    /\ unsaved' = (unsaved \ Writable(texts)) \union lost
    /\ bounds' = [bounds EXCEPT !.faults = @ + faults]

SaveEach(texts) == \E lost \in SUBSET Writable(texts) : Save(texts, lost, Cardinality(lost))
SaveAll(texts) == Save(texts, {}, 0) \/ Save(texts, Writable(texts), 1)

\* appendMessage: a good text is never replaced, a placeholder by a good one.
Appended(texts) ==
    [m \in DOMAIN view \union DOMAIN texts |->
        IF m \notin DOMAIN view THEN texts[m]
        ELSE IF view[m] = 0 /\ m \in DOMAIN texts THEN texts[m] ELSE view[m]]

\* setMessages: the rows become the view, but no good text becomes a placeholder.
\* Mutant: the rows as they are.
Merged_AsTheyAre(texts) == texts
Merged(texts) ==
    [m \in DOMAIN texts |->
        IF texts[m] = 0 /\ m \in DOMAIN view THEN view[m] ELSE texts[m]]

\* The rows a reader acknowledges.
\* Mutant: the failures too.
Acked_All(texts) == DOMAIN texts
Acked(texts) == Readable(texts)

Acking(k, ids) ==
    [job EXCEPT ![k] = Reader("ack", Restrict(job[k].rows, ids), Empty)]

KeepSync ==
    LET got == job["sync"].got
    IN  /\ Settled("sync")
        /\ SaveEach(got)
        /\ view' = IF open THEN Appended(got) ELSE view
        /\ job' = Acking("sync", Acked(got))
        /\ UNCHANGED <<server, events, used, deletedIds, fails, open, flags, told, gaveUp, crossed>>

\* Mutant: one more failure is allowed.
Hopeless_OneLate(count) == {m \in DOMAIN count : count[m] > DECRYPT_RETRY_CAP}
Hopeless(count) == {m \in DOMAIN count : count[m] >= DECRYPT_RETRY_CAP}

\* A failure is left pending until it has happened DECRYPT_RETRY_CAP times; then
\* it is shown, and acknowledged.
KeepLive ==
    LET got == job["live"].got
        count == [m \in DOMAIN got \ Readable(got) |->
                     IF m \in DOMAIN fails THEN fails[m] + 1 ELSE 1]
        lost == Hopeless(count)
        done == Readable(got) \union lost
    IN  /\ Settled("live") /\ open
        /\ SaveEach(got)
        /\ view' = Appended(Restrict(got, done))
        /\ fails' = Restrict(Update(fails, count), (DOMAIN fails \union DOMAIN count) \ done)
        /\ gaveUp' = gaveUp \union lost
        /\ job' = Acking("live", done)
        /\ UNCHANGED <<server, events, used, deletedIds, open, flags, told, crossed>>

\* The chat was left during the decryption: the loop breaks before it caches.
BreakLive ==
    /\ Settled("live") /\ ~open
    /\ Finish("live")
    /\ again' = FALSE
    /\ UNCHANGED <<server, events, used, client, open, foreign, absorbed, bounds, marks>>

\* updateMessagePlaintext replaces the text; a failure keeps the existing one.
KeepEdit ==
    LET got == job["edit"].got
        good == Readable(got)
    IN  /\ Settled("edit")
        /\ SaveEach(got)
        /\ view' = [m \in DOMAIN view |-> IF m \in good THEN got[m] ELSE view[m]]
        /\ job' = IF good = {} THEN [job EXCEPT !["edit"] = Idle] ELSE Acking("edit", good)
        /\ UNCHANGED <<server, events, used, deletedIds, fails, open, flags, told, gaveUp, crossed>>

\* A row that failed takes its text from the seed, be it that of an older version.
KeepHistory ==
    LET got == job["history"].got
        seed == job["history"].seed
        out == [m \in DOMAIN got |-> IF got[m] = 0 /\ m \in DOMAIN seed THEN seed[m] ELSE got[m]]
    IN  /\ Settled("history") /\ open
        /\ SaveAll(out)
        /\ view' = Merged(out)
        /\ job' = Acking("history", Acked(out))
        /\ crossed' = crossed \union
              {m \in DOMAIN got \intersect DOMAIN seed : got[m] = 0 /\ seed[m] # job["history"].rows[m]}
        /\ UNCHANGED <<server, events, used, deletedIds, fails, open, flags, told, gaveUp>>

\* A cancelled load drops what it has decrypted.
CancelHistory ==
    /\ Settled("history") /\ ~open
    /\ Finish("history")
    /\ UNCHANGED <<server, events, used, client, open, flags, bounds, marks>>

\* POST /delivered marks the slots of these messages, whatever they hold by now.
\* The live pull starts over if an event came meanwhile.
AfterAck(k) ==
    [job EXCEPT ![k] = IF k = "live" /\ again THEN Start(Empty) ELSE Idle]

Acknowledge(k) ==
    /\ At(k, "ack")
    /\ slot' = [m \in DOMAIN slot |->
                  IF m \in DOMAIN job[k].rows THEN [slot[m] EXCEPT !.delivered = TRUE] ELSE slot[m]]
    /\ job' = AfterAck(k)
    /\ UNCHANGED <<sent, events, used, client, open, flags, bounds, marks>>

\* The request is lost; nobody repeats it.
AckLost(k) ==
    /\ At(k, "ack") /\ bounds.drops < MaxDrops
    /\ job' = AfterAck(k)
    /\ Count("drops")
    /\ UNCHANGED <<server, events, used, client, open, flags, marks>>

Read(k) == Fetch(k) \/ Acknowledge(k)
Keep == KeepSync \/ KeepLive \/ BreakLive \/ KeepEdit \/ KeepHistory \/ CancelHistory

Next ==
    \/ Send \/ \E m \in 1..Msgs : Edit(m) \/ Delete(m)
    \/ Open \/ Switch \/ Reload \/ Reconnect \/ HandleEvent
    \/ ForeignMessage \/ ForeignPass
    \/ \E k \in Kind : Read(k) \/ AckLost(k)
    \/ \E m \in 1..Msgs, v \in 1..(MaxEdits + 1) : Decrypt(m, v)
    \/ Keep

Spec == Init /\ [][Next]_vars

\* A tab that is up runs its readers and handles its events; the user comes back
\* to the chat.
Fairness ==
    /\ \A k \in Kind : WF_vars(Read(k))
    /\ \A m \in 1..Msgs, v \in 1..(MaxEdits + 1) : WF_vars(Decrypt(m, v))
    /\ WF_vars(KeepSync) /\ WF_vars(KeepLive) /\ WF_vars(BreakLive)
    /\ WF_vars(KeepEdit) /\ WF_vars(KeepHistory) /\ WF_vars(CancelHistory)
    /\ WF_vars(HandleEvent) /\ WF_vars(Open) /\ WF_vars(ForeignPass)

FairSpec == Spec /\ Fairness

----------------------------------------------------------------------------
(* Properties *)

Text == 1..(MaxEdits + 1)
Kept(f, m, v) == m \in DOMAIN f /\ f[m] = v
IsTexts(f, values) == DOMAIN f \subseteq 1..sent /\ \A m \in DOMAIN f : f[m] \in values

\* Slots, texts and readers have their shape, the counters keep to their bounds.
TypeOK ==
    /\ sent \in 0..Msgs /\ DOMAIN slot \subseteq 1..sent
    /\ \A m \in DOMAIN slot : slot[m] \in [ver : Text, delivered : BOOLEAN]
    /\ used \subseteq (1..sent) \X Text
    /\ IsTexts(cache, Text) /\ IsTexts(view, Text \union {0})
    /\ IsTexts(fails, 1..(DECRYPT_RETRY_CAP - 1))
    /\ deletedIds \subseteq told
    /\ {open, again, foreign} \subseteq BOOLEAN /\ foreign => At("live", "idle")
    /\ unsaved \union crossed \union absorbed \subseteq 1..sent
    /\ \A k \in Kind :
          /\ job[k].at \in {"idle", "fetch", "decrypt", "ack"}
          /\ IsTexts(job[k].rows, Text) /\ IsTexts(job[k].got, Text \union {0})
          /\ DOMAIN job[k].got \subseteq DOMAIN job[k].rows

\* The server does not offer again what the device has acknowledged, so by then the
\* cache has it, whichever reader came second and whatever failed, unless the live
\* pull gave it up after DECRYPT_RETRY_CAP failures or its last write into the cache
\* failed, which no reader looks at.  It is the text acknowledged, not an older one,
\* unless an edit crossed a reader: it came while the reader held the envelope of
\* before, or the history load fell back on the text of before.
AckedIsDurable ==
    \A m \in DOMAIN slot \ (gaveUp \union unsaved) :
        slot[m].delivered => m \in DOMAIN cache /\ (m \in crossed \/ cache[m] = slot[m].ver)

\* The same of every edit: what a comment in PATCH expects of resetting deliveredAt.
AckedIsCurrent ==
    \A m \in DOMAIN slot \ (gaveUp \union unsaved) :
        slot[m].delivered => Kept(cache, m, slot[m].ver)

\* A message the device was told to delete does not come back into the cache
\* from a reader that fetched it before (deletedMessageIds).
DeletedStaysGone == told \intersect DOMAIN cache = {}

\* In the view a text that was read never turns into [DECRYPT_FAIL], however
\* the readers race for the one-time key (chatStore.ts: plaintext is monotonic).
GoodStaysGood ==
    [][\A m \in Readable(view) \intersect DOMAIN view' : view'[m] > 0]_vars

\* A message that arrives while the chat is open is read without waiting for
\* the next event or for a reconnect: a pull in progress repeats.  Not if that pull
\* was started for another chat (`absorbed`).
Unread(m) == m \in DOMAIN slot /\ m \notin DOMAIN cache \union unsaved
Arrives ==
    \A m \in 1..Msgs : (m \in DOMAIN slot /\ open) ~> (~Unread(m) \/ ~open \/ m \in absorbed)

\* The same whichever chat the pull was started for, as the comments on the flags say.
ArrivesAlways ==
    \A m \in 1..Msgs : (m \in DOMAIN slot /\ open) ~> (~Unread(m) \/ ~open)

\* A text the ratchet has opened, and will not open again, is not dropped: a
\* reader is about to write it, the cache has it, or the view shows it, unless the
\* write of it into the cache failed.
InHand(m, v) == \E k \in Kind : At(k, "decrypt") /\ m \in DOMAIN job[k].got /\ job[k].got[m] = v

NothingLost ==
    \A m \in DOMAIN slot : LET v == slot[m].ver IN
        <<m, v>> \in used => InHand(m, v) \/ Kept(cache, m, v) \/ Kept(view, m, v)
                              \/ m \in unsaved
=============================================================================
