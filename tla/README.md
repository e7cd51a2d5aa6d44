# OneToThree in TLA+

OneToThree is an end-to-end encrypted messenger: a Fastify server on PostgreSQL and
Redis (`server/`), and a web client (`client/`) that is also packaged for desktop
and mobile. Texts of direct chats are sealed per device with X3DH and the Double
Ratchet; group chats have a symmetric key per epoch that the owner wraps for each
member; the server stores what is sealed and never sees a text or a key.

This directory models the parts of the program where a wrong order of steps costs a
message, a key or a seat: the ratchet, the sessions above it, the prekeys that start
them, the readers that take messages off the server, the rotation of group keys, the
waiting room of guest links, and the linking of a new device. TLC checks each module
on a small instance; TLAPS proves every safety property the passing runs check, for
every value of the constants.

Run a model with `tlc -config X.cfg M.tla`, a proof with `tlapm M.tla`. `PROJECT.json`
lists the runs, the source lines of every definition, the hazards, the findings and
the theorems.

## 1. The system

| Component | State it keeps | Operations | What is hard | What makes it correct |
|---|---|---|---|---|
| Double Ratchet (`client/src/lib/ratchet/double-ratchet.ts`, `kdf.ts`) | root key, two chains with counters, skipped-key cache | init, `encryptRatchet`, `decryptRatchet` | reordering, loss, repetition, DH steps that cross, two caps | no key seals twice; what the caps allow opens once; read messages cannot be derived again |
| Sessions (`session-manager.ts`, `session-store.ts`, `x3dh.ts`) | one record per pair of devices in IndexedDB: live ratchet, archived ratchets, pending init, ephemerals accepted and superseded | `encryptForPeer`, `decryptFromPeer`, `acceptIncomingInit`, `clearDrSession` | handshakes out of order, resets, tabs, closing in mid-call, a lock that is per tab | superseding loses nothing and is not undone; a replay opens nothing |
| One-time prekeys (`vault/activate-vault.ts`, `prekey-store.ts`, `otp-ledger.ts`, `server/src/routes/keys.ts`) | rows on the server; private keys, next id and ledger on the device | replenish, publish, pop, burn | several requesters, a request or answer lost, silent failures | a key goes to one initiator, can be answered, seeds one session |
| Delivery (`server/src/routes/messages.ts`, `use-load-chat-messages.ts`, `use-message-delivery-sync.ts`, `use-chat-realtime.ts`, `decrypt-chat-api-message.ts`, `chatStore.ts`, `message-cache.ts`) | slots; cache, view, failure counts, deleted ids | send, edit, delete, fetch, decrypt, cache, acknowledge | three readers and an edit handler on envelopes that open once; leaving the chat; reloads | acknowledged means cached, unless the write failed; a text read is not lost, nor replaced by a failure; deleted stays deleted |
| Group keys (`group-key-rotation.ts`, `use-group-key-distribution.ts`, `create-group-chat.ts`, `chat-logic.ts`, `server/src/routes/chats.ts`) | roster, epoch and one wrapped key per member on the server; a client's flags and calls | join, leave, kick, transfer; rotate, scan, deliver | several clients of the owner; an upload that fails, is late, or meets a change of the roster | one key per epoch; who left never has the current key; who stays gets it |
| Guest links (`routes/guest.ts`, `guest-knock-store.ts`, `routes/call.ts`, the guest's page) | seats in PostgreSQL; knocks, slots, index, holders and denylist in Redis | knock, poll, cancel, approve, deny, revoke, kick; webhooks | several devices of the host; webhooks repeated or late; expiry; failing removals | seats counted right; a knock is seen; a kicked guest who rejoins is removed again; no slot stays behind |
| Device linking (`device-rendezvous-store.ts`, `routes/devices.ts`, `settings-link-device-modal.tsx`, `login-qr-device-panel.tsx`) | a rendezvous record and a short code in Redis; refs, polls and timers of a dialog | create, scan, attach, status, resolve, confirm, deposit, claim | two scanners; tabs of a dialog with requests under way; expiry; one Redis connection | a vault opens only where the user compared; it leaves the server once; who is approved gets it |
| Sending and outbox (`outbox.ts`, `use-send-message.ts`, `chat-message-persist.ts`) | queued posts in IndexedDB | enqueue, flush, retry | lost answers, one flush per tab | one row per message |
| WebSocket registry (`ws/registry.ts`, `routes/ws.ts`, `presence.ts`) | sockets per user, presence | register, evict, deliver, fan out | a late close, several instances | a live socket is reachable |
| Group call rooms (`ws/group-call-rooms.ts`, `call-e2ee-session.ts`) | participants and an index per user in Redis | join, leave, leave all, update | one operation is several commands | who left is gone; index and rooms agree |
| Reading and burning (`mark-message-read.ts`, `burn-at.ts`) | `readAt`, `burnAt` | mark, purge | repeated marks | the timer starts once |
| Peer trust (`trust-store.ts`, `safety-number.ts`) | pinned identities | pin, confirm, reset | key changes in mid-session | no silent change |
| Authentication, vault, chats and members, media, polls, stickers, push, administration, one-to-one calls | rows and single-use records | requests of one or a few statements | little that is concurrent | transactions and constraints |

How they interact. Activating the vault replenishes the prekeys. A send asks the
sessions for an envelope per device (which may pop a prekey and run X3DH) and posts
them; the server stores slots and publishes an event; a reader fetches slots, asks the
sessions to open them, caches and shows the texts and acknowledges. Identity changes
go through the user, who resets the sessions with `clearDrSession`. A change of a
roster bumps the epoch of the chat and tells the clients, of which the owner's rotate
the key. An approved knock becomes a LiveKit token, and LiveKit's webhooks give the
seat back. A linked device gets the vault, and with it the identity the sessions rest
on. Shared state is IndexedDB (every tab of a device), `localStorage` (the same), the
memory of one tab (locks, views, refs, deleted ids), Redis, and the server's rows.

## 2. The modules

```
DoubleRatchet            operators on one RatchetState, with symbolic keys
  DrPair                 one session between two devices      -> implements SecureChannel
  DrSession              handshakes, records, archives, resets, tabs
KeyDirectory             one-time prekeys of one device
MessageDelivery          the readers of one direct chat on one device
GroupKeys                the key of one group chat: roster, rotations, scans
GuestLinks               one guest link to a call             -> implements SeatPool
DeviceLink               rendezvous records, new devices and dialogs of old ones
DoubleRatchetProofs, DrPairProofs, DrSessionProofs, KeyDirectoryProofs,
MessageDeliveryProofs, GroupKeysProofs, GuestLinksProofs, DeviceLinkProofs
                         theorems
MC...                                                         instances for TLC
```

**DoubleRatchet.** A session is a record with the fields of `RatchetState`; the
operators have the names of the functions. Keys are symbolic: a root key is the
sequence of DH outputs mixed into it, a chain key is its root and a position, a DH
output is the unordered pair of public keys, and AES-GCM opens when the keys are
equal. So two keys are equal exactly when they were derived alike, which is what
"unique key" and "forward secrecy" are about. The skipped-key cache is a function of
functions, as the code's `Map<dhPub, Map<counter, key>>`. The throw of
`cacheSkipped` in the middle of its loop is the condition `SkipAllowed` of the whole
call: the caller works on a copy it discards when the call throws.

**DrPair.** `Encrypt` and `Decrypt` are `encryptForPeer` and `decryptFromPeer` with a
session in the store. Everything sealed stays on offer to the receiver for ever, in
any order: that is loss, reordering and repetition in one. A decryption that throws
writes nothing and is no step. `SecureChannel` is the abstract promise: what is sent is
handed over at most once, and in the end once.

**DrSession.** `rec[p]` is the record in IndexedDB, `job[c]` the call a browser context
has under its lock, split at the awaits: load, bootstrap, seal for a send; accept,
burn, load, open for a receive. Two contexts of a device share `rec` and not the lock;
`Clear` is `clearDrSession`, which takes none. `Accepted` is `acceptSession` (the live
ratchet is archived, the accepted ephemeral goes to the superseded ones),
`KeepsExisting` its early returns, `AfterSeal` the budget of the pending init.
`log` in a record is history only: the handshakes it went through.

**KeyDirectory.** A replenishment is the phases of `publishDrOtpBatch` (generate, store
key by key, count, insert, record the next id), and can be cut in the phases named by
`Fragile`. `FetchBundle` is the atomic pop with its hourly budget, `Accept` and `Burn`
the prekey part of `acceptIncomingInit`, `Redeliver` a handshake offered again.

**MessageDelivery.** `slot` is the device's row in `message_deliveries`, a text is a
version number, `used` the envelopes the ratchet has opened. Each of the readers
*history*, *sync*, *live* and *edit* fetches, decrypts (readers of one envelope join
the decryption in flight), keeps (cache and view) and acknowledges, in steps of its
own. `Appended`, `Merged` and `Cached` are the store functions; `fails` counts towards
`DECRYPT_RETRY_CAP`. A write into the cache may fail, row by row (`SaveEach`) or, for the
history load's one transaction, altogether (`SaveAll`); every reader swallows that and
goes on, so the texts concerned are acknowledged and only noted in `unsaved`. `again` and
`foreign` are the flags of the live pull, of which there is one pair for all chats:
`ForeignMessage` starts a pull for another chat, `ForeignPass` ends a pass of it, and an
event of this chat that such a pull takes is noted in `absorbed`. `crossed` notes the
messages an edit of which came while a reader held the envelope of before, or whose row
in a history load fell back on an older text. These three are history variables: no
action looks at them.

**GroupKeys.** `members`, `owner`, `epoch` and `row` (the stored wrapped key of each
user) are the server; a `task` is one call of one client of one user (a check, a
rotation, a scan, the rotation after creating the chat), cut at each request. `GET
/chats/:id` is two steps (chat, roster), and so is `PUT wrapped-key` (checks and
claim, then the row): `reqs` has the requests under way, which arrive late, are
answered late, or vanish. A rotation claims the next epoch with its first upload,
which the server admits only if the epoch is still the one it read. `got` keeps every
key that was ever stored for a user, since a client may have read it.

**GuestLinks.** A knock is one try of one guest; a `Call` one approve or deny request
of a host's device, and at the same time the LiveKit identity its approval mints. The
page of a guest, its poll and its cancel, the request of a host, and the two webhooks
are state machines of their own, cut where the handlers await Redis, PostgreSQL or
LiveKit. `SeatPool` is what the link promises of its seats; `GuestLinks` implements
it with `free` as `MaxUses - used`, `open` as `live`, and the history variable
`holders` as the seats that are taken. `Reads` is what one hydration may read: all the
index has that is not expired, or any `MAX_HYDRATED_KNOCKS` of it (the code takes the
oldest). `kick` is what the host was answered, and nothing but a request of the host
changes it; `missed` is the history of removals the webhook started that came to nothing.

**DeviceLink.** A `Session` is one ephemeral key pair of a new device, a `Dialog` one
open dialog of an old one, `old[o]` its refs, its polls (one per record it ever
created: an old poll may outlive its record) and its requests. `watch` and `dirty` are
the watch list of the one Redis connection, which all `attachEphemeralPubkey` calls
share. `Racing` lets two sessions scan one QR; `Overlap` lets the user act in a dialog
while one of its requests is under way.

## 3. What the runs check

The passing runs set `CHECK_DEADLOCK FALSE`: the number of messages, batches, knocks,
records and faults is bounded, so each model comes to an end.

| Run | Bounds | Shows |
|---|---|---|
| `DrPair` | 5 messages a side, both caps 2 | `NoKeyReuse`, `Deliverable`, `ForwardSecrecy`, `CacheExact`; `ExactlyOnce`: implements `SecureChannel` with its liveness |
| `DrSession` | 2 messages a side, 2 resets, 1 prekey, 1 tab closed | `NoKeyReuse`, `SupersededStillOpen`, `RetiredStaysRetired`, `OtpOnce`, `OpenedOncePerHandshake` |
| `DrSessionLive` | 2 messages a side, 1 lost, init sent twice, 1 tab closed | `AllRead` |
| `KeyDirectory` | 3 batches of 2, 3 bundles, 2 requesters, ledger of 2, 1 fault | `HandedOnce`, `Answerable`, `SeedsOnce`, `IdsNeverRecycled` |
| `MessageDelivery` | 1 message; 1 each of edit, delete, leaving the chat, reload, drop; 1 decryption or cache write that fails; cap 1 | `AckedIsDurable`, `DeletedStaysGone`, `GoodStaysGood` |
| `MessageDeliveryLive` | 2 messages, 1 drop, 2 events of another chat before, then the chat stays open | `NothingLost`, `Arrives` |
| `GroupKeys` | 3 users, two clients of the owner, 1 join, departure or kick, 1 transfer, 7 keys | `OneKeyPerEpoch`, `DepartedSealed` |
| `GroupKeysLive` | 3 users, one client each, 1 change of the roster, 1 answer not waited for or tab closed | `NoSilentSplit`, `Converges` |
| `GuestLinks` | 1 seat, hydration cut at 1, 2 knocks, 2 requests of the host, 2 stays per grant, 1 fault | `Capacity`, `Hydrated`, `NoGhostSlot`, `KickBites`; `SeatsCounted`: implements `SeatPool` |
| `DeviceLink` | 3 new devices, 2 dialogs, 2 records, two may scan one QR, 1 fault | `OpensWhereCompared`, `HandedOnce` |
| `DeviceLinkLive` | 2 new devices, 2 dialogs, 2 records, no fault | `Linked` |
| `GuestLinksSeat` | as `GuestLinks` | finding 8: `NoSeatLost` fails |

Every module also has `TypeOK`, with the relations between its variables. The other
configurations show the findings of section 6 on instances as small as that takes.

Why the bounds are enough. Five messages a side allow ten DH steps, chains of
different lengths and more than two skipped keys at once, so each cap is met in one
bucket and across buckets. Two resets let a record be superseded twice, so there is
an archived ratchet behind an archived one; the limit of three is not met. In
`KeyDirectory` a batch is added to the last row of the one before, three bundles are
more than the ledger holds, and the third fetch of a requester is over its budget (the
cap on rows is not met: with one tab the threshold keeps the pool below it, here as in
the code). In `MessageDelivery` the interesting cases are what several readers do with
one message, so one message suffices for safety; the second in `MessageDeliveryLive`
arrives during a pull for the first, and with two events of another chat the pull left
over from there has a repetition to lose. In `GroupKeys` three users are the owner, one who
stays and one who comes or goes; two clients of the owner make the race for an epoch,
and a third user who becomes the owner makes it one between old and new owner. In
`GuestLinks` two knocks and two requests are a race for the only seat, two requests
for one knock, and one knock after another; with a second stay a guest reconnects on
the same token. The cap on a hydration is the number of seats, as in the code (both 50 at
most): one entry of the index that outlived its slot would push the next guest off the
list. In `DeviceLink` three key pairs are two that scan one QR and one with
the other dialog; two records let a dialog have an old poll next to a new one. The
bounds on faults keep single causes apart; the theorems of section 5 hold without any
bound.

`Deliverable` is told from the traffic alone: the keys the receiver still misses, per
DH key and altogether, against the caps. It says the cache neither wastes space nor
forgets. `SupersededStillOpen` excepts a sender that ran one handshake twice, which
needs a reset and a replay without a prekey. `OtpOnce` excepts a tab closed between
saving the session and burning the prekey; `AllRead` excepts glare, which the code
leaves as it is (`session-manager.ts:927-932`), resets, and as many losses as there
are messages that carry the init.

`Answerable` and `IdsNeverRecycled` are about a device that activates its vault in one
tab and loses no answer to a publication: finding 3 is what happens otherwise.
`NoSilentSplit` speaks of moments when nothing is under way: then everybody holds the
current key, or the owner's next check rotates, or its next scan finds who is behind.
`Converges` is stated for one client per user: two clients of an owner may go on
overtaking each other's claims, and only the bound on epochs would stop them. `Capacity`
counts guests on their first stay, since a guest who reconnects has no seat (finding 9).
`AckedIsDurable` excepts a message the live pull gave up and one whose last write into
the cache failed: the code loses both knowingly. What it says is that nothing else is
acknowledged without being in the cache, and that the cache has the version that was
acknowledged, unless an edit crossed a reader (findings 4 and 12). `Arrives` excepts events
absorbed by a pull of another chat (finding 13). `Hydrated` is about one link: the index
and its cap are those of a creator, whose links share them; `MaxUses` is no more than the
cap, as `SEATS_MAX` (`guest.ts:73`, `instance-settings.ts:100`) and `MAX_HYDRATED_KNOCKS`
are both 50. `KickBites` excepts a removal by the webhook that failed or was cut by a
restart, the only way a kicked guest stays (finding 14). `NoGhostSlot` excepts a restart
between two commands, which leaves a slot to expire.
`OpensWhereCompared` is about a user who lets a request of a dialog finish
before starting the next (`Overlap = FALSE`): otherwise there is a window, the
milliseconds in which the digits of a new answer are computed, where the digits on the
screen are still those of the answer before.

## 4. Fairness

* `DrPair`: weak fairness of each `Decrypt(q, i)`. The server keeps a slot pending
  until it is acknowledged, the client acknowledges what it decrypted and asks again
  on every reconnect; what can be opened stays so until it is (caps permitting).
* `DrSession`: weak fairness of the steps of a call that has started (the tab runs on),
  and strong fairness of offering an unread message again, for the same reason: it is
  not enabled continuously, because the context is busy in between.
* `MessageDelivery`: weak fairness of the steps of a reader that has started, of the
  socket's events, and of opening the chat. Nothing is assumed of the peer, of
  reconnecting, or of acknowledgements being delivered: `AckLost` may happen.
* `GroupKeys`: weak fairness of a call that has started and of the server's handling of
  its requests; strong fairness of the owner's check and scan, which the hook starts
  whenever the chat is opened, an event arrives or the socket reconnects, unless one is
  running.
* `DeviceLink`: weak fairness of the polls and timers that are running and of requests
  being answered. Nothing is assumed of the user: `Linked` starts from an approval.

No fairness is assumed of sends, edits, resets, changes of a roster or faults.
`KeyDirectory` and `GuestLinks` state safety only: a pool that is low stays low until
somebody activates the vault, and whether a guest is let in is up to the host.

## 5. What is proved

Every theorem holds for all values of the constants, under the assumption each module
names for them (`PartyAssumption`: two devices, one of them the initiator;
`SkipCapsAssumption`: the caps are natural numbers; `SessionAssumption`,
`DirectoryAssumption`, `DeliveryAssumption`, `GroupAssumption`, `LinkAssumption`: bounds
are numbers, switches are Booleans, sets are what they are used as). Where a theorem
needs more (`OneTab`, no transfer, a chat that stays open), its statement says so, and
for most of them a run of section 6 shows that it fails otherwise. None of the
properties is inductive; each proof names its strengthening, and its last lemma has one
step for every action. `TypeOK` of every module is proved too.

**`DrPairProofs`**: `KeysNotReused` (`NoKeyReuse`), `ForwardSecret` (`ForwardSecrecy`),
`HandsOverOnce` (`Spec => AtMostOnce`, the safety part of `SecureChannel`),
`CacheIsExact` (`CacheExact`) and `NothingIsShutOut` (`Deliverable`). The first three
need the strengthening `Inv`, which adds to `TypeOK` and `NoKeyReuse`:

* `Owned`: headers carry the sender's own public keys, and each record is `Tidy`: its
  receiving chain and cached keys hang on roots whose last DH output pairs an own key
  with the remote one they are filed under, at the position the counters say;
* `SendsAhead`: what a device can still seal with is no key it has used;
* `Apart`: a sending chain shares no root with what the other side sealed or can seal;
* `OpenedOnce`: a message was opened at most once, and its key is then `Spent`: behind
  the receiving chain of the record, and not in its cache.

The argument: a DH step mixes in a pair nobody has used before, so the root it yields
is fresh (`FreshRoot`) and a chain on it meets no old key; between DH steps a chain
only advances; and no step brings a spent key back (`DecryptStep`).
`DoubleRatchetProofs` has the lemmas on the operators, one per part of
`decryptRatchet`: the skip loop (`CacheStep`, `CacheTidy`), the DH step (`DhStep`,
`DhTidy`), the dropped key (`DropStep`, `DropTidy`), the head of the chain
(`TakeStep`).

The other two say what a record does hold, so they need where the two sides stand,
`Located`:

* `InTurn`: the chains come in turns, and neither side is more than one chain ahead of
  what the other has seen (a device opens the next chain only as it turns its own);
* `Placed`: the root of the k-th chain is the list of the pairs of public keys up to it
  (`Chain`, `ChainsMeet`), and the record's own chains and keys are those of its turn;
* `Written`: what was sealed is in order, each message at its place on its chain, and
  the counters and `previousChainLength` are the numbers of messages on those chains;
* `Read`: what was not opened is ahead of the receiver or has a slot in its cache, never
  both, and every slot has the key of a message;
* `Capped`: the loop of `cacheSkipped` respects both caps.

`CacheExact` is in `Read` and `Capped`. For `Deliverable`, a message that is ahead is on
the chain at hand or on the next one, by `InTurn`; every slot of the cache, and every
key that has to be cached to reach it, is of a message before it that is still missing
(`MissingAre`, `SlotsMissing`), and so they are no more than the missing ones, in each
bucket and altogether (`RoomFor`), which `FitsCaps` bounds.

**`DrSessionProofs`**: for any number of tabs, `RetiredHandshakesStay`
(`RetiredStaysRetired`). `Sound` is what every copy of a record is, in the store or
loaded by a call; in it `Remembers` ties `superseded` to the handshakes in `log`, newest
first. The theorem is about the window that list has room for:
more than `MAX_ARCHIVED_RATCHETS` handshakes later one can be run again. Under `OneTab`,
`KeysNotReused` (`NoKeyReuse`), `OtpSeedsOnce` (`OtpOnce`), `OpenedOncePerRun`
(`OpenedOncePerHandshake`) and `SupersededOpens` (`SupersededStillOpen`). `SendsAhead`
and `Apart`
are those of `DrPair` for every copy of a record a device still has, its
archived ratchets and what a call holds beside a reset included; `SeedsSpent`: a
prekey that has seeded a session is in the ledger, or the call that burns it is under
way (or one was cut short). With two tabs `MCDrSessionTabs` breaks the first.

`OpenedOncePerRun` follows the ratchets one by one. A *strand* (`Strands`) is a ratchet
of a record with the handshake in `log` it belongs to (`Stacked` says the live one and
the archived ones line up with the end of the log). `StepKinds` reduces the twelve
actions to five things that can happen to the strands of a device: none is new
(`Keeps`), one seals (`SealsWith`), one opens (`OpensWith`), one is added by a handshake
answered (`Answers`) or started (`Starts`); a lemma per action says which. The invariant
`Counted` is then about strands: every key of a strand goes back to its handshake
(`Bound`, `Rooted`), so no message of one handshake is opened with the ratchet of
another; a device that answers a handshake had answered it before it opened anything
of it (`Answered`); and a message is opened no more often than its handshake was run,
and less often while a strand of that handshake could still yield its key
(`OpenedEnough`): a run adds one such strand at most, and opening spends the key in the
strand that opens, in every copy of it.

`SupersededOpens` is that no message is lost to the handshakes that come after its own.
It is for chains within the caps, `MaxMsgs <= MaxSkip` and `MaxMsgs <= GlobalSkipCap`
(1000 and 3000 in the code): beyond them the code does give keys up, by design, and
`DrPair` says exactly which. For a handshake that neither side ran twice, `Paired`
relates the strands of it that the two devices have to the messages sealed under it,
whatever was sealed under others in between. What one side sealed is `Written`: a root a
turn, every chain without gaps, `previousChainLength` the length of the chain before.
Where the sealing side stands is `Seals`; where the reading side stands is `Reads`: each
message not opened yet is on the next chain, or ahead on the chain at hand, or in the
cache, and the cache has nothing else than keys of messages. `Ahead`: one of the two
strands is exactly one DH step before the other, so neither can start a chain the other
cannot follow; `Alone`: until the responder has answered, nothing but the initiator's first
chain exists. These are facts about two ratchets (`SealReads`, `SealAhead`,
`OpenCachedReads`, `OpenAtHandReads`, `OpenNextReads`, `OpenMoves`), lifted to the
system through `StepKinds`. `OpensFrom` is where the caps come in: under `Reads` every
key to be cached belongs to a message, and `Budget`, that a side never seals more than
`MaxMsgs`, the calls about to seal included, bounds these. `KeptStrand` picks the strand:
by `Stacked` the last `MAX_ARCHIVED_RATCHETS + 1` handshakes of a record all have
theirs. TLC found `Paired` to hold on the instance of the run `DrSession`.

**`KeyDirectoryProofs`**, for any number of tabs, requesters and batches.

* `HandedOut` (`HandedOnce`): no key is handed out twice, whatever the tabs do and
  whichever publication is cut short. Keys come in order and a batch that has not been
  inserted is unknown to the directory (`FreshKeys`); what was handed out has left the
  pool (`Popped1`). The conjunction is `Handed`.
* `OneKeyPerId` (`IdsNeverRecycled`), under `OneTab`: one tab, and no answer to a
  publication lost. `Numbered`: the batch under way has the ids from `nextId`, and
  everything the directory has seen is below it, except a batch that was inserted and
  not recorded yet. Both halves of `OneTab` are needed: `MCKeyDirectoryLost` breaks the
  second, and two tabs that start from one `nextId` break the first.
* `AdvertisedIsAnswerable` (`Answerable`), also under `OneTab`: `Stored` follows the
  private keys through the storing of a batch, `Answered` the ledger through the
  handshakes, and `Ready` says of every row in the pool or in a bundle that is not
  answered yet that its private key is there and its id not in the ledger. It rests
  on `IdsNeverRecycled`: an id that stood for two keys would burn the one with the other.
* `KeysSeedOnce` (`SeedsOnce`), under `OneTab`, by `Spent`: once a bundle has seeded a
  session, its private key is gone unless a delete failed, and the ledger knows it unless
  the ledger is full (`Burnt`); the ledger repeats nothing and has only ids of accepted
  handshakes (`Ledger`), and the store has nothing else under an id (`Exact`). So a second
  acceptance takes a delete that failed and a ledger that went once round.
* `TypeCorrect`, under `OneTab`, by `Shaped`: rows are counted in one statement and
  inserted in another, and they still never exceed `MAX_OPKS_PER_DEVICE`, because only
  the counting tab adds any (`Counted`, `Roomy`).

**`MessageDeliveryProofs`**, for any number of messages, edits, deletions and faults:
`AckedAreDurable` (`AckedIsDurable`) and `DeletedAreGone` (`DeletedStaysGone`). Both
rest on where a deletion is known. `NoSlot`: a message whose deletion the device has
heard of, or will, has no slot and gets none; `Filtered`: rows a reader fetched
before are kept out by `deletedIds`, also after a reload (which clears both); `AckReady`:
what a reader is about to acknowledge is cached, given up, or could not be written, or
has no slot. That the cache has the version acknowledged is `Fresh`: unless an edit
crossed, a reader holds the envelope the slot has (`Held`), decrypts that one
(`ReadAsFetched`), and what is acknowledged or about to be is cached as the slot has it
(`Current`).
`TypeCorrect` rests on `Values`, the texts and failures a reader can have in its hands.
`GoodTextsStay` (`GoodStaysGood`) is an action property: `Appended`, `Merged` and the
edits each keep a text the view has. `NothingIsLost` (`NothingLost`) is for a chat that
stays open in a tab that is not reloaded, without edits: then what a reader has opened
is in its hands, in those of one that joined it, cached, or was not written (`Landed`).
`MCMessageDeliveryLost` and `MCMessageDeliveryEdit` show that one switch of the chat, or
one edit, is enough to lose a text; what these two do is in section 6.

**`GroupKeysProofs`**: `KeysOfAnEpoch` (`OneKeyPerEpoch`) and `DepartedAreSealed`
(`DepartedSealed`), for any users, clients and number of rotations. The argument is
about the keys that *count*: stored, or in a request that claims no epoch or has
claimed it, or in the hands of a call after its claim. No key that counts is stamped
above the chat's epoch (`NotAhead`), and a key that still has to claim is stamped one
above the epoch it claims from (`Claiming`), so the claim that succeeds is the first
of its stamp (`OneKey`). `OneEpoch`: a key is minted for one epoch, so a late upload
brings nothing new under an old one. `Outside`: who is not on the roster has nothing
of the current epoch, because every departure bumps it. `TypeCorrect` rests on `Roll`,
that the roster names nobody twice. `SplitsAreSeen` (`NoSilentSplit`) is for a chat that
is not handed over: a key of the current epoch was wrapped by the owner (`OwnersKey`), so
a member who does not have it is behind, and that is what checks and scans look for.
After a transfer it fails (`MCGroupKeysTransfer`).

**`GuestLinksProofs`**: `NeverOverfull` (`Capacity`), and `SeatsAreCounted`, that
`GuestLinks` implements `SeatPool`: its initial states are
initial states there, and every step takes a seat, gives one back, closes the link, or
stutters. The argument follows one seat. `Ledger`: `used` is the number of holders
(`Counted`), a holder is on the list of seats or was taken off it once (`Remembered`),
and a request that has its seat but not its place on the list is the only one that has
it (`Requests`). `Grants`, `Stays`, `Departures`: only the knock a request decides has
its grant, and its seat is gone only after its guest has left. `WaitingIsListed`
(`Hydrated`) and `SlotsAreFreed` (`NoGhostSlot`) follow one knock, by `Door`: who waits is
indexed, and who ended the wait has freed the slot or is a handler about to. That the
list is never cut is `Lists`: what is in the index is pending and still has its slot,
since every handler drops a knock from the index before it frees the slot (`Placed`), and
the waiting room never has more slots than the link has seats; `AllIsRead` concludes with
`MaxUses <= MAX_HYDRATED_KNOCKS`, which is part of `LinkAssumption`. `KicksBite`
(`KickBites`) follows one grant, by `Kicks`: the denylist is written before a kick is
reported, so a rejoin that gets past the first removal has its webhook still to come, or
the removal the webhook starts, or that one has failed.

**`DeviceLinkProofs`**: `HandedOutOnce` (`HandedOnce`), and
`OpensWhereApproved` (`~Overlap => (Spec => []OpensWhereCompared)`), for any devices,
dialogs and records, with any number racing for one QR. `Numbered`: a deposit is on one
record or was handed out. `OneAtATime`: a dialog whose user waits runs one thing, and
the key it holds is the one whose digits it shows. `ForApproved`: a deposit on the
server or on its way there is sealed for a key that was approved.

Only model-checked: every liveness property (`Arrives`, `AllRead`, `Converges`, `Linked`,
that of `ExactlyOnce`). They need ENABLED, which the prover does not treat.

## 6. Findings

1. `MCDrSessionTabs.cfg`, `NoKeyReuse`: the lock on a ratchet is per tab, its record is
   not. Two tabs that send to one device seal two messages under one key.
2. `MCDrSessionLate.cfg`, `RepliesFollow`: a handshake older than a reset that arrives
   for the first time after the newer one supersedes it; the device's replies are then
   unreadable.
3. `MCKeyDirectoryLost.cfg`, `IdsNeverRecycled`: when the answer to a publication of
   prekeys is lost, the ids are used again for other keys, against what the ledger
   rests on.
4. `MCMessageDeliveryEdit.cfg`, `NothingLost`: a history load that fetched before an
   edit puts the old text back after it; the new envelope opens no second time. A load
   whose row fails because the edit handler was first does the same with the cached text.
5. `MCMessageDeliveryLost.cfg`, `NothingLost`: leaving a chat while its history load or
   live pull is decrypting drops the texts, and their keys are gone.
6. `MCGroupKeysJoin.cfg`, `JoinerSealed`: `GET /chats/:id` reads the chat and then the
   roster. If somebody joins in between, the owner takes its old key for current and
   hands it to the newcomer.
7. `MCGroupKeysTransfer.cfg`, `NoSilentSplit`: a transfer of the owner leaves the epoch
   and every wrapped key alone. A member who has to read its key again does not accept
   one the old owner wrapped, and the new owner sees no reason to rotate.
8. `MCGuestLinksSeat.cfg`, `NoSeatLost` (the run `GuestLinksSeat`): approve takes a seat
   without looking whether the knock is still there. If the guest has cancelled in
   between, nobody ever leaves under that identity and the seat is taken for good.
9. `MCGuestLinksRoom.cfg`, `ConcurrentCapacity`: a guest who leaves gives the seat back
   and keeps a valid token; reconnecting with it puts one more in the room than the
   link has seats.
10. `MCDeviceLinkRace.cfg`, `FirstWriteWins`: the WATCH of `attachEphemeralPubkey` is on
    the connection all requests share, so another request's EXEC or UNWATCH clears it and
    a second key replaces the first. The digits the user compares still tell.
11. `MCDeviceLinkTabs.cfg`, `Linked`: a code submitted and a tab changed before its
    answer mix two rendezvous in one dialog; the device whose digits were confirmed
    never gets the vault.
12. `MCMessageDeliveryAck.cfg`, `AckedIsCurrent`: messages are acknowledged by id. An edit
    that comes between the fetch of a reader and its acknowledgement is marked delivered
    with the text of before; the new one is not offered again until the chat is reopened.
13. `MCMessageDeliveryOther.cfg`, `ArrivesAlways`: the flags of a running pull are shared by
    all chats. A pull left over from the chat before takes the event of the chat just
    opened and stops without fetching; the message waits for the next event.
14. `MCGuestLinksKick.cfg`, `KickHolds`: the webhook does not wait for the removal of a
    kicked guest who came back and drops its result. If it fails, the guest stays in the
    room while the host was told that the kick worked.

## 7. What the models leave out

* *DrSession*: identity keys and signed prekeys do not change. The ledger check and the
  session save of `Accept` are one step, and so are the bundle fetch and the record save
  of `Bootstrap`. The failing delete of a private key is in `KeyDirectory`. The initial
  state has the prekeys published.
* *KeyDirectory*: one device, whose requesters each set up a session of their own;
  `POST /identity`, `/signed-prekey`, and who may ask for a bundle are left out.
* *MessageDelivery*: at most one reader of each kind, a batch of rows is kept in one
  step, cache write, view update and the check of the active chat are one step; `~open`
  means that another chat is open (with none open the subscription is off and deletions
  are not heard of); an edit event waits for the handler of the one before. Events
  arrive in order unless the socket drops. Another chat has a live pull but no other
  reader. The cache keeps the newest rows of a chat only (`pruneChatFeed`,
  `message-cache.ts:136-156`); here nothing is evicted, so what is said of the cache is
  said of a chat below `FEED_ROWS_PER_CHAT`. A write fails as a whole row; the tab that is
  closed between the ratchet's save and the cache's is `Reload`. Paging, the limit of 200 pending rows, the
  RAM limit, the sender's own rows, groups, reactions and pins are left out.
* *GroupKeys*: the ring in which a client keeps the keys of past epochs, pins of an
  identity that stop a delivery, and members without an ECDH key.
* *GuestLinks*: the fallback without Redis, temporary chats, the call log, the check on
  approve that the host is still a member, and the call's session key. One link: the index
  of knocks and its cap of 50 belong to a creator, who may have several links, and past 50
  guests waiting at all of them together the list is cut. `Reads` leaves the order of the
  list out. The denylist outlives the token (five hours against two,
  `livekit-admin.ts:97-98`), so it does not expire here. A ZREM is one
  step with the SET or GETDEL next to it; a slot and its knock expire at once, and the
  index is pruned lazily. Restarts and removals that fail are bounded by `MaxFaults`.
* *DeviceLink*: rate limits, the PIN gate, link tokens, device sessions and their
  migration, two records with the same digits or short code, typing a code that is no
  longer displayed, the fallback without Redis. The five attempts of
  `attachEphemeralPubkey` at its transaction are not counted. Several commands of one
  handler are one step where nothing in between can be told apart.
* Symbolic cryptography throughout; wire formats, padding, timing, logging.

Not modelled:

* *Sending and the outbox*: a retry has no idempotency key and the flush flag is per tab,
  so "stored once" does not hold; what is left is the fan-out, which `DrSession` and
  `MessageDelivery` have.
* *WebSocket registry*: best effort by design. The close of an evicted socket may drop
  its successor from the map (`registry.ts:238`); what rests on the registry has events
  that are lost, as in `MessageDelivery`.
* *Group call rooms*: joins, leaves and updates are several Redis commands without a
  transaction (`updateParticipantState`, `leaveRoom`), the session key of a call is a GET
  and a SET (`call-e2ee-session.ts:29-32`), and leaving all rooms or a kick does not
  delete it. What one would want of them fails as soon as two calls overlap; the hazards
  in `PROJECT.json` name the lines.
* *One-to-one calls*: spread over React effects and the state machine of WebRTC, which
  is the browser's.
* *The rest* (authentication, vault, trust, chats, media, polls, administration, schema,
  bootstrap): requests of one or a few statements, key derivation, or I/O; the reason
  for each is in `PROJECT.json`.

## 8. What could follow

* `DrSession`: the limit of three archived ratchets in a run, and changes of identity.
* `KeyDirectory`: publication and change of the identity.
* `MessageDelivery`: burning, and the eviction of old rows from the cache.
* `GuestLinks`: temporary chats, with their purge, and several links of one creator.
* `GroupKeys`: the ring of past keys, composed with the delivery of group messages.
