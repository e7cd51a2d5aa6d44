----------------------------- MODULE DeviceLink -----------------------------
(***************************************************************************)
(* Linking a new device through a rendezvous record in Redis               *)
(* (server/src/routes/devices.ts, lib/device-rendezvous-store.ts; client/  *)
(* src/components/settings-link-device-modal.tsx on the device that is     *)
(* signed in, login-qr-device-panel.tsx on the new one).                   *)
(*                                                                         *)
(* A Session is one ephemeral key pair of a new device, a Dialog one open  *)
(* dialog of an old one.  Mode A: the session creates the record with its  *)
(* key and shows a QR, a short code and six digits; the dialog scans the   *)
(* QR, or types the code and compares the digits.  Mode B: the dialog      *)
(* creates an empty record and shows a QR, a session that scans it         *)
(* attaches its key, the dialog polls for it, and the user compares the    *)
(* digits.  The dialog then deposits the vault, sealed for the key, and    *)
(* the session, which polls too, takes it out of the record once.          *)
(*                                                                         *)
(* Handlers and callbacks are cut where they await Redis, the network or   *)
(* WebCrypto.  All requests share one Redis connection, so WATCH, UNWATCH  *)
(* and EXEC work on one watch list.  The credentials always match: the id  *)
(* of a record and what authorises a deposit are set together.  The five   *)
(* attempts of attachEphemeralPubkey are not counted: an attempt aborts    *)
(* only if a watched record expires or is written in between, and then     *)
(* the next one finds it so.                                               *)
(***************************************************************************)
EXTENDS Naturals, FiniteSets

CONSTANTS Session,    \* the key pairs of new devices
          Dialog,     \* the link dialogs of old devices
          None,       \* no key
          MaxRdv,     \* bound: the rendezvous records created
          MaxFaults,  \* bound: expiries, failed requests, lost answers, panels left
          Racing,     \* several sessions may scan one QR of Mode B
          Overlap     \* the user may act while a request of the dialog is pending

ASSUME LinkAssumption ==
  /\ None \notin Session
  /\ MaxRdv \in Nat /\ MaxFaults \in Nat
  /\ Racing \in BOOLEAN /\ Overlap \in BOOLEAN

VARIABLES
  rdv,       \* Redis: the records
  code,      \* Redis: the records a short code points at
  expired,   \* the records whose five minutes are over
  watch,     \* the watch list of the Redis connection
  dirty,     \* something on it was written: the next EXEC fails
  next,      \* how many records were created
  new,       \* the panel of each session, and its request
  old,       \* each dialog: refs, polls, requests
  sent,      \* (history) how many deposits were stored
  handed,    \* (history) which deposit was handed to whom
  approved,  \* (history) the keys the user scanned or compared
  faults

redis == <<rdv, code, expired, watch, dirty>>
vars  == <<redis, next, new, old, sent, handed, approved, faults>>
-----------------------------------------------------------------------------
Rdv   == 1..MaxRdv
NoRdv == 0
MaybeRdv == 0..MaxRdv

NoBlob  == [key |-> None, n |-> 0]
Gone    == [here |-> FALSE, key |-> None, blob |-> NoBlob]
Fresh(k) == [here |-> TRUE, key |-> k, blob |-> NoBlob]

Attached_Here(e) == e.here
Attached(e) == e.key # None
Ready_Keyed(e) == e.key # None
Ready(e)    == e.blob # NoBlob

\* saveRendezvous: a record past its deadline is written and never read again
Put(r, e) ==
  /\ rdv' = IF r \in expired THEN rdv ELSE [rdv EXCEPT ![r] = e]
  /\ dirty' = (dirty \/ r \in watch)

\* GETDEL leaves nothing
Consumed_Stays(r) == rdv
Consumed(r) == [rdv EXCEPT ![r] = Gone]

Unwatched == watch' = {} /\ dirty' = FALSE

Off == [at |-> "off", key |-> None]
Poll(p) == [at |-> p, key |-> None]
NotTyping == [at |-> "no", r |-> NoRdv, key |-> None]
NoJob == [at |-> "no", r |-> NoRdv, key |-> None, byCode |-> FALSE, scanned |-> FALSE, seen |-> None]
NoCode == [r |-> NoRdv, key |-> None]

Closed == [ph |-> "mode", rid |-> NoRdv, key |-> None, byCode |-> FALSE, shown |-> NoCode,
           stop |-> FALSE, timer |-> NoRdv, poll |-> [r \in Rdv |-> Off],
           typing |-> NotTyping, job |-> NoJob]

\* what a dialog has under way
Quiet(o) ==
  /\ old[o].typing = NotTyping /\ old[o].job = NoJob
  /\ \A r \in Rdv : old[o].poll[r].at \in {"off", "timer"}
MayAct(o) == Overlap \/ Quiet(o)

\* cleanupPolling: timerRef holds the last timer only
Cleanup(d) ==
  [d EXCEPT !.stop = TRUE, !.timer = NoRdv,
            !.poll = [r \in Rdv |-> IF r = d.timer /\ @[r].at = "timer" THEN Off ELSE @[r]]]

Waits(s)   == new[s].at \in {"waiting", "verifying"}
Fault      == faults < MaxFaults /\ faults' = faults + 1
Arrives(a) == IF a THEN UNCHANGED faults ELSE Fault
Panel(s, p) == new' = [new EXCEPT ![s].at = p]
Uses(s, p, r) == new' = [new EXCEPT ![s] = [@ EXCEPT !.at = p, !.r = r]]
Ends(s, p)  == new' = [new EXCEPT ![s] = [@ EXCEPT !.at = p, !.taking = FALSE]]
Be(o, d)    == old' = [old EXCEPT ![o] = d]
-----------------------------------------------------------------------------
Init ==
  /\ rdv = [r \in Rdv |-> Gone] /\ code = {} /\ expired = {}
  /\ watch = {} /\ dirty = FALSE /\ next = 0
  /\ new = [s \in Session |-> [at |-> "idle", r |-> NoRdv, taking |-> FALSE]]
  /\ old = [o \in Dialog |-> Closed]
  /\ sent = 0 /\ handed = {} /\ approved = {} /\ faults = 0
-----------------------------------------------------------------------------
(* The new device.                                                          *)

\* startShowMode: Mode A, with a short code
ShowMode(s) ==
  /\ new[s].at = "idle" /\ next < MaxRdv
  /\ next' = next + 1
  /\ rdv' = [rdv EXCEPT ![next + 1] = Fresh(s)]
  /\ code' = code \cup {next + 1}
  /\ Uses(s, "waiting", next + 1)
  /\ UNCHANGED <<expired, watch, dirty, old, sent, handed, approved, faults>>

\* handleScan of the panel, and what submit-pubkey reads before it attaches
Scan(s, o) ==
  LET r == old[o].rid IN
  /\ new[s].at = "idle"
  /\ old[o].ph = "showqr" /\ r # NoRdv /\ ~old[o].byCode
  /\ Racing \/ \A t \in Session : new[t].r # r
  /\ Uses(s, IF rdv[r].here /\ ~Attached(rdv[r]) THEN "checked" ELSE "error", r)
  /\ UNCHANGED <<redis, next, old, sent, handed, approved, faults>>

\* attachEphemeralPubkey: WATCH, GET, then SET in a transaction
AttachWatch(s) ==
  /\ new[s].at = "checked"
  /\ watch' = watch \cup {new[s].r}
  /\ Panel(s, "watched")
  /\ UNCHANGED <<rdv, code, expired, dirty, next, old, sent, handed, approved, faults>>

AttachRead(s) ==
  LET e == rdv[new[s].r] IN
  /\ new[s].at = "watched"
  /\ \/ e.here /\ ~Attached(e) /\ Panel(s, "read") /\ UNCHANGED <<watch, dirty>>
     \/ (~e.here \/ Attached(e)) /\ Panel(s, "error") /\ Unwatched
  /\ UNCHANGED <<rdv, code, expired, next, old, sent, handed, approved, faults>>

AttachExec(s, arrives) ==
  LET r == new[s].r IN
  /\ new[s].at = "read"
  /\ Unwatched
  /\ \/ dirty /\ arrives /\ Panel(s, "checked") /\ UNCHANGED rdv
     \/ /\ ~dirty
        /\ rdv' = IF r \in expired THEN rdv ELSE [rdv EXCEPT ![r] = Fresh(s)]
        /\ Panel(s, IF arrives THEN "verifying" ELSE "error")
  /\ Arrives(arrives)
  /\ UNCHANGED <<code, expired, next, old, sent, handed, approved>>

\* poll and POST claim: nothing yet is answered with 425 and asked again
Claim(s) ==
  LET e == rdv[new[s].r] IN
  /\ Waits(s) /\ ~new[s].taking
  /\ \/ ~e.here /\ Panel(s, "error")
     \/ e.here /\ Ready(e) /\ new' = [new EXCEPT ![s] = [@ EXCEPT !.taking = TRUE]]
  /\ UNCHANGED <<redis, next, old, sent, handed, approved, faults>>

\* consumeRendezvous, and decryptVaultFromEphemeralKey of what it returned
Take(s, arrives) ==
  LET r == new[s].r
      e == rdv[r] IN
  /\ new[s].taking
  /\ rdv' = Consumed(r) /\ dirty' = (dirty \/ (e.here /\ r \in watch))
  /\ handed' = IF e.blob = NoBlob THEN handed ELSE handed \cup {<<e.blob.n, s>>}
  /\ Ends(s, IF arrives /\ e.blob.key = s THEN "received" ELSE "error")
  /\ Arrives(arrives)
  /\ UNCHANGED <<code, expired, watch, next, old, sent, approved>>

\* the panel is left, or a request of a poll fails
Leave(s) ==
  /\ Waits(s) /\ ~new[s].taking /\ Fault
  /\ Panel(s, "error")
  /\ UNCHANGED <<redis, next, old, sent, handed, approved>>
-----------------------------------------------------------------------------
(* The dialog: tabs, and showing a QR (Mode B).                             *)

\* also what closing the dialog does
TabScan(o) ==
  /\ MayAct(o) /\ old[o].ph # "done"
  /\ Be(o, [Cleanup(old[o]) EXCEPT !.ph = "scan"])
  /\ UNCHANGED <<redis, next, new, sent, handed, approved, faults>>

TabCode(o) ==
  /\ MayAct(o) /\ old[o].ph # "done"
  /\ Be(o, [Cleanup(old[o]) EXCEPT !.ph = "code", !.shown = NoCode])
  /\ UNCHANGED <<redis, next, new, sent, handed, approved, faults>>

startShowQr(o) ==
  /\ MayAct(o) /\ old[o].ph \notin {"showqr", "verify", "done"} /\ next < MaxRdv
  /\ next' = next + 1
  /\ rdv' = [rdv EXCEPT ![next + 1] = Fresh(None)]
  /\ Be(o, [Cleanup(old[o]) EXCEPT !.stop = FALSE, !.ph = "showqr", !.shown = NoCode,
              !.rid = NoRdv, !.key = None, !.byCode = FALSE, !.poll[next + 1] = Poll("created")])
  /\ UNCHANGED <<code, expired, watch, dirty, new, sent, handed, approved, faults>>

\* createRendezvous returns
Created(o, r, arrives) ==
  LET d == old[o] IN
  /\ d.poll[r].at = "created"
  /\ Be(o, IF d.stop THEN [d EXCEPT !.poll[r] = Off]
           ELSE IF arrives THEN [d EXCEPT !.rid = r, !.byCode = FALSE, !.poll[r] = Poll("timer"), !.timer = r]
           ELSE [d EXCEPT !.poll[r] = Off, !.ph = "mode"])
  /\ Arrives(arrives)
  /\ UNCHANGED <<redis, next, new, sent, handed, approved>>

PollFires(o, r) ==
  /\ old[o].poll[r].at = "timer"
  /\ Be(o, [old[o] EXCEPT !.poll[r] = IF old[o].stop THEN Off ELSE Poll("asked")])
  /\ UNCHANGED <<redis, next, new, sent, handed, approved, faults>>

\* getRendezvousStatus returns; then the digits are computed
PollAnswered(o, r, arrives) ==
  LET d == old[o] IN
  /\ d.poll[r].at = "asked"
  /\ Be(o, IF d.stop THEN [d EXCEPT !.poll[r] = Off]
           ELSE IF ~arrives \/ ~rdv[r].here THEN [d EXCEPT !.poll[r] = Off, !.ph = "mode"]
           ELSE IF Attached(rdv[r])
                THEN [d EXCEPT !.key = rdv[r].key, !.poll[r] = [at |-> "digits", key |-> rdv[r].key]]
           ELSE [d EXCEPT !.poll[r] = Poll("timer"), !.timer = r])
  /\ Arrives(arrives)
  /\ UNCHANGED <<redis, next, new, sent, handed, approved>>

PollDigits(o, r) ==
  LET d == old[o] IN
  /\ d.poll[r].at = "digits"
  /\ Be(o, IF d.stop THEN [d EXCEPT !.poll[r] = Off]
           ELSE [d EXCEPT !.poll[r] = Off, !.shown = [r |-> r, key |-> d.poll[r].key], !.ph = "verify"])
  /\ UNCHANGED <<redis, next, new, sent, handed, approved, faults>>
-----------------------------------------------------------------------------
(* The dialog: typing a code, confirming, scanning (Mode A), depositing.    *)

\* submitCode: the user types what the panel of s shows
submitCode(o, s) ==
  /\ MayAct(o) /\ old[o].ph = "code" /\ old[o].typing = NotTyping
  /\ new[s].at = "waiting"
  /\ Be(o, [old[o] EXCEPT !.typing = [at |-> "asked", r |-> new[s].r, key |-> None]])
  /\ UNCHANGED <<redis, next, new, sent, handed, approved, faults>>

\* POST resolve-code returns.  submitCode has no look at stopRef.
Resolved(o, arrives) ==
  LET d == old[o]
      r == d.typing.r
      found == arrives /\ r \in code /\ rdv[r].here /\ ~Ready(rdv[r]) IN
  /\ d.typing.at = "asked"
  /\ Be(o, IF found THEN [d EXCEPT !.rid = r, !.key = rdv[r].key, !.byCode = TRUE,
                                   !.typing = [at |-> "digits", r |-> r, key |-> rdv[r].key]]
           ELSE [d EXCEPT !.typing = NotTyping])
  /\ code' = IF arrives /\ ~rdv[r].here THEN code \ {r} ELSE code
  /\ Arrives(arrives)
  /\ UNCHANGED <<rdv, expired, watch, dirty, next, new, sent, handed, approved>>

ResolvedDigits(o) ==
  LET d == old[o] IN
  /\ d.typing.at = "digits"
  /\ Be(o, [d EXCEPT !.typing = NotTyping, !.ph = "verify",
                     !.shown = [r |-> d.typing.r, key |-> d.typing.key]])
  /\ UNCHANGED <<redis, next, new, sent, handed, approved, faults>>

\* the six digits on the screen of the dialog are those on the panel of s
Agree(o, s) == Waits(s) /\ old[o].shown = [r |-> new[s].r, key |-> s]

\* pendingPubkeyRef
Recipient_Newest(d) == rdv[d.rid].key
Recipient(d) == d.key

Posted(o, r, k, byCode, scanned) ==
  Be(o, [old[o] EXCEPT !.job = [at |-> "posted", r |-> r, key |-> k, byCode |-> byCode,
                                scanned |-> scanned, seen |-> None]])

confirmAndDeposit(o, s) ==
  LET d == old[o] IN
  /\ MayAct(o) /\ d.ph = "verify" /\ d.job = NoJob
  /\ Agree(o, s)
  /\ d.key # None /\ d.rid # NoRdv
  /\ Posted(o, d.rid, Recipient(d), d.byCode, FALSE)
  /\ approved' = approved \cup {s}
  /\ UNCHANGED <<redis, next, new, sent, handed, faults>>

\* handleScan of the dialog
ScanQr(o, s) ==
  /\ MayAct(o) /\ old[o].ph = "scan" /\ old[o].job = NoJob
  /\ new[s].at = "waiting"
  /\ Posted(o, new[s].r, s, FALSE, TRUE)
  /\ approved' = approved \cup {s}
  /\ UNCHANGED <<redis, next, new, sent, handed, faults>>

\* POST deposit reads the record ...
DepositRead(o) ==
  LET d == old[o]
      e == rdv[d.job.r] IN
  /\ d.job.at = "posted"
  /\ Be(o, IF e.here /\ Attached(e) /\ ~Ready(e)
           THEN [d EXCEPT !.job = [@ EXCEPT !.at = "read", !.seen = e.key]]
           ELSE [d EXCEPT !.job = NoJob])
  /\ UNCHANGED <<redis, next, new, sent, handed, approved, faults>>

\* ... and writes all of it back, with the sealed vault
DepositSave(o, arrives) ==
  LET d == old[o]
      j == d.job IN
  /\ j.at = "read"
  /\ Put(j.r, [here |-> TRUE, key |-> j.seen, blob |-> [key |-> j.key, n |-> sent + 1]])
  /\ sent' = sent + 1
  /\ code' = IF j.byCode THEN code \ {j.r} ELSE code
  /\ Be(o, IF ~arrives THEN [d EXCEPT !.job = NoJob]
           ELSE IF j.scanned THEN [d EXCEPT !.job = NoJob, !.ph = "done"]
           ELSE [Cleanup(d) EXCEPT !.job = NoJob, !.ph = "done"])
  /\ Arrives(arrives)
  /\ UNCHANGED <<expired, watch, next, new, handed, approved>>

\* the five minutes of a record are over
Expire(r) ==
  /\ r <= next /\ r \notin expired /\ Fault
  /\ expired' = expired \cup {r}
  /\ rdv' = [rdv EXCEPT ![r] = Gone] /\ code' = code \ {r}
  /\ dirty' = (dirty \/ (rdv[r].here /\ r \in watch))
  /\ UNCHANGED <<watch, next, new, old, sent, handed, approved>>
-----------------------------------------------------------------------------
NewDevice(s) ==
  \/ ShowMode(s) \/ AttachWatch(s) \/ AttachRead(s) \/ Claim(s) \/ Leave(s)
  \/ \E o \in Dialog : Scan(s, o)
  \/ \E a \in BOOLEAN : AttachExec(s, a) \/ Take(s, a)

OldDevice(o) ==
  \/ TabScan(o) \/ TabCode(o) \/ startShowQr(o) \/ ResolvedDigits(o) \/ DepositRead(o)
  \/ \E s \in Session : submitCode(o, s) \/ confirmAndDeposit(o, s) \/ ScanQr(o, s)
  \/ \E r \in Rdv : PollFires(o, r) \/ PollDigits(o, r)
  \/ \E a \in BOOLEAN : \/ Resolved(o, a) \/ DepositSave(o, a)
                        \/ \E r \in Rdv : Created(o, r, a) \/ PollAnswered(o, r, a)

Next ==
  \/ \E s \in Session : NewDevice(s)
  \/ \E o \in Dialog : OldDevice(o)
  \/ \E r \in Rdv : Expire(r)

Spec == Init /\ [][Next]_vars

\* requests are answered and timers fire; nobody has to scan, type or confirm
Fairness ==
  /\ \A s \in Session :
       /\ WF_vars(AttachWatch(s)) /\ WF_vars(AttachRead(s)) /\ WF_vars(AttachExec(s, TRUE))
       /\ WF_vars(Claim(s)) /\ WF_vars(Take(s, TRUE))
  /\ \A o \in Dialog :
       /\ WF_vars(DepositRead(o)) /\ WF_vars(DepositSave(o, TRUE))
       /\ WF_vars(Resolved(o, TRUE)) /\ WF_vars(ResolvedDigits(o))
       /\ \A r \in Rdv : /\ WF_vars(Created(o, r, TRUE)) /\ WF_vars(PollFires(o, r))
                         /\ WF_vars(PollAnswered(o, r, TRUE)) /\ WF_vars(PollDigits(o, r))

FairSpec == Spec /\ Fairness
-----------------------------------------------------------------------------
Key    == Session \cup {None}
Blobs  == [key : Key, n : Nat]
Entry  == [here : BOOLEAN, key : Key, blob : Blobs]
PanelT == [at : {"idle", "checked", "watched", "read", "waiting", "verifying", "received", "error"},
           r : MaybeRdv, taking : BOOLEAN]
Shown   == [r : MaybeRdv, key : Key]
PollT   == [at : {"off", "created", "timer", "asked", "digits"}, key : Key]
Typing  == [at : {"no", "asked", "digits"}, r : MaybeRdv, key : Key]
Job     == [at : {"no", "posted", "read"}, r : MaybeRdv, key : Key, byCode : BOOLEAN,
            scanned : BOOLEAN, seen : Key]
DialogT == [ph : {"mode", "scan", "code", "showqr", "verify", "done"}, rid : MaybeRdv, key : Key,
            byCode : BOOLEAN, shown : Shown, stop : BOOLEAN, timer : MaybeRdv,
            poll : [Rdv -> PollT], typing : Typing, job : Job]

\* A record that holds a vault holds a key, a request is about a record that was created, and every
\* part keeps its shape; what the digits are shown for always has a key.
TypeOK ==
  /\ next \in 0..MaxRdv /\ sent \in Nat /\ faults \in 0..MaxFaults /\ dirty \in BOOLEAN
  /\ rdv \in [Rdv -> Entry] /\ new \in [Session -> PanelT] /\ old \in [Dialog -> DialogT]
  /\ watch \subseteq Rdv /\ code \subseteq Rdv /\ expired \subseteq Rdv
  /\ approved \subseteq Session /\ handed \subseteq (1..sent) \X Session
  /\ \A r \in Rdv : Ready(rdv[r]) => Attached(rdv[r])
  /\ \A o \in Dialog : old[o].shown.r # NoRdv => old[o].shown.key \in Session

\* A new device opens a vault only if the user scanned its QR or saw the same six digits on both
\* screens, whoever else attached a key to the record and however the two devices' requests
\* interleave ("sends nothing until the user confirms both screens agree",
\* settings-link-device-modal.tsx:242-246).
OpensWhereCompared == \A s \in Session : new[s].at = "received" => s \in approved

\* A deposited vault leaves the server at most once, also when two devices hold the claim secret and
\* poll the same record ("Returns the encrypted vault exactly once", devices.ts:681-682).
HandedOnce == \A x, y \in handed : x[1] = y[1] => x = y

\* The first key that was attached to a record stays (device-rendezvous-store.ts:145-147).
FirstWriteWins ==
  [][\A r \in Rdv : rdv[r].here /\ Attached(rdv[r]) /\ rdv'[r].here => rdv'[r].key = rdv[r].key]_vars

\* If nothing fails, a new device the user has approved gets the vault.
Linked == \A s \in Session : (s \in approved) ~> (new[s].at = "received")
=============================================================================
