-------------------------- MODULE DeviceLinkProofs --------------------------
(***************************************************************************)
(* What DeviceLink guarantees for any number of new devices, dialogs and   *)
(* records: a deposit is handed out once, and, as long as the user lets    *)
(* one request of a dialog finish before starting another, a vault opens   *)
(* only on a device that was scanned or compared.  The first needs that    *)
(* deposits carry different numbers; the second follows the key from what  *)
(* the dialog shows, over the deposit, into the record.                    *)
(***************************************************************************)
EXTENDS DeviceLink, TLAPS

Panels ==
  \A s \in Session : /\ new[s].at # "idle" => new[s].r \in Rdv
                     /\ new[s].taking => Waits(s)

Records ==
  /\ code \subseteq 1..next
  /\ \A r \in code : rdv[r].here => Attached(rdv[r])
  /\ \A r \in Rdv : Ready(rdv[r]) => rdv[r].blob.n \in 1..sent

\* What a request or a callback of a dialog works with has a place and a key.
Sound(d) ==
  /\ d.typing.at # "no" => d.typing.r \in Rdv
  /\ d.job.at # "no" => d.job.r \in Rdv
  /\ d.typing.at = "digits" => d.typing.key \in Session
  /\ d.job.at = "read" => d.job.seen \in Session
  /\ \A r \in Rdv : d.poll[r].at = "digits" => d.poll[r].key \in Session
  /\ d.shown.r # NoRdv => d.shown.key \in Session

Dialogs == \A o \in Dialog : Sound(old[o])

Typed == TypeOK /\ Panels /\ Records /\ Dialogs

\* A number is on one record, or was handed out, and never both.
Numbered ==
  /\ \A r \in Rdv : Ready(rdv[r]) => \A x \in handed : x[1] # rdv[r].blob.n
  /\ \A r, q \in Rdv : Ready(rdv[r]) /\ Ready(rdv[q]) /\ rdv[r].blob.n = rdv[q].blob.n => r = q

\* The keys of deposits, stored or under way, were approved.
ForApproved ==
  /\ \A r \in Rdv : Ready(rdv[r]) => rdv[r].blob.key \in approved
  /\ \A o \in Dialog : old[o].job.at # "no" => old[o].job.key \in approved

\* A dialog whose user waits does one thing at a time, and shows the digits of the key it would use.
AllOff(d) == \A r \in Rdv : d.poll[r].at = "off"

OneThing(d) ==
  /\ \A r \in Rdv : d.poll[r].at # "off" =>
       /\ d.ph = "showqr" /\ ~d.stop
       /\ d.typing.at = "no" /\ d.job.at = "no"
       /\ d.poll[r].at = "timer" => d.timer = r
       /\ \A q \in Rdv \ {r} : d.poll[q].at = "off"
  /\ d.typing.at # "no" => d.ph = "code" /\ AllOff(d) /\ d.job.at = "no"
  /\ d.job.at # "no" => d.ph \in {"scan", "verify"} /\ AllOff(d)

SameKey(d) ==
  /\ d.typing.at = "digits" => d.key = d.typing.key
  /\ \A r \in Rdv : d.poll[r].at = "digits" => d.key = d.poll[r].key
  /\ d.ph = "verify" => d.key = d.shown.key

OneAtATime == \A o \in Dialog : OneThing(old[o]) /\ SameKey(old[o])

(***************************************************************************)
(* Types.                                                                  *)
(***************************************************************************)
LEMMA PlaceShapes == NoRdv \in MaybeRdv /\ NoRdv \notin Rdv /\ \A r \in Rdv : r \in MaybeRdv /\ r # NoRdv
BY LinkAssumption DEF LinkAssumption, MaybeRdv, Rdv, NoRdv

LEMMA EntryShapes ==
  /\ NoBlob \in Blobs /\ Gone \in Entry /\ ~Ready(Gone) /\ ~Gone.here
  /\ \A k \in Key : Fresh(k) \in Entry /\ ~Ready(Fresh(k)) /\ Fresh(k).key = k
BY DEF NoBlob, Blobs, Gone, Entry, Key, Fresh, Ready

LEMMA PollShapes ==
  /\ Off \in PollT /\ Off.at = "off"
  /\ \A p \in {"created", "timer", "asked"} : Poll(p) \in PollT /\ Poll(p).at = p
  /\ \A k \in Key : [at |-> "digits", key |-> k] \in PollT
BY DEF Off, Poll, PollT, Key

LEMMA JobShapes ==
  /\ NotTyping \in Typing /\ NotTyping.at = "no"
  /\ NoJob \in Job /\ NoJob.at = "no"
  /\ NoCode \in Shown /\ NoCode.r = NoRdv
BY PlaceShapes DEF NotTyping, Typing, NoJob, Job, NoCode, Shown, Key

LEMMA Cleaned ==
  ASSUME NEW d \in DialogT
  PROVE  /\ Cleanup(d) \in DialogT
         /\ Cleanup(d).shown = d.shown /\ Cleanup(d).typing = d.typing /\ Cleanup(d).job = d.job
         /\ Cleanup(d).key = d.key /\ Cleanup(d).rid = d.rid /\ Cleanup(d).ph = d.ph
         /\ \A r \in Rdv : Cleanup(d).poll[r] = IF r = d.timer /\ d.poll[r].at = "timer" THEN Off ELSE d.poll[r]
<1> DEFINE P == [r \in Rdv |-> IF r = d.timer /\ d.poll[r].at = "timer" THEN Off ELSE d.poll[r]]
<1>1. P \in [Rdv -> PollT]
  BY PollShapes DEF DialogT
<1>2. Cleanup(d) = [d EXCEPT !.stop = TRUE, !.timer = NoRdv, !.poll = P]
  BY DEF Cleanup
<1>3. \A r \in Rdv : P[r] = IF r = d.timer /\ d.poll[r].at = "timer" THEN Off ELSE d.poll[r]
  OBVIOUS
<1> HIDE DEF P
<1> QED
  BY <1>1, <1>2, <1>3, PlaceShapes DEF DialogT

LEMMA Began == Closed \in DialogT /\ Sound(Closed)
<1>1. [r \in Rdv |-> Off] \in [Rdv -> PollT]
  BY PollShapes
<1>2. Closed \in DialogT
  BY <1>1, PlaceShapes, JobShapes DEF Closed, DialogT, Key
<1> QED
  BY <1>2, JobShapes, PollShapes DEF Closed, Sound

Status == {"idle", "checked", "watched", "read", "waiting", "verifying", "received", "error"}

LEMMA PanelMoved ==
  ASSUME new \in [Session -> PanelT], NEW s \in Session, NEW p \in Status, Panel(s, p)
  PROVE  /\ new' \in [Session -> PanelT]
         /\ new'[s].at = p /\ new'[s].r = new[s].r /\ new'[s].taking = new[s].taking
         /\ \A t \in Session \ {s} : new'[t] = new[t]
BY DEF Panel, PanelT, Status

LEMMA PanelEnded ==
  ASSUME new \in [Session -> PanelT], NEW s \in Session, NEW p \in Status, Ends(s, p)
  PROVE  /\ new' \in [Session -> PanelT]
         /\ new'[s].at = p /\ new'[s].r = new[s].r /\ ~new'[s].taking
         /\ \A t \in Session \ {s} : new'[t] = new[t]
<1>1. [new[s] EXCEPT !.at = p, !.taking = FALSE] \in PanelT
  BY DEF PanelT, Status
<1> QED
  BY <1>1 DEF Ends, PanelT

LEMMA PanelScans ==
  ASSUME new \in [Session -> PanelT], NEW s \in Session, NEW p \in Status, NEW n \in Rdv, Uses(s, p, n)
  PROVE  /\ new' \in [Session -> PanelT]
         /\ new'[s].at = p /\ new'[s].r = n /\ new'[s].taking = new[s].taking
         /\ \A t \in Session \ {s} : new'[t] = new[t]
<1>1. [new[s] EXCEPT !.at = p, !.r = n] \in PanelT
  BY PlaceShapes DEF PanelT, Status
<1> QED
  BY <1>1 DEF Uses, PanelT

LEMMA TypeInit == Init => Typed
<1> SUFFICES ASSUME Init PROVE Typed
  OBVIOUS
<1>1. new \in [Session -> PanelT]
  BY PlaceShapes DEF Init, PanelT
<1>2. rdv \in [Rdv -> Entry] /\ \A r \in Rdv : ~Ready(rdv[r])
  BY EntryShapes DEF Init
<1>3. old \in [Dialog -> DialogT] /\ Dialogs
  BY Began DEF Init, Dialogs
<1>4. next \in 0..MaxRdv /\ sent \in Nat /\ faults \in 0..MaxFaults
  BY LinkAssumption DEF Init, LinkAssumption
<1>5. dirty \in BOOLEAN /\ watch \subseteq Rdv /\ code \subseteq Rdv /\ expired \subseteq Rdv
  BY DEF Init
<1>6. approved \subseteq Session /\ handed \subseteq (1..sent) \X Session
  BY DEF Init
<1>7. TypeOK
  BY <1>1, <1>2, <1>3, <1>4, <1>5, <1>6 DEF TypeOK, Dialogs, Sound
<1> QED
  BY <1>2, <1>3, <1>7 DEF Init, Typed, Panels, Records

\* The conjuncts of Typed that a step of a panel can disturb.
LEMMA TypeNew ==
  ASSUME Typed, NEW s \in Session, NewDevice(s)
  PROVE  Typed'
<1> USE LinkAssumption DEF LinkAssumption, Typed, TypeOK, Panels, Records, Dialogs, Waits, redis
<1>0. s \in Key
  BY DEF Key
<1>1. CASE ShowMode(s)
  <2>1. next + 1 \in Rdv /\ next' \in 0..MaxRdv /\ 1..next \subseteq 1..next' /\ next + 1 \in 1..next'
    BY <1>1 DEF ShowMode, Rdv
  <2>2. \A r \in Rdv : rdv'[r] = IF r = next + 1 THEN Fresh(s) ELSE rdv[r]
    BY <1>1, <2>1 DEF ShowMode
  <2>3. rdv' \in [Rdv -> Entry]
    BY <1>0, <1>1, <2>1, EntryShapes DEF ShowMode
  <2>4. Panels' /\ new' \in [Session -> PanelT]
    BY <1>1, <2>1, PanelScans DEF ShowMode, Status
  <2>5. code' \subseteq Rdv /\ code' \subseteq 1..next'
    BY <1>1, <2>1 DEF ShowMode
  <2>6. \A r \in code' : rdv'[r].here => Attached(rdv'[r])
    BY <1>0, <1>1, <2>1, <2>2, EntryShapes DEF ShowMode, Attached
  <2>7. \A r \in Rdv : Ready(rdv'[r]) => Attached(rdv'[r]) /\ rdv'[r].blob.n \in 1..sent
    BY <1>0, <2>2, EntryShapes
  <2> QED
    BY <1>1, <2>1, <2>3, <2>4, <2>5, <2>6, <2>7 DEF ShowMode
<1>2. CASE AttachWatch(s)
  BY <1>2, PanelMoved DEF AttachWatch, Status
<1>3. CASE AttachRead(s)
  <2>1. PICK p \in {"read", "error"} : Panel(s, p)
    BY <1>3 DEF AttachRead
  <2>2. watch' \subseteq Rdv /\ dirty' \in BOOLEAN
    BY <1>3 DEF AttachRead, Unwatched
  <2> QED
    BY <1>3, <2>1, <2>2, PanelMoved DEF AttachRead, Status
<1>4. CASE Claim(s)
  <2>1. CASE Panel(s, "error")
    BY <1>4, <2>1, PanelMoved DEF Claim, Status
  <2>2. CASE new' = [new EXCEPT ![s] = [@ EXCEPT !.taking = TRUE]]
    <3>1. [new[s] EXCEPT !.taking = TRUE] \in PanelT
      BY DEF PanelT
    <3> QED
      BY <1>4, <2>2, <3>1 DEF Claim, PanelT
  <2> QED
    BY <1>4, <2>1, <2>2 DEF Claim
<1>5. CASE Leave(s)
  BY <1>5, PanelMoved DEF Leave, Fault, Status
<1>6. ASSUME NEW o \in Dialog, Scan(s, o)
      PROVE  Typed'
  <2>1. old[o].rid \in Rdv
    BY <1>6 DEF Scan, DialogT, MaybeRdv, Rdv, NoRdv
  <2>2. PICK p \in {"checked", "error"} : Uses(s, p, old[o].rid)
    BY <1>6 DEF Scan
  <2>3. p \in Status /\ ~new[s].taking
    BY <1>6 DEF Scan, Status
  <2>4. /\ new' \in [Session -> PanelT]
        /\ new'[s].r \in Rdv /\ new'[s].taking = new[s].taking
        /\ \A t \in Session \ {s} : new'[t] = new[t]
    <3> HIDE DEF Panels, Records, Dialogs
    <3> QED
      BY <2>1, <2>2, <2>3, PanelScans
  <2>5. Panels'
    BY <2>3, <2>4
  <2> QED
    BY <1>6, <2>4, <2>5 DEF Scan
<1>7. ASSUME NEW a \in BOOLEAN, AttachExec(s, a)
      PROVE  Typed'
  <2>1. \A r \in Rdv : rdv'[r] = rdv[r] \/ rdv'[r] = Fresh(s)
    BY <1>7 DEF AttachExec
  <2>2. rdv' \in [Rdv -> Entry]
    BY <1>0, <1>7, EntryShapes DEF AttachExec
  <2>3. PICK p \in {"checked", "verifying", "error"} : Panel(s, p)
    BY <1>7 DEF AttachExec
  <2>4. \A r \in code : rdv'[r].here => Attached(rdv'[r])
    BY <1>0, <2>1, EntryShapes DEF Attached
  <2>5. \A r \in Rdv : Ready(rdv'[r]) => Attached(rdv'[r]) /\ rdv'[r].blob.n \in 1..sent
    BY <1>0, <2>1, EntryShapes
  <2>6. faults' \in 0..MaxFaults
    BY <1>7 DEF AttachExec, Arrives, Fault
  <2>7. ~new[s].taking
    BY <1>7 DEF AttachExec
  <2> QED
    BY <1>7, <2>2, <2>3, <2>4, <2>5, <2>6, <2>7, PanelMoved DEF AttachExec, Unwatched, Status
<1>8. ASSUME NEW a \in BOOLEAN, Take(s, a)
      PROVE  Typed'
  <2>1. new[s].r \in Rdv
    BY <1>8 DEF Take
  <2>2. \A r \in Rdv : rdv'[r] = rdv[r] \/ rdv'[r] = Gone
    BY <1>8, <2>1 DEF Take, Consumed
  <2>3. rdv' \in [Rdv -> Entry]
    BY <1>8, EntryShapes DEF Take, Consumed
  <2>4. PICK p \in {"received", "error"} : Ends(s, p)
    BY <1>8 DEF Take
  <2>5. faults' \in 0..MaxFaults /\ dirty' \in BOOLEAN
    BY <1>8 DEF Take, Arrives, Fault
  <2>6. handed' \subseteq (1..sent) \X Session
    BY <1>8, <2>1 DEF Take, Ready
  <2>7. \A r \in code : rdv'[r].here => Attached(rdv'[r])
    BY <2>2, EntryShapes
  <2>8. \A r \in Rdv : Ready(rdv'[r]) => Attached(rdv'[r]) /\ rdv'[r].blob.n \in 1..sent
    BY <2>2, EntryShapes
  <2> QED
    BY <1>8, <2>3, <2>4, <2>5, <2>6, <2>7, <2>8, PanelEnded DEF Take, Status
<1> QED
  BY <1>1, <1>2, <1>3, <1>4, <1>5, <1>6, <1>7, <1>8 DEF NewDevice

LEMMA DialogMoved ==
  ASSUME old \in [Dialog -> DialogT], Dialogs, NEW o \in Dialog, NEW d \in DialogT, Sound(d), Be(o, d)
  PROVE  /\ old' \in [Dialog -> DialogT] /\ Dialogs' /\ old'[o] = d
         /\ \A p \in Dialog \ {o} : old'[p] = old[p]
BY DEF Be, Dialogs

\* A step that changes a dialog, and nothing else the types are about.
LEMMA DialogOnly ==
  ASSUME Typed, NEW o \in Dialog, NEW d \in DialogT, Sound(d), Be(o, d),
         UNCHANGED <<redis, next, new, sent, handed>>, faults' \in 0..MaxFaults, approved' \subseteq Session
  PROVE  Typed'
<1>1. old' \in [Dialog -> DialogT] /\ Dialogs'
  BY DialogMoved DEF Typed, TypeOK
<1> QED
  BY <1>1 DEF Typed, TypeOK, Panels, Records, Dialogs, Sound, Waits, redis

LEMMA TypeTabs ==
  ASSUME Typed, NEW o \in Dialog, TabScan(o) \/ TabCode(o) \/ startShowQr(o)
  PROVE  Typed'
<1> DEFINE c == Cleanup(old[o])
<1>0. old[o] \in DialogT /\ Sound(old[o])
  BY DEF Typed, TypeOK, Dialogs
<1>1. c \in DialogT /\ Sound(c)
  BY <1>0, Cleaned, PollShapes DEF Sound
<1>2. CASE TabScan(o)
  <2>1. [c EXCEPT !.ph = "scan"] \in DialogT /\ Sound([c EXCEPT !.ph = "scan"])
    BY <1>1 DEF DialogT, Sound
  <2> QED
    BY <1>2, <2>1, DialogOnly DEF TabScan, Typed, TypeOK
<1>3. CASE TabCode(o)
  <2>1. [c EXCEPT !.ph = "code", !.shown = NoCode] \in DialogT
        /\ Sound([c EXCEPT !.ph = "code", !.shown = NoCode])
    BY <1>1, JobShapes DEF DialogT, Sound
  <2> QED
    BY <1>3, <2>1, DialogOnly DEF TabCode, Typed, TypeOK
<1>4. CASE startShowQr(o)
  <2> DEFINE n == next + 1
             d == [c EXCEPT !.stop = FALSE, !.ph = "showqr", !.shown = NoCode, !.rid = NoRdv,
                            !.key = None, !.byCode = FALSE, !.poll[n] = Poll("created")]
  <2>1. n \in Rdv /\ n \in 0..MaxRdv /\ 1..next \subseteq 1..n /\ n \notin code
    BY <1>4, LinkAssumption DEF startShowQr, Rdv, Typed, TypeOK, Records, LinkAssumption
  <2>2. d \in DialogT
    BY <1>1, <2>1, JobShapes, PollShapes, PlaceShapes DEF DialogT, Key
  <2>3. Sound(d)
    BY <1>1, <2>1, JobShapes, PollShapes DEF DialogT, Sound
  <2>4. old' \in [Dialog -> DialogT] /\ Dialogs'
    BY <1>4, <2>2, <2>3, DialogMoved DEF startShowQr, Typed, TypeOK
  <2>5. \A r \in Rdv : rdv'[r] = IF r = n THEN Fresh(None) ELSE rdv[r]
    BY <1>4 DEF startShowQr, Typed, TypeOK
  <2>6. rdv' \in [Rdv -> Entry]
    BY <1>4, EntryShapes DEF startShowQr, Typed, TypeOK, Key
  <2>7. \A r \in Rdv : Ready(rdv'[r]) => Attached(rdv'[r]) /\ rdv'[r].blob.n \in 1..sent
    BY <2>5, EntryShapes DEF Key, Typed, TypeOK, Records
  <2>8. \A r \in code : rdv'[r].here => Attached(rdv'[r])
    BY <2>1, <2>5 DEF Typed, TypeOK, Records
  <2>9. code' \subseteq 1..next' /\ next' \in 0..MaxRdv
    BY <1>4, <2>1 DEF startShowQr, Typed, Records
  <2> QED
    BY <1>4, <2>4, <2>6, <2>7, <2>8, <2>9
       DEF startShowQr, Typed, TypeOK, Panels, Records, Dialogs, Sound, Waits
<1> QED
  BY <1>2, <1>3, <1>4

LEMMA TypePolls ==
  ASSUME Typed, NEW o \in Dialog, NEW r \in Rdv, NEW a \in BOOLEAN,
         Created(o, r, a) \/ PollFires(o, r) \/ PollAnswered(o, r, a) \/ PollDigits(o, r)
  PROVE  Typed'
<1> DEFINE d == old[o]
<1>0. d \in DialogT /\ Sound(d) /\ r \in MaybeRdv
  BY PlaceShapes DEF Typed, TypeOK, Dialogs
<1>1. \A p \in PollT : [d EXCEPT !.poll[r] = p] \in DialogT
  BY <1>0 DEF DialogT
<1>2. Sound([d EXCEPT !.poll[r] = Off])
  BY <1>0, PollShapes DEF DialogT, Sound
<1>3. Sound([d EXCEPT !.poll[r] = Off, !.ph = "mode"]) /\ [d EXCEPT !.poll[r] = Off, !.ph = "mode"] \in DialogT
  BY <1>0, PollShapes DEF DialogT, Sound
<1>4. CASE Created(o, r, a)
  <2> DEFINE e == [d EXCEPT !.rid = r, !.byCode = FALSE, !.poll[r] = Poll("timer"), !.timer = r]
  <2>1. e \in DialogT /\ Sound(e)
    BY <1>0, PollShapes DEF DialogT, Sound
  <2>2. faults' \in 0..MaxFaults
    BY <1>4, LinkAssumption DEF LinkAssumption, Created, Arrives, Fault, Typed, TypeOK
  <2>3. \E f \in DialogT : Sound(f) /\ Be(o, f)
    BY <1>1, <1>2, <1>3, <1>4, <2>1, PollShapes DEF Created
  <2> QED
    BY <1>4, <2>2, <2>3, DialogOnly DEF Created, Typed, TypeOK
<1>5. CASE PollFires(o, r)
  <2>1. [d EXCEPT !.poll[r] = Poll("asked")] \in DialogT /\ Sound([d EXCEPT !.poll[r] = Poll("asked")])
    BY <1>0, PollShapes DEF DialogT, Sound
  <2>2. \E f \in DialogT : Sound(f) /\ Be(o, f)
    BY <1>1, <1>2, <1>5, <2>1, PollShapes DEF PollFires
  <2> QED
    BY <1>5, <2>2, DialogOnly DEF PollFires, Typed, TypeOK
<1>6. CASE PollAnswered(o, r, a)
  <2> DEFINE k == rdv[r].key
             e == [d EXCEPT !.key = k, !.poll[r] = [at |-> "digits", key |-> k]]
             f == [d EXCEPT !.poll[r] = Poll("timer"), !.timer = r]
  <2>1. k \in Key /\ (Attached(rdv[r]) => k \in Session)
    BY DEF Typed, TypeOK, Entry, Attached, Key
  <2>2. e \in DialogT /\ (Attached(rdv[r]) => Sound(e))
    BY <1>0, <2>1, PollShapes DEF DialogT, Sound
  <2>3. f \in DialogT /\ Sound(f)
    BY <1>0, PollShapes DEF DialogT, Sound
  <2>4. faults' \in 0..MaxFaults
    BY <1>6, LinkAssumption DEF LinkAssumption, PollAnswered, Arrives, Fault, Typed, TypeOK
  <2>5. \E g \in DialogT : Sound(g) /\ Be(o, g)
    BY <1>1, <1>2, <1>3, <1>6, <2>2, <2>3, PollShapes DEF PollAnswered
  <2> QED
    BY <1>6, <2>4, <2>5, DialogOnly DEF PollAnswered, Typed, TypeOK
<1>7. CASE PollDigits(o, r)
  <2> DEFINE k == d.poll[r].key
             c == [r |-> r, key |-> k]
             e == [d EXCEPT !.poll[r] = Off, !.shown = c, !.ph = "verify"]
  <2>1. k \in Session
    BY <1>0, <1>7 DEF PollDigits, Sound
  <2>2. c \in Shown /\ c.key = k
    BY <1>0, <2>1 DEF Shown, Key
  <2>3. e \in DialogT /\ Sound(e)
    <3> HIDE DEF c, k
    <3> QED
      BY <1>0, <2>1, <2>2, PollShapes DEF DialogT, Sound
  <2>4. \E g \in DialogT : Sound(g) /\ Be(o, g)
    BY <1>1, <1>2, <1>7, <2>3, PollShapes DEF PollDigits
  <2> QED
    BY <1>7, <2>4, DialogOnly DEF PollDigits, Typed, TypeOK
<1> QED
  BY <1>4, <1>5, <1>6, <1>7

\* What the user starts: typing a code, confirming, scanning.
LEMMA TypeRequests ==
  ASSUME Typed, NEW o \in Dialog, NEW s \in Session,
         submitCode(o, s) \/ confirmAndDeposit(o, s) \/ ScanQr(o, s)
  PROVE  Typed'
<1> DEFINE d == old[o]
<1>0. /\ d \in DialogT /\ Sound(d) /\ s \in Key
      /\ approved \cup {s} \subseteq Session
      /\ faults \in 0..MaxFaults /\ approved \subseteq Session
  BY DEF Typed, TypeOK, Dialogs, Key
<1>p. ASSUME NEW r \in Rdv, NEW k \in Key, NEW b \in BOOLEAN, NEW q \in BOOLEAN, Posted(o, r, k, b, q)
      PROVE  \E f \in DialogT : Sound(f) /\ Be(o, f)
  <2> DEFINE j == [at |-> "posted", r |-> r, key |-> k, byCode |-> b, scanned |-> q, seen |-> None]
  <2>1. j \in Job /\ j.at = "posted" /\ j.r = r
    BY PlaceShapes DEF Job, Key
  <2>2. Be(o, [d EXCEPT !.job = j])
    BY <1>p DEF Posted
  <2> HIDE DEF j
  <2>3. [d EXCEPT !.job = j] \in DialogT /\ Sound([d EXCEPT !.job = j])
    BY <1>0, <2>1 DEF DialogT, Sound
  <2> QED
    BY <2>2, <2>3
<1>1. CASE submitCode(o, s)
  <2> DEFINE t == [at |-> "asked", r |-> new[s].r, key |-> None]
  <2>1. new[s].r \in Rdv
    BY <1>1 DEF submitCode, Typed, Panels
  <2>2. t \in Typing /\ t.at = "asked" /\ t.r \in Rdv
    BY <2>1, PlaceShapes DEF Typing, Key
  <2>3. [d EXCEPT !.typing = t] \in DialogT /\ Sound([d EXCEPT !.typing = t])
    <3> HIDE DEF t
    <3> QED
      BY <1>0, <2>2 DEF DialogT, Sound
  <2> QED
    BY <1>0, <1>1, <2>3, DialogOnly DEF submitCode
<1>2. CASE confirmAndDeposit(o, s)
  <2>1. d.rid \in Rdv /\ d.key \in Key /\ d.byCode \in BOOLEAN
    BY <1>0, <1>2 DEF confirmAndDeposit, DialogT, MaybeRdv, Rdv, NoRdv
  <2>2. \E f \in DialogT : Sound(f) /\ Be(o, f)
    BY <1>2, <1>p, <2>1 DEF confirmAndDeposit, Recipient
  <2> QED
    BY <1>0, <1>2, <2>2, DialogOnly DEF confirmAndDeposit
<1>3. CASE ScanQr(o, s)
  <2>1. new[s].r \in Rdv
    BY <1>3 DEF ScanQr, Typed, Panels
  <2>2. \E f \in DialogT : Sound(f) /\ Be(o, f)
    BY <1>0, <1>3, <1>p, <2>1 DEF ScanQr
  <2> QED
    BY <1>0, <1>3, <2>2, DialogOnly DEF ScanQr
<1> QED
  BY <1>1, <1>2, <1>3

\* What follows without the user.
LEMMA TypeDeposits ==
  ASSUME Typed, NEW o \in Dialog, NEW a \in BOOLEAN,
         Resolved(o, a) \/ ResolvedDigits(o) \/ DepositRead(o) \/ DepositSave(o, a)
  PROVE  Typed'
<1> DEFINE d == old[o]
<1>0. /\ d \in DialogT /\ Sound(d)
      /\ faults \in 0..MaxFaults /\ approved \subseteq Session
  BY DEF Typed, TypeOK, Dialogs, Key
<1>1. CASE Resolved(o, a)
  <2> DEFINE r == d.typing.r
             k == rdv[r].key
             t == [at |-> "digits", r |-> r, key |-> k]
             e == [d EXCEPT !.rid = r, !.key = k, !.byCode = TRUE, !.typing = t]
             f == [d EXCEPT !.typing = NotTyping]
  <2>1. r \in Rdv /\ r \in MaybeRdv
    BY <1>0, <1>1, PlaceShapes DEF Resolved, Sound
  <2>2. k \in Key /\ (r \in code /\ rdv[r].here => k \in Session)
    BY <2>1 DEF Typed, TypeOK, Records, Entry, Attached, Key
  <2>3. t \in Typing /\ t.at = "digits" /\ t.r = r /\ t.key = k
    BY <2>1, <2>2 DEF Typing
  <2>4. e \in DialogT /\ (k \in Session => Sound(e))
    <3> HIDE DEF t, k, r
    <3> QED
      BY <1>0, <2>1, <2>2, <2>3 DEF DialogT, Sound
  <2>5. f \in DialogT /\ Sound(f)
    BY <1>0, JobShapes DEF DialogT, Sound
  <2>6. \E g \in DialogT : Sound(g) /\ Be(o, g)
    BY <1>1, <2>2, <2>4, <2>5 DEF Resolved
  <2>7. old' \in [Dialog -> DialogT] /\ Dialogs'
    BY <2>6, DialogMoved DEF Typed, TypeOK
  <2>8. code' \subseteq code
    BY <1>1 DEF Resolved
  <2>9. faults' \in 0..MaxFaults
    BY <1>0, <1>1, LinkAssumption DEF LinkAssumption, Resolved, Arrives, Fault
  <2> QED
    BY <1>1, <2>7, <2>8, <2>9 DEF Resolved, Typed, TypeOK, Panels, Records, Dialogs, Sound, Waits
<1>2. CASE ResolvedDigits(o)
  <2> DEFINE c == [r |-> d.typing.r, key |-> d.typing.key]
             e == [d EXCEPT !.typing = NotTyping, !.ph = "verify", !.shown = c]
  <2>1. d.typing.key \in Session
    BY <1>0, <1>2 DEF ResolvedDigits, Sound
  <2>2. c \in Shown /\ c.key \in Session
    BY <1>0, <2>1 DEF DialogT, Typing, Shown
  <2>3. e \in DialogT /\ Sound(e)
    <3> HIDE DEF c
    <3> QED
      BY <1>0, <2>2, JobShapes DEF DialogT, Sound
  <2> QED
    BY <1>0, <1>2, <2>3, DialogOnly DEF ResolvedDigits
<1>3. CASE DepositRead(o)
  <2> DEFINE k == rdv[d.job.r].key
             j == [d.job EXCEPT !.at = "read", !.seen = k]
  <2>1. d.job.r \in Rdv
    BY <1>0, <1>3 DEF DepositRead, Sound
  <2>2. k \in Key /\ (Attached(rdv[d.job.r]) => k \in Session)
    BY <2>1 DEF Typed, TypeOK, Entry, Attached, Key
  <2>3. j \in Job /\ j.at = "read" /\ j.r = d.job.r /\ j.seen = k
    BY <1>0, <2>2 DEF DialogT, Job
  <2>4. [d EXCEPT !.job = j] \in DialogT /\ (k \in Session => Sound([d EXCEPT !.job = j]))
    <3> HIDE DEF j
    <3> QED
      BY <1>0, <2>1, <2>3 DEF DialogT, Sound
  <2>5. [d EXCEPT !.job = NoJob] \in DialogT /\ Sound([d EXCEPT !.job = NoJob])
    BY <1>0, JobShapes DEF DialogT, Sound
  <2>6. \E f \in DialogT : Sound(f) /\ Be(o, f)
    BY <1>3, <2>2, <2>4, <2>5 DEF DepositRead
  <2> QED
    BY <1>0, <1>3, <2>6, DialogOnly DEF DepositRead
<1>4. CASE DepositSave(o, a)
  <2> DEFINE j == d.job
             b == [key |-> j.key, n |-> sent + 1]
             x == [here |-> TRUE, key |-> j.seen, blob |-> b]
             c == Cleanup(d)
  <2>1. j.r \in Rdv /\ j.seen \in Session /\ j.key \in Key /\ j.seen \in Key
    BY <1>0, <1>4 DEF DepositSave, Sound, DialogT, Job
  <2>2. sent \in Nat /\ sent' = sent + 1 /\ sent' \in Nat /\ 1..sent \subseteq 1..sent'
    BY <1>4 DEF DepositSave, Typed, TypeOK
  <2>3. x \in Entry /\ x.blob.n = sent + 1 /\ x.key \in Session
    BY <2>1, <2>2 DEF Entry, Blobs
  <2>4. \A r \in Rdv : rdv'[r] = rdv[r] \/ rdv'[r] = x
    BY <1>4, <2>1 DEF DepositSave, Put, Typed, TypeOK
  <2>5. rdv' \in [Rdv -> Entry]
    BY <1>4, <2>3 DEF DepositSave, Put, Typed, TypeOK
  <2>6. None \notin Session
    BY LinkAssumption DEF LinkAssumption
  <2>7. \A r \in Rdv : Ready(rdv'[r]) => Attached(rdv'[r]) /\ rdv'[r].blob.n \in 1..sent'
    <3> HIDE DEF x
    <3> QED
      BY <2>2, <2>3, <2>4, <2>6 DEF Typed, TypeOK, Records, Attached
  <2>8. \A r \in code : rdv'[r].here => Attached(rdv'[r])
    <3> HIDE DEF x
    <3> QED
      BY <2>3, <2>4, <2>6 DEF Typed, TypeOK, Records, Attached
  <2>9. c \in DialogT /\ Sound(c)
    BY <1>0, Cleaned, PollShapes DEF Sound
  <2>10. /\ [d EXCEPT !.job = NoJob] \in DialogT /\ Sound([d EXCEPT !.job = NoJob])
         /\ [d EXCEPT !.job = NoJob, !.ph = "done"] \in DialogT /\ Sound([d EXCEPT !.job = NoJob, !.ph = "done"])
    BY <1>0, JobShapes DEF DialogT, Sound
  <2>11. [c EXCEPT !.job = NoJob, !.ph = "done"] \in DialogT /\ Sound([c EXCEPT !.job = NoJob, !.ph = "done"])
    <3> HIDE DEF c
    <3> QED
      BY <2>9, JobShapes DEF DialogT, Sound
  <2>12. \E f \in DialogT : Sound(f) /\ Be(o, f)
    BY <1>4, <2>10, <2>11 DEF DepositSave
  <2>13. old' \in [Dialog -> DialogT] /\ Dialogs'
    BY <2>12, DialogMoved DEF Typed, TypeOK
  <2>14. code' \subseteq code /\ dirty' \in BOOLEAN
    BY <1>4 DEF DepositSave, Put, Typed, TypeOK
  <2>15. faults' \in 0..MaxFaults
    BY <1>0, <1>4, LinkAssumption DEF LinkAssumption, DepositSave, Arrives, Fault
  <2>16. handed' \subseteq (1..sent') \X Session
    BY <1>4, <2>2 DEF DepositSave, Typed, TypeOK
  <2> HIDE DEF x, c
  <2> QED
    BY <1>4, <2>2, <2>5, <2>7, <2>8, <2>13, <2>14, <2>15, <2>16
       DEF DepositSave, Typed, TypeOK, Panels, Records, Dialogs, Sound, Waits
<1> QED
  BY <1>1, <1>2, <1>3, <1>4

LEMMA TypeStep == Typed /\ [Next]_vars => Typed'
<1> SUFFICES ASSUME Typed, [Next]_vars PROVE Typed'
  OBVIOUS
<1>1. CASE UNCHANGED vars
  BY <1>1 DEF vars, redis, Typed, TypeOK, Panels, Records, Dialogs, Sound, Waits
<1>2. ASSUME NEW s \in Session, NewDevice(s)
      PROVE  Typed'
  BY <1>2, TypeNew
<1>3. ASSUME NEW o \in Dialog, OldDevice(o)
      PROVE  Typed'
  <2>1. CASE TabScan(o) \/ TabCode(o) \/ startShowQr(o)
    BY <2>1, TypeTabs
  <2>2. CASE \E r \in Rdv, a \in BOOLEAN :
               Created(o, r, a) \/ PollFires(o, r) \/ PollAnswered(o, r, a) \/ PollDigits(o, r)
    BY <2>2, TypePolls
  <2>3. CASE \E s \in Session : submitCode(o, s) \/ confirmAndDeposit(o, s) \/ ScanQr(o, s)
    BY <2>3, TypeRequests
  <2>4. CASE \E a \in BOOLEAN : Resolved(o, a) \/ ResolvedDigits(o) \/ DepositRead(o) \/ DepositSave(o, a)
    BY <2>4, TypeDeposits
  <2> QED
    BY <1>3, <2>1, <2>2, <2>3, <2>4 DEF OldDevice
<1>4. ASSUME NEW r \in Rdv, Expire(r)
      PROVE  Typed'
  <2>1. \A q \in Rdv : rdv'[q] = rdv[q] \/ rdv'[q] = Gone
    BY <1>4 DEF Expire, Typed, TypeOK
  <2>2. rdv' \in [Rdv -> Entry]
    BY <1>4, EntryShapes DEF Expire, Typed, TypeOK
  <2>3. \A q \in Rdv : Ready(rdv'[q]) => Attached(rdv'[q]) /\ rdv'[q].blob.n \in 1..sent
    BY <2>1, EntryShapes DEF Typed, TypeOK, Records
  <2>4. \A q \in code : rdv'[q].here => Attached(rdv'[q])
    BY <2>1, EntryShapes DEF Typed, TypeOK, Records
  <2>5. faults' \in 0..MaxFaults
    BY <1>4, LinkAssumption DEF LinkAssumption, Expire, Fault, Typed, TypeOK
  <2>6. code' \subseteq code /\ expired' \subseteq Rdv /\ dirty' \in BOOLEAN
    BY <1>4 DEF Expire, Typed, TypeOK
  <2> QED
    BY <1>4, <2>2, <2>3, <2>4, <2>5, <2>6 DEF Expire, Typed, TypeOK, Panels, Records, Dialogs, Sound, Waits
<1> QED
  BY <1>1, <1>2, <1>3, <1>4 DEF Next

\* Every record, panel and dialog keeps its shape, and a record that holds a vault holds a key
\* (devices.ts:657-666).
THEOREM TypeCorrect == Spec => []TypeOK
<1>1. Typed => TypeOK
  BY DEF Typed
<1> QED
  BY TypeInit, TypeStep, <1>1, PTL DEF Spec

(***************************************************************************)
(* What a step does to the deposits.                                       *)
(***************************************************************************)
\* nothing is stored or handed out
Kept ==
  /\ sent' = sent /\ handed' = handed
  /\ \A r \in Rdv : rdv'[r] = rdv[r] \/ ~Ready(rdv'[r])

HandsOut(r, s) ==
  /\ Ready(rdv[r]) /\ ~Ready(rdv'[r]) /\ sent' = sent
  /\ handed' = handed \cup {<<rdv[r].blob.n, s>>}
  /\ \A q \in Rdv \ {r} : rdv'[q] = rdv[q]

Stores(o) ==
  /\ handed' = handed /\ sent' = sent + 1
  /\ old[o].job.at # "no"
  /\ \A r \in Rdv : \/ rdv'[r] = rdv[r]
                    \/ /\ r = old[o].job.r
                       /\ rdv'[r].blob.n = sent + 1 /\ rdv'[r].blob.key = old[o].job.key

LEMMA TakeKeepsOrHandsOut ==
  ASSUME Typed, NEW s \in Session, NEW a \in BOOLEAN, Take(s, a)
  PROVE  Kept \/ \E r \in Rdv : HandsOut(r, s)
<1> DEFINE r == new[s].r
<1>1. r \in Rdv
  BY DEF Take, Typed, Panels, Waits
<1>2. rdv'[r] = Gone /\ \A q \in Rdv \ {r} : rdv'[q] = rdv[q]
  BY <1>1 DEF Take, Consumed, Typed, TypeOK
<1>3. sent' = sent /\ handed' = IF rdv[r].blob = NoBlob THEN handed ELSE handed \cup {<<rdv[r].blob.n, s>>}
  BY DEF Take
<1>4. CASE rdv[r].blob = NoBlob
  BY <1>2, <1>3, <1>4, EntryShapes DEF Kept
<1>5. CASE rdv[r].blob # NoBlob
  BY <1>1, <1>2, <1>3, <1>5, EntryShapes DEF HandsOut, Ready
<1> QED
  BY <1>4, <1>5

LEMMA SaveStores ==
  ASSUME Typed, NEW o \in Dialog, NEW a \in BOOLEAN, DepositSave(o, a)
  PROVE  Stores(o)
<1> DEFINE j == old[o].job
<1>1. j.r \in Rdv /\ j.at # "no"
  BY DEF DepositSave, Typed, Dialogs, Sound
<1>2. \A r \in Rdv : \/ rdv'[r] = rdv[r]
                     \/ /\ r = j.r
                        /\ rdv'[r] = [here |-> TRUE, key |-> j.seen, blob |-> [key |-> j.key, n |-> sent + 1]]
  BY <1>1 DEF DepositSave, Put, Typed, TypeOK
<1>3. handed' = handed /\ sent' = sent + 1
  BY DEF DepositSave
<1> QED
  BY <1>1, <1>2, <1>3 DEF Stores

LEMMA DepositSteps ==
  ASSUME Typed, [Next]_vars
  PROVE  \/ Kept
         \/ \E r \in Rdv, s \in Session : HandsOut(r, s)
         \/ \E o \in Dialog : Stores(o)
<1>1. CASE UNCHANGED vars
  BY <1>1 DEF vars, redis, Kept
<1>2. ASSUME NEW s \in Session, NewDevice(s)
      PROVE  Kept \/ \E r \in Rdv : HandsOut(r, s)
  <2>1. CASE ShowMode(s)
    <3>1. \A r \in Rdv : rdv'[r] = rdv[r] \/ rdv'[r] = Fresh(s)
      BY <2>1 DEF ShowMode, Typed, TypeOK
    <3> QED
      BY <2>1, <3>1, EntryShapes DEF ShowMode, Kept, Key
  <2>2. CASE \E a \in BOOLEAN : AttachExec(s, a)
    <3>1. \A r \in Rdv : rdv'[r] = rdv[r] \/ rdv'[r] = Fresh(s)
      BY <2>2 DEF AttachExec, Typed, TypeOK
    <3> QED
      BY <2>2, <3>1, EntryShapes DEF AttachExec, Kept, Key
  <2>3. CASE AttachWatch(s) \/ AttachRead(s) \/ Claim(s) \/ Leave(s) \/ \E o \in Dialog : Scan(s, o)
    BY <2>3 DEF AttachWatch, AttachRead, Claim, Leave, Scan, redis, Kept
  <2>4. CASE \E a \in BOOLEAN : Take(s, a)
    BY <2>4, TakeKeepsOrHandsOut
  <2> QED
    BY <1>2, <2>1, <2>2, <2>3, <2>4 DEF NewDevice
<1>3. ASSUME NEW o \in Dialog, OldDevice(o)
      PROVE  Kept \/ Stores(o)
  <2>1. CASE startShowQr(o)
    <3>1. \A r \in Rdv : rdv'[r] = rdv[r] \/ rdv'[r] = Fresh(None)
      BY <2>1 DEF startShowQr, Typed, TypeOK
    <3> QED
      BY <2>1, <3>1, EntryShapes DEF startShowQr, Kept, Key
  <2>2. CASE \E a \in BOOLEAN : DepositSave(o, a)
    BY <2>2, SaveStores
  <2>3. CASE TabScan(o) \/ TabCode(o) \/ ResolvedDigits(o) \/ DepositRead(o)
    BY <2>3 DEF TabScan, TabCode, ResolvedDigits, DepositRead, redis, Kept
  <2>4. CASE \E s \in Session : submitCode(o, s) \/ confirmAndDeposit(o, s) \/ ScanQr(o, s)
    BY <2>4 DEF submitCode, confirmAndDeposit, ScanQr, redis, Kept
  <2>5. CASE \E r \in Rdv, a \in BOOLEAN :
               PollFires(o, r) \/ PollDigits(o, r) \/ Created(o, r, a) \/ PollAnswered(o, r, a)
    BY <2>5 DEF PollFires, PollDigits, Created, PollAnswered, redis, Kept
  <2>6. CASE \E a \in BOOLEAN : Resolved(o, a)
    BY <2>6 DEF Resolved, Kept
  <2> QED
    BY <1>3, <2>1, <2>2, <2>3, <2>4, <2>5, <2>6 DEF OldDevice
<1>4. ASSUME NEW r \in Rdv, Expire(r)
      PROVE  Kept
  <2>1. \A q \in Rdv : rdv'[q] = rdv[q] \/ rdv'[q] = Gone
    BY <1>4 DEF Expire, Typed, TypeOK
  <2> QED
    BY <1>4, <2>1, EntryShapes DEF Expire, Kept
<1> QED
  BY <1>1, <1>2, <1>3, <1>4 DEF Next

(***************************************************************************)
(* A deposit is handed out once.                                           *)
(***************************************************************************)
LEMMA NumberStep ==
  ASSUME Typed, Numbered, HandedOnce, [Next]_vars
  PROVE  Numbered' /\ HandedOnce'
<1> USE DEF Numbered, HandedOnce
<1>0. handed \subseteq (1..sent) \X Session /\ sent \in Nat
  BY DEF Typed, TypeOK
<1>1. CASE Kept
  BY <1>1 DEF Kept
<1>2. ASSUME NEW r \in Rdv, NEW s \in Session, HandsOut(r, s)
      PROVE  Numbered' /\ HandedOnce'
  <2>1. \A q \in Rdv : Ready(rdv'[q]) => q # r /\ rdv'[q] = rdv[q] /\ Ready(rdv[q])
    BY <1>2 DEF HandsOut
  <2>2. \A q \in Rdv : Ready(rdv'[q]) => rdv'[q].blob.n # rdv[r].blob.n
    BY <1>2, <2>1 DEF HandsOut
  <2>3. \A x \in handed' : x \in handed \/ x = <<rdv[r].blob.n, s>>
    BY <1>2 DEF HandsOut
  <2>4. \A x \in handed : x[1] # rdv[r].blob.n
    BY <1>2 DEF HandsOut
  <2>5. Numbered'
    BY <2>1, <2>2, <2>3
  <2>6. HandedOnce'
    BY <2>3, <2>4
  <2> QED
    BY <2>5, <2>6
<1>3. ASSUME NEW o \in Dialog, Stores(o)
      PROVE  Numbered' /\ HandedOnce'
  <2>1. handed' = handed
    BY <1>3 DEF Stores
  <2>2. \A r \in Rdv : \/ rdv'[r] = rdv[r]
                       \/ r = old[o].job.r /\ rdv'[r].blob.n = sent + 1
    BY <1>3 DEF Stores
  <2>3. \A r \in Rdv : Ready(rdv[r]) => rdv[r].blob.n \in 1..sent
    BY DEF Typed, Records
  <2>4. \A x \in handed : x[1] \in 1..sent
    BY <1>0
  <2>5. sent + 1 \notin 1..sent
    BY <1>0
  <2> QED
    BY <2>1, <2>2, <2>3, <2>4, <2>5
<1> QED
  BY <1>1, <1>2, <1>3, DepositSteps

\* A deposited vault leaves the server at most once, whoever else holds the claim secret (devices.ts:712).
THEOREM HandedOutOnce == Spec => []HandedOnce
<1>1. Init => Numbered /\ HandedOnce
  BY EntryShapes DEF Init, Numbered, HandedOnce
<1>2. (Typed /\ Numbered /\ HandedOnce) /\ [Next]_vars => (Typed /\ Numbered /\ HandedOnce)'
  BY TypeStep, NumberStep
<1> QED
  BY <1>1, <1>2, TypeInit, PTL DEF Spec

(***************************************************************************)
(* A vault opens where the user scanned or compared.                       *)
(***************************************************************************)
LEMMA OneMoved ==
  ASSUME Typed, OneAtATime, NEW o \in Dialog, NEW d, Be(o, d), OneThing(d), SameKey(d)
  PROVE  OneAtATime'
<1>1. old'[o] = d /\ \A p \in Dialog \ {o} : old'[p] = old[p]
  BY DEF Be, Typed, TypeOK
<1> QED
  BY <1>1 DEF OneAtATime

\* A user who waits acts on a dialog that is idle: at most a timer runs, the one it remembers.
LEMMA Idle ==
  ASSUME ~Overlap, Typed, OneAtATime, NEW o \in Dialog, MayAct(o)
  PROVE  /\ old[o].typing.at = "no" /\ old[o].job.at = "no"
         /\ old[o].ph # "showqr" => AllOff(old[o])
         /\ AllOff(Cleanup(old[o]))
<1>1. old[o] \in DialogT /\ OneThing(old[o]) /\ Quiet(o)
  BY DEF Typed, TypeOK, OneAtATime, MayAct
<1>2. old[o].typing.at = "no" /\ old[o].job.at = "no" /\ \A r \in Rdv : old[o].poll[r].at \in {"off", "timer"}
  BY <1>1, JobShapes DEF Quiet
<1> QED
  BY <1>1, <1>2, Cleaned, PollShapes DEF OneThing, AllOff

LEMMA OneTabs ==
  ASSUME ~Overlap, Typed, OneAtATime, NEW o \in Dialog, TabScan(o) \/ TabCode(o) \/ startShowQr(o)
  PROVE  OneAtATime'
<1> DEFINE c == Cleanup(old[o])
<1>1. /\ MayAct(o)
      /\ old[o] \in DialogT
  BY DEF TabScan, TabCode, startShowQr, Typed, TypeOK
<1>2. c \in DialogT /\ c.typing.at = "no" /\ c.job.at = "no" /\ AllOff(c)
  BY <1>1, Idle, Cleaned
<1> HIDE DEF c
<1>3. CASE TabScan(o)
  <2>1. Be(o, [c EXCEPT !.ph = "scan"])
    BY <1>3 DEF TabScan, c
  <2>2. OneThing([c EXCEPT !.ph = "scan"]) /\ SameKey([c EXCEPT !.ph = "scan"])
    BY <1>2 DEF DialogT, OneThing, SameKey, AllOff
  <2> QED
    BY <2>1, <2>2, OneMoved
<1>4. CASE TabCode(o)
  <2> DEFINE d == [c EXCEPT !.ph = "code", !.shown = NoCode]
  <2>1. Be(o, d)
    BY <1>4 DEF TabCode, c
  <2>2. OneThing(d) /\ SameKey(d)
    BY <1>2 DEF DialogT, OneThing, SameKey, AllOff
  <2> QED
    BY <2>1, <2>2, OneMoved
<1>5. CASE startShowQr(o)
  <2> DEFINE n == next + 1
             d == [c EXCEPT !.stop = FALSE, !.ph = "showqr", !.shown = NoCode, !.rid = NoRdv,
                            !.key = None, !.byCode = FALSE, !.poll[n] = Poll("created")]
  <2>1. Be(o, d)
    BY <1>5 DEF startShowQr, c
  <2>2. OneThing(d) /\ SameKey(d)
    BY <1>2, PollShapes DEF DialogT, OneThing, SameKey, AllOff
  <2> HIDE DEF d
  <2> QED
    BY <2>1, <2>2, OneMoved
<1> QED
  BY <1>3, <1>4, <1>5

LEMMA OnePolls ==
  ASSUME Typed, OneAtATime, NEW o \in Dialog, NEW r \in Rdv, NEW a \in BOOLEAN,
         Created(o, r, a) \/ PollFires(o, r) \/ PollAnswered(o, r, a) \/ PollDigits(o, r)
  PROVE  OneAtATime'
<1> DEFINE d == old[o]
<1>0. d \in DialogT /\ OneThing(d) /\ SameKey(d)
  BY DEF Typed, TypeOK, OneAtATime
<1>1. /\ d.poll[r].at # "off"
      /\ d.ph = "showqr" /\ ~d.stop /\ d.typing.at = "no" /\ d.job.at = "no"
      /\ \A q \in Rdv \ {r} : d.poll[q].at = "off"
  BY <1>0 DEF Created, PollFires, PollAnswered, PollDigits, OneThing
<1>2. \A p \in PollT : p.at \in {"asked", "created"} =>
        OneThing([d EXCEPT !.poll[r] = p]) /\ SameKey([d EXCEPT !.poll[r] = p])
  BY <1>0, <1>1 DEF DialogT, OneThing, SameKey, AllOff
<1>3. OneThing([d EXCEPT !.poll[r] = Off, !.ph = "mode"]) /\ SameKey([d EXCEPT !.poll[r] = Off, !.ph = "mode"])
  BY <1>0, <1>1, PollShapes DEF DialogT, OneThing, SameKey, AllOff
<1>4. CASE Created(o, r, a)
  <2> DEFINE e == [d EXCEPT !.rid = r, !.byCode = FALSE, !.poll[r] = Poll("timer"), !.timer = r]
  <2>1. OneThing(e) /\ SameKey(e)
    BY <1>0, <1>1, PollShapes, PlaceShapes DEF DialogT, OneThing, SameKey, AllOff
  <2>2. Be(o, e) \/ Be(o, [d EXCEPT !.poll[r] = Off, !.ph = "mode"])
    BY <1>1, <1>4 DEF Created
  <2> HIDE DEF e
  <2> QED
    BY <1>3, <2>1, <2>2, OneMoved
<1>5. CASE PollFires(o, r)
  <2>1. Be(o, [d EXCEPT !.poll[r] = Poll("asked")])
    BY <1>1, <1>5 DEF PollFires
  <2> QED
    BY <1>2, <2>1, PollShapes, OneMoved
<1>6. CASE PollAnswered(o, r, a)
  <2> DEFINE k == rdv[r].key
             e == [d EXCEPT !.key = k, !.poll[r] = [at |-> "digits", key |-> k]]
             f == [d EXCEPT !.poll[r] = Poll("timer"), !.timer = r]
  <2>1. k \in Key
    BY DEF Typed, TypeOK, Entry
  <2>2. OneThing(e) /\ SameKey(e)
    <3> HIDE DEF k
    <3> QED
      BY <1>0, <1>1, <2>1, PollShapes DEF DialogT, OneThing, SameKey, AllOff
  <2>3. OneThing(f) /\ SameKey(f)
    BY <1>0, <1>1, PollShapes, PlaceShapes DEF DialogT, OneThing, SameKey, AllOff
  <2>4. Be(o, e) \/ Be(o, f) \/ Be(o, [d EXCEPT !.poll[r] = Off, !.ph = "mode"])
    BY <1>1, <1>6 DEF PollAnswered
  <2> HIDE DEF e, f
  <2> QED
    BY <1>3, <2>2, <2>3, <2>4, OneMoved
<1>7. CASE PollDigits(o, r)
  <2> DEFINE k == d.poll[r].key
             e == [d EXCEPT !.poll[r] = Off, !.shown = [r |-> r, key |-> k], !.ph = "verify"]
  <2>1. d.key = k
    BY <1>0, <1>7 DEF PollDigits, SameKey
  <2>2. OneThing(e) /\ SameKey(e)
    <3> HIDE DEF k
    <3> QED
      BY <1>0, <1>1, <2>1, PollShapes DEF DialogT, OneThing, SameKey, AllOff
  <2>3. Be(o, e)
    BY <1>1, <1>7 DEF PollDigits
  <2> HIDE DEF e
  <2> QED
    BY <2>2, <2>3, OneMoved
<1> QED
  BY <1>4, <1>5, <1>6, <1>7

LEMMA OneRequests ==
  ASSUME ~Overlap, Typed, OneAtATime, NEW o \in Dialog, NEW s \in Session,
         submitCode(o, s) \/ confirmAndDeposit(o, s) \/ ScanQr(o, s)
  PROVE  OneAtATime'
<1> DEFINE d == old[o]
<1>0. d \in DialogT /\ OneThing(d) /\ SameKey(d)
  BY DEF Typed, TypeOK, OneAtATime
<1>1. d.typing.at = "no" /\ d.job.at = "no" /\ d.ph # "showqr" /\ AllOff(d)
  BY Idle DEF submitCode, confirmAndDeposit, ScanQr
<1>2. CASE submitCode(o, s)
  <2> DEFINE t == [at |-> "asked", r |-> new[s].r, key |-> None]
  <2>1. Be(o, [d EXCEPT !.typing = t]) /\ t.at = "asked" /\ d.ph = "code"
    BY <1>2 DEF submitCode
  <2> HIDE DEF t
  <2>2. OneThing([d EXCEPT !.typing = t]) /\ SameKey([d EXCEPT !.typing = t])
    BY <1>0, <1>1, <2>1 DEF DialogT, OneThing, SameKey, AllOff
  <2> QED
    BY <2>1, <2>2, OneMoved
<1>3. CASE confirmAndDeposit(o, s) \/ ScanQr(o, s)
  <2>1. PICK j : Be(o, [d EXCEPT !.job = j])
    BY <1>3 DEF confirmAndDeposit, ScanQr, Posted
  <2>2. d.ph \in {"scan", "verify"}
    BY <1>3 DEF confirmAndDeposit, ScanQr
  <2>3. OneThing([d EXCEPT !.job = j]) /\ SameKey([d EXCEPT !.job = j])
    BY <1>0, <1>1, <2>2 DEF DialogT, OneThing, SameKey, AllOff
  <2> QED
    BY <2>1, <2>3, OneMoved
<1> QED
  BY <1>2, <1>3

LEMMA OneDeposits ==
  ASSUME Typed, OneAtATime, NEW o \in Dialog, NEW a \in BOOLEAN,
         Resolved(o, a) \/ ResolvedDigits(o) \/ DepositRead(o) \/ DepositSave(o, a)
  PROVE  OneAtATime'
<1> DEFINE d == old[o]
<1>0. d \in DialogT /\ OneThing(d) /\ SameKey(d)
  BY DEF Typed, TypeOK, OneAtATime
<1>1. CASE Resolved(o, a)
  <2> DEFINE r == d.typing.r
             k == rdv[r].key
             t == [at |-> "digits", r |-> r, key |-> k]
             e == [d EXCEPT !.rid = r, !.key = k, !.byCode = TRUE, !.typing = t]
             f == [d EXCEPT !.typing = NotTyping]
  <2>1. d.ph = "code" /\ AllOff(d) /\ d.job.at = "no"
    BY <1>0, <1>1 DEF Resolved, OneThing
  <2>2. t.at = "digits" /\ t.key = k
    OBVIOUS
  <2>3. OneThing(e) /\ SameKey(e)
    <3> HIDE DEF t, k, r
    <3> QED
      BY <1>0, <2>1, <2>2 DEF DialogT, OneThing, SameKey, AllOff
  <2>4. OneThing(f) /\ SameKey(f)
    BY <1>0, <2>1, JobShapes DEF DialogT, OneThing, SameKey, AllOff
  <2>5. Be(o, e) \/ Be(o, f)
    BY <1>1 DEF Resolved
  <2> HIDE DEF e, f
  <2> QED
    BY <2>3, <2>4, <2>5, OneMoved
<1>2. CASE ResolvedDigits(o)
  <2> DEFINE c == [r |-> d.typing.r, key |-> d.typing.key]
             e == [d EXCEPT !.typing = NotTyping, !.ph = "verify", !.shown = c]
  <2>1. AllOff(d) /\ d.job.at = "no" /\ d.key = d.typing.key
    BY <1>0, <1>2 DEF ResolvedDigits, OneThing, SameKey
  <2>2. c.key = d.key
    BY <2>1
  <2>3. OneThing(e) /\ SameKey(e)
    <3> HIDE DEF c
    <3> QED
      BY <1>0, <2>1, <2>2, JobShapes DEF DialogT, OneThing, SameKey, AllOff
  <2>4. Be(o, e)
    BY <1>2 DEF ResolvedDigits
  <2> HIDE DEF e
  <2> QED
    BY <2>3, <2>4, OneMoved
<1>3. CASE DepositRead(o)
  <2>1. PICK j : Be(o, [d EXCEPT !.job = j])
    BY <1>3 DEF DepositRead
  <2>2. d.job.at # "no"
    BY <1>3 DEF DepositRead
  <2>3. OneThing([d EXCEPT !.job = j]) /\ SameKey([d EXCEPT !.job = j])
    BY <1>0, <2>2 DEF DialogT, OneThing, SameKey, AllOff
  <2> QED
    BY <2>1, <2>3, OneMoved
<1>4. CASE DepositSave(o, a)
  <2> DEFINE c == Cleanup(d)
             e == [d EXCEPT !.job = NoJob]
             f == [d EXCEPT !.job = NoJob, !.ph = "done"]
             g == [c EXCEPT !.job = NoJob, !.ph = "done"]
  <2>1. d.typing.at = "no" /\ AllOff(d) /\ d.job.at # "no"
    BY <1>0, <1>4 DEF DepositSave, OneThing
  <2>2. OneThing(e) /\ SameKey(e) /\ OneThing(f) /\ SameKey(f)
    BY <1>0, <2>1, JobShapes DEF DialogT, OneThing, SameKey, AllOff
  <2>3. c \in DialogT /\ c.typing.at = "no" /\ AllOff(c)
    BY <1>0, <2>1, Cleaned, PollShapes DEF AllOff
  <2>4. OneThing(g) /\ SameKey(g)
    <3> HIDE DEF c
    <3> QED
      BY <2>3, JobShapes DEF DialogT, OneThing, SameKey, AllOff
  <2>5. Be(o, e) \/ Be(o, f) \/ Be(o, g)
    BY <1>4 DEF DepositSave
  <2> HIDE DEF e, f, g
  <2> QED
    BY <2>2, <2>4, <2>5, OneMoved
<1> QED
  BY <1>1, <1>2, <1>3, <1>4

LEMMA OneStep ==
  ASSUME ~Overlap, Typed, OneAtATime, [Next]_vars
  PROVE  OneAtATime'
<1>1. CASE UNCHANGED old
  BY <1>1 DEF OneAtATime
<1>2. CASE UNCHANGED vars
  BY <1>1, <1>2 DEF vars
<1>3. ASSUME NEW s \in Session, NewDevice(s)
      PROVE  UNCHANGED old
  BY <1>3 DEF NewDevice, ShowMode, AttachWatch, AttachRead, Claim, Leave, Scan, AttachExec, Take
<1>4. ASSUME NEW o \in Dialog, OldDevice(o)
      PROVE  OneAtATime'
  <2>1. CASE TabScan(o) \/ TabCode(o) \/ startShowQr(o)
    BY <2>1, OneTabs
  <2>2. CASE \E r \in Rdv, a \in BOOLEAN :
               Created(o, r, a) \/ PollFires(o, r) \/ PollAnswered(o, r, a) \/ PollDigits(o, r)
    BY <2>2, OnePolls
  <2>3. CASE \E s \in Session : submitCode(o, s) \/ confirmAndDeposit(o, s) \/ ScanQr(o, s)
    BY <2>3, OneRequests
  <2>4. CASE \E a \in BOOLEAN : Resolved(o, a) \/ ResolvedDigits(o) \/ DepositRead(o) \/ DepositSave(o, a)
    BY <2>4, OneDeposits
  <2> QED
    BY <1>4, <2>1, <2>2, <2>3, <2>4 DEF OldDevice
<1>5. ASSUME NEW r \in Rdv, Expire(r)
      PROVE  UNCHANGED old
  BY <1>5 DEF Expire
<1> QED
  BY <1>1, <1>2, <1>3, <1>4, <1>5 DEF Next

\* approved only grows, and a request is about an approved key from the start.
LEMMA JobStep ==
  ASSUME ~Overlap, Typed, OneAtATime, ForApproved, [Next]_vars
  PROVE  /\ approved \subseteq approved'
         /\ \A o \in Dialog : old'[o].job.at # "no" => old'[o].job.key \in approved'
<1> DEFINE Goal == /\ approved \subseteq approved'
                   /\ \A o \in Dialog : old'[o].job.at # "no" => old'[o].job.key \in approved'
<1>1. CASE UNCHANGED <<old, approved>>
  BY <1>1 DEF ForApproved
<1>2. CASE UNCHANGED vars
  BY <1>1, <1>2 DEF vars
<1>3. ASSUME NEW s \in Session, NewDevice(s)
      PROVE  UNCHANGED <<old, approved>>
  BY <1>3 DEF NewDevice, ShowMode, AttachWatch, AttachRead, Claim, Leave, Scan, AttachExec, Take
<1>4. ASSUME NEW o \in Dialog, OldDevice(o)
      PROVE  Goal
  <2> DEFINE d == old[o]
  <2>0. old \in [Dialog -> DialogT] /\ d \in DialogT
    BY DEF Typed, TypeOK
  <2>a. ASSUME NEW e, Be(o, e), approved \subseteq approved', e.job.at # "no" => e.job.key \in approved'
        PROVE  Goal
    BY <2>0, <2>a DEF Be, ForApproved
  <2>b. ASSUME NEW e, Be(o, e), approved' = approved, e.job = d.job
        PROVE  Goal
    BY <2>a, <2>b DEF ForApproved
  <2>1. CASE TabScan(o) \/ TabCode(o) \/ startShowQr(o)
    <3> DEFINE c == Cleanup(d)
               x == [c EXCEPT !.ph = "scan"]
               y == [c EXCEPT !.ph = "code", !.shown = NoCode]
               z == [c EXCEPT !.stop = FALSE, !.ph = "showqr", !.shown = NoCode, !.rid = NoRdv,
                              !.key = None, !.byCode = FALSE, !.poll[next + 1] = Poll("created")]
    <3>1. c \in DialogT /\ c.job = d.job
      BY <2>0, Cleaned
    <3>2. (Be(o, x) \/ Be(o, y) \/ Be(o, z)) /\ approved' = approved
      BY <2>1 DEF TabScan, TabCode, startShowQr
    <3> HIDE DEF c
    <3>3. x.job = d.job /\ y.job = d.job /\ z.job = d.job
      BY <3>1 DEF DialogT
    <3> HIDE DEF x, y, z
    <3> QED
      BY <2>b, <3>2, <3>3
  <2>2. ASSUME NEW r \in Rdv, NEW a \in BOOLEAN,
               Created(o, r, a) \/ PollFires(o, r) \/ PollAnswered(o, r, a) \/ PollDigits(o, r)
        PROVE  Goal
    <3> DEFINE k == rdv[r].key
               l == d.poll[r].key
               u == [d EXCEPT !.poll[r] = Off]
               v == [d EXCEPT !.rid = r, !.byCode = FALSE, !.poll[r] = Poll("timer"), !.timer = r]
               w == [d EXCEPT !.poll[r] = Off, !.ph = "mode"]
               x == [d EXCEPT !.poll[r] = IF d.stop THEN Off ELSE Poll("asked")]
               y == [d EXCEPT !.key = k, !.poll[r] = [at |-> "digits", key |-> k]]
               z == [d EXCEPT !.poll[r] = Poll("timer"), !.timer = r]
               g == [d EXCEPT !.poll[r] = Off, !.shown = [r |-> r, key |-> l], !.ph = "verify"]
    <3>1. approved' = approved
      BY <2>2 DEF Created, PollFires, PollAnswered, PollDigits
    <3>2. \/ Be(o, u) \/ Be(o, v) \/ Be(o, w) \/ Be(o, x) \/ Be(o, y) \/ Be(o, z) \/ Be(o, g)
      <4>1. CASE Created(o, r, a)
        BY <4>1 DEF Created
      <4>2. CASE PollFires(o, r)
        BY <4>2 DEF PollFires
      <4>3. CASE PollAnswered(o, r, a)
        BY <4>3 DEF PollAnswered
      <4>4. CASE PollDigits(o, r)
        BY <4>4 DEF PollDigits
      <4> QED
        BY <2>2, <4>1, <4>2, <4>3, <4>4
    <3>3. /\ u.job = d.job /\ v.job = d.job /\ w.job = d.job /\ x.job = d.job
          /\ y.job = d.job /\ z.job = d.job /\ g.job = d.job
      <4> HIDE DEF k, l
      <4> QED
        BY <2>0 DEF DialogT
    <3> HIDE DEF u, v, w, x, y, z, g
    <3> QED
      BY <2>b, <3>1, <3>2, <3>3
  <2>3. ASSUME NEW s \in Session, submitCode(o, s)
        PROVE  Goal
    <3> DEFINE x == [d EXCEPT !.typing = [at |-> "asked", r |-> new[s].r, key |-> None]]
    <3>1. Be(o, x) /\ approved' = approved
      BY <2>3 DEF submitCode
    <3>2. x.job = d.job
      BY <2>0 DEF DialogT
    <3> HIDE DEF x
    <3> QED
      BY <2>b, <3>1, <3>2
  <2>4. ASSUME NEW s \in Session, confirmAndDeposit(o, s) \/ ScanQr(o, s)
        PROVE  Goal
    <3>1. approved' = approved \cup {s}
      BY <2>4 DEF confirmAndDeposit, ScanQr
    <3>2. confirmAndDeposit(o, s) => d.key = s
      BY DEF confirmAndDeposit, Agree, OneAtATime, SameKey
    <3>3. \E e : Be(o, e) /\ e.job.key = s
      BY <2>0, <2>4, <3>2 DEF confirmAndDeposit, ScanQr, Recipient, Posted, DialogT
    <3> QED
      BY <2>a, <3>1, <3>3
  <2>5. ASSUME NEW a \in BOOLEAN, Resolved(o, a)
        PROVE  Goal
    <3> DEFINE r == d.typing.r
               k == rdv[r].key
               x == [d EXCEPT !.rid = r, !.key = k, !.byCode = TRUE,
                              !.typing = [at |-> "digits", r |-> r, key |-> k]]
               y == [d EXCEPT !.typing = NotTyping]
    <3>1. (Be(o, x) \/ Be(o, y)) /\ approved' = approved
      BY <2>5 DEF Resolved
    <3> HIDE DEF k, r
    <3>2. x.job = d.job /\ y.job = d.job
      BY <2>0 DEF DialogT
    <3> HIDE DEF x, y
    <3> QED
      BY <2>b, <3>1, <3>2
  <2>6. CASE ResolvedDigits(o)
    <3> DEFINE x == [d EXCEPT !.typing = NotTyping, !.ph = "verify",
                              !.shown = [r |-> d.typing.r, key |-> d.typing.key]]
    <3>1. Be(o, x) /\ approved' = approved
      BY <2>6 DEF ResolvedDigits
    <3>2. x.job = d.job
      BY <2>0 DEF DialogT
    <3> HIDE DEF x
    <3> QED
      BY <2>b, <3>1, <3>2
  <2>7. CASE DepositRead(o)
    <3> DEFINE k == rdv[d.job.r].key
               x == [d EXCEPT !.job = [@ EXCEPT !.at = "read", !.seen = k]]
               y == [d EXCEPT !.job = NoJob]
    <3>1. d.job \in Job /\ d.job.key \in approved
      BY <2>0, <2>7 DEF DepositRead, DialogT, ForApproved
    <3>2. (Be(o, x) \/ Be(o, y)) /\ approved' = approved
      BY <2>7 DEF DepositRead
    <3>3. x.job.key = d.job.key /\ y.job.at = "no"
      <4> HIDE DEF k
      <4> QED
        BY <2>0, <3>1, JobShapes DEF DialogT, Job
    <3> HIDE DEF x, y
    <3> QED
      BY <2>a, <3>1, <3>2, <3>3
  <2>8. ASSUME NEW a \in BOOLEAN, DepositSave(o, a)
        PROVE  Goal
    <3> DEFINE c == Cleanup(d)
               x == [d EXCEPT !.job = NoJob]
               y == [d EXCEPT !.job = NoJob, !.ph = "done"]
               z == [c EXCEPT !.job = NoJob, !.ph = "done"]
    <3>1. c \in DialogT
      BY <2>0, Cleaned
    <3>2. (Be(o, x) \/ Be(o, y) \/ Be(o, z)) /\ approved' = approved
      BY <2>8 DEF DepositSave
    <3> HIDE DEF c
    <3>3. x.job.at = "no" /\ y.job.at = "no" /\ z.job.at = "no"
      BY <2>0, <3>1, JobShapes DEF DialogT
    <3> HIDE DEF x, y, z
    <3> QED
      BY <2>a, <3>2, <3>3
  <2> QED
    BY <1>4, <2>1, <2>2, <2>3, <2>4, <2>5, <2>6, <2>7, <2>8 DEF OldDevice
<1>5. ASSUME NEW r \in Rdv, Expire(r)
      PROVE  UNCHANGED <<old, approved>>
  BY <1>5 DEF Expire
<1> QED
  BY <1>1, <1>2, <1>3, <1>4, <1>5 DEF Next

LEMMA ApprovedStep ==
  ASSUME ~Overlap, Typed, OneAtATime, ForApproved, [Next]_vars
  PROVE  ForApproved'
<1>0. approved \subseteq approved'
  BY JobStep
<1>1. \A r \in Rdv : Ready(rdv'[r]) => rdv'[r].blob.key \in approved'
  <2>1. CASE Kept
    BY <1>0, <2>1 DEF Kept, ForApproved
  <2>2. CASE \E r \in Rdv, s \in Session : HandsOut(r, s)
    BY <1>0, <2>2 DEF HandsOut, ForApproved
  <2>3. CASE \E o \in Dialog : Stores(o)
    BY <1>0, <2>3 DEF Stores, ForApproved
  <2> QED
    BY <2>1, <2>2, <2>3, DepositSteps
<1> QED
  BY <1>1, JobStep DEF ForApproved

LEMMA OpenStep ==
  ASSUME ~Overlap, Typed, OneAtATime, ForApproved, OpensWhereCompared, [Next]_vars
  PROVE  OpensWhereCompared'
<1>0. approved \subseteq approved'
  BY JobStep
<1>1. CASE UNCHANGED new
  BY <1>0, <1>1 DEF OpensWhereCompared
<1>2. CASE UNCHANGED vars
  BY <1>1, <1>2 DEF vars
<1>3. ASSUME NEW s \in Session, NewDevice(s)
      PROVE  OpensWhereCompared'
  <2>1. \A t \in Session \ {s} : new'[t].at = "received" => new[t].at = "received"
    BY <1>3 DEF NewDevice, ShowMode, AttachWatch, AttachRead, Claim, Leave, Scan, AttachExec, Take,
                Panel, Uses, Ends, Typed, TypeOK
  <2>2. new'[s].at = "received" => \E a \in BOOLEAN : Take(s, a)
    <3>0. new \in [Session -> PanelT] /\ new[s] \in PanelT
      BY DEF Typed, TypeOK
    <3>1. ASSUME NEW p, p # "received", Panel(s, p)
          PROVE  new'[s].at # "received"
      BY <3>0, <3>1 DEF Panel, PanelT
    <3>2. ASSUME NEW p, NEW r, p # "received", Uses(s, p, r)
          PROVE  new'[s].at # "received"
      BY <3>0, <3>2 DEF Uses, PanelT
    <3>3. CASE AttachWatch(s) \/ AttachRead(s) \/ Leave(s)
      BY <3>1, <3>3 DEF AttachWatch, AttachRead, Leave
    <3>4. CASE ShowMode(s) \/ \E o \in Dialog : Scan(s, o)
      BY <3>2, <3>4 DEF ShowMode, Scan
    <3>5. CASE \E a \in BOOLEAN : AttachExec(s, a)
      BY <3>1, <3>5 DEF AttachExec
    <3>6. CASE Claim(s)
      <4> DEFINE taken == [new EXCEPT ![s] = [@ EXCEPT !.taking = TRUE]]
      <4>1. taken[s].at = new[s].at /\ new[s].at # "received"
        BY <3>0, <3>6 DEF Claim, Waits, PanelT
      <4>2. Panel(s, "error") \/ new' = taken
        BY <3>6 DEF Claim
      <4> QED
        BY <3>1, <4>1, <4>2
    <3> QED
      BY <1>3, <3>3, <3>4, <3>5, <3>6 DEF NewDevice
  <2>3. ASSUME NEW a \in BOOLEAN, Take(s, a), new'[s].at = "received"
        PROVE  s \in approved
    <3>1. new[s].r \in Rdv
      BY <2>3 DEF Take, Typed, Panels, Waits
    <3>2. rdv[new[s].r].blob.key = s
      BY <2>3 DEF Take, Ends, Typed, TypeOK, PanelT
    <3>3. Ready(rdv[new[s].r])
      BY <3>2, LinkAssumption DEF LinkAssumption, Ready, NoBlob
    <3> QED
      BY <3>1, <3>2, <3>3 DEF ForApproved
  <2> QED
    BY <1>0, <2>1, <2>2, <2>3 DEF OpensWhereCompared
<1>4. ASSUME NEW o \in Dialog, OldDevice(o)
      PROVE  UNCHANGED new
  BY <1>4 DEF OldDevice, TabScan, TabCode, startShowQr, Created, PollFires, PollAnswered, PollDigits,
              submitCode, Resolved, ResolvedDigits, confirmAndDeposit, ScanQr, DepositRead, DepositSave
<1>5. ASSUME NEW r \in Rdv, Expire(r)
      PROVE  UNCHANGED new
  BY <1>5 DEF Expire
<1> QED
  BY <1>1, <1>2, <1>3, <1>4, <1>5 DEF Next

\* A vault opens only on a device whose QR was scanned or whose digits were compared, however many
\* devices race for the record (confirmAndDeposit seals for pendingPubkeyRef, line 284 of the dialog),
\* provided the user lets a request of a dialog finish before starting the next.
THEOREM OpensWhereApproved == ~Overlap => (Spec => []OpensWhereCompared)
<1> SUFFICES ASSUME ~Overlap PROVE Spec => []OpensWhereCompared
  OBVIOUS
<1> DEFINE Inv == Typed /\ OneAtATime /\ ForApproved /\ OpensWhereCompared
<1>1. Init => OneAtATime /\ ForApproved /\ OpensWhereCompared
  BY EntryShapes, JobShapes, PollShapes
     DEF Init, Closed, OneAtATime, OneThing, SameKey, AllOff, ForApproved, OpensWhereCompared
<1>2. Init => Inv
  BY <1>1, TypeInit
<1>3. Inv /\ [Next]_vars => Inv'
  BY TypeStep, OneStep, ApprovedStep, OpenStep
<1>4. Inv => OpensWhereCompared
  OBVIOUS
<1> HIDE DEF Inv
<1> QED
  BY <1>2, <1>3, <1>4, PTL DEF Spec
=============================================================================
