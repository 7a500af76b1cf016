--------------------------- MODULE ServiceProofs ---------------------------
(***************************************************************************)
(* Proofs about three of the parts around a run: TerminalSize, for any     *)
(* sizes and any senders, MainLoop, for any run nodes, goroutines and size *)
(* of the pipe, and Uploads, for any number of starts and of uploads.      *)
(***************************************************************************)
EXTENDS Integers, TerminalSize, MainLoop, Uploads, SequenceTheorems, TLAPS


-----------------------------------------------------------------------------
(* TerminalSize.                                                            *)

SizeTypeOK ==
  /\ area \in WinSize /\ size \in WinSize /\ wanted \in WinSize
  /\ sent \in WinSize /\ remote \in WinSize
  /\ alive \in BOOLEAN /\ broken \in BOOLEAN
  /\ sender \in [Sender -> WinSize \cup {"none", "lock"}]

Sending(g) == sender[g] \in WinSize
Waits(g)   == sender[g] = "lock"

(* The lock of the senders. *)
OneSends == \A g, h \in Sender : Sending(g) /\ Sending(h) => g = h

(* Whoever sends an old size has somebody behind it, who will read again;    *)
(* and while the size that is wanted was not sent, somebody waits or sends.  *)
OldIsFollowed ==
  \A g \in Sender : Sending(g) /\ sender[g] # wanted => \E h \in Sender : Waits(h)
WantedIsSent ==
  sent # wanted /\ alive /\ ~broken => \E g \in Sender : Waits(g) \/ Sending(g)

SizeInv ==
  /\ SizeTypeOK
  /\ wanted = size
  /\ alive /\ ~broken => remote = sent
  /\ OneSends /\ OldIsFollowed /\ WantedIsSent

LEMMA SizeInitInv == SizeInit => SizeInv
BY SizeAssumption DEF SizeInit, SizeInv, SizeTypeOK, OneSends, OldIsFollowed, WantedIsSent, Sending, Waits

LEMMA CheckSizeInv ==
  ASSUME SizeInv, NEW g \in Sender, CheckTerminalSize(g) PROVE SizeInv'
<1> USE SizeAssumption DEF SizeInv, CheckTerminalSize, Sending, Waits
<1>1. SizeTypeOK'
  BY DEF SizeTypeOK
<1>2. sender'[g] = "lock" /\ \A h \in Sender : h # g => sender'[h] = sender[h]
  BY DEF SizeTypeOK
<1>3. OneSends'
  BY <1>2 DEF OneSends
<1>4. OldIsFollowed' /\ WantedIsSent'
  BY <1>2 DEF OldIsFollowed, WantedIsSent
<1> QED
  BY <1>1, <1>3, <1>4

LEMMA ReadWantedInv ==
  ASSUME SizeInv, NEW g \in Sender, ReadWanted(g) PROVE SizeInv'
<1> USE SizeAssumption DEF SizeInv, ReadWanted, Sending, Waits
<1>1. SizeTypeOK'
  BY DEF SizeTypeOK
<1>2. \A h \in Sender : ~Sending(h)
  OBVIOUS
<1>3. /\ sender'[g] = IF wanted = sent \/ ~alive THEN "none" ELSE wanted
      /\ \A h \in Sender : h # g => sender'[h] = sender[h]
  BY DEF SizeTypeOK
<1>4. OneSends'
  BY <1>2, <1>3 DEF OneSends
<1>5. OldIsFollowed' /\ WantedIsSent'
  BY <1>2, <1>3 DEF OldIsFollowed, WantedIsSent, SizeTypeOK
<1> QED
  BY <1>1, <1>4, <1>5

LEMMA SendSizeInv ==
  ASSUME SizeInv, NEW g \in Sender, SendSize(g) PROVE SizeInv'
<1> USE SizeAssumption DEF SizeInv, SendSize, Sending, Waits
<1>1. SizeTypeOK'
  BY DEF SizeTypeOK
<1>2. sender'[g] = "none" /\ \A h \in Sender : h # g => sender'[h] = sender[h] /\ ~Sending(h)
  BY DEF SizeTypeOK, OneSends
<1>3. OneSends' /\ OldIsFollowed'
  BY <1>2 DEF OneSends, OldIsFollowed
<1>4. alive' /\ ~broken' => remote' = sent'
  OBVIOUS
<1>5. WantedIsSent'
  <2> SUFFICES ASSUME sent' # wanted', ~broken' PROVE \E h \in Sender : sender'[h] = "lock"
    BY DEF WantedIsSent
  <2>1. sender[g] # wanted
    OBVIOUS
  <2>2. PICK h \in Sender : Waits(h)
    BY <2>1 DEF OldIsFollowed
  <2> QED
    BY <1>2, <2>2
<1> QED
  BY <1>1, <1>3, <1>4, <1>5

LEMMA SizeNextInv == SizeInv /\ [SizeNext]_sizeVars => SizeInv'
<1> SUFFICES ASSUME SizeInv, [SizeNext]_sizeVars PROVE SizeInv'
  OBVIOUS
<1> USE DEF SizeInv, SizeTypeOK, OneSends, OldIsFollowed, WantedIsSent, Sending, Waits
<1>1. CASE Resize
  BY <1>1 DEF Resize
<1>2. CASE ProcessExits
  BY <1>2 DEF ProcessExits
<1>3. CASE UNCHANGED sizeVars
  BY <1>3 DEF sizeVars
<1> QED
  BY <1>1, <1>2, <1>3, CheckSizeInv, ReadWantedInv, SendSizeInv DEF SizeNext

(* However many senders race, the pty ends up with the size of the area:     *)
(* the sizes of nodeterminal.go are sent one at a time, and read late.       *)
THEOREM LastSizeWins == SizeSpec => []SizeIsCurrent
<1>1. SizeInv => SizeIsCurrent
  BY SizeAssumption DEF SizeInv, SizeTypeOK, WantedIsSent, Sending, Waits, SizeIsCurrent
<1> QED
  BY <1>1, SizeInitInv, SizeNextInv, PTL DEF SizeSpec

-----------------------------------------------------------------------------
(* MainLoop: the queue.                                                     *)

QueueInv == pipe \in Nat /\ NoLostWakeUp

LEMMA QueueNextInv == QueueInv /\ [LoopNext]_loopVars => QueueInv'
<1> SUFFICES ASSUME QueueInv, [LoopNext]_loopVars PROVE QueueInv'
  OBVIOUS
<1> USE LoopAssumption DEF QueueInv, NoLostWakeUp
<1>1. ASSUME NEW p \in Poster, Post(p) PROVE QueueInv'
  BY <1>1 DEF Post
<1>2. ASSUME NEW p \in Poster, Wake(p) PROVE QueueInv'
  BY <1>2 DEF Wake
<1>3. CASE RunQueue
  BY <1>3 DEF RunQueue
<1>4. CASE RunFunction
  BY <1>4 DEF RunFunction
<1>5. CASE UNCHANGED queueVars
  BY <1>5 DEF queueVars
<1>6. CASE \E j \in Job : StartJob(j) \/ JobEnds(j) \/ UserRuns(j)
  BY <1>5, <1>6 DEF StartJob, JobEnds, UserRuns, User
<1>7. CASE CloseButton \/ Answer \/ CancelButton \/ Terminate \/ StayOpen \/ UserSkips
  BY <1>5, <1>7 DEF CloseButton, Answer, CancelButton, Terminate, StayOpen, UserSkips, User
<1>8. CASE UpdateDialog \/ FinishBanner
  BY <1>5, <1>8 DEF UpdateDialog, FinishBanner
<1> QED
  BY <1>1, <1>2, <1>3, <1>4, <1>5, <1>6, <1>7, <1>8 DEF LoopNext, loopVars

(* A function that runOnMain appended is run: whatever the order of the      *)
(* posts, the bytes and the two halves of run, a wake-up is due while the    *)
(* queue holds something.                                                    *)
THEOREM WakeUpIsDue == LoopSpec => []NoLostWakeUp
<1>1. LoopInit => QueueInv
  BY DEF LoopInit, QueueInv, NoLostWakeUp
<1>2. QueueInv => NoLostWakeUp
  BY DEF QueueInv
<1> QED
  BY <1>1, <1>2, QueueNextInv, PTL DEF LoopSpec

-----------------------------------------------------------------------------
(* MainLoop: the ways to close the window.                                  *)

(* While the window is open, what entitles a dialog to close it is still     *)
(* true: the dialog is modal, so what it saw finished stays so, and an       *)
(* answer was typed.  closeConfirmed is only set on the way out.             *)
DialogIsRight ==
  window = "open" =>
    /\ lost = {} /\ ~confirmed
    /\ dialog.open /\ dialog.finished => Unfinished = {}
    /\ dialog.open /\ dialog.answered => typed

Countdown == [counting : BOOLEAN, left : Int, stay : BOOLEAN]

CloseTypeOK ==
  /\ job \in [Job -> {"Waiting", "Running"} \cup Ended]
  /\ skipped \in BOOLEAN /\ typed \in BOOLEAN /\ confirmed \in BOOLEAN
  /\ dialog \in [open : BOOLEAN, finished : BOOLEAN, answered : BOOLEAN]
  /\ countdown \in Countdown

CloseInv == CloseTypeOK /\ DialogIsRight /\ ClosesSafely

LEMMA CloseInitInv == LoopInit => CloseInv
<1> SUFFICES ASSUME LoopInit PROVE CloseInv
  OBVIOUS
<1> USE DEF LoopInit, NoDialog
<1>1. dialog \in [open : BOOLEAN, finished : BOOLEAN, answered : BOOLEAN]
  OBVIOUS
<1>2. countdown \in Countdown
  BY DEF Countdown
<1>3. CloseTypeOK
  BY <1>1, <1>2 DEF CloseTypeOK
<1>4. DialogIsRight /\ ClosesSafely
  BY DEF DialogIsRight, ClosesSafely
<1> QED
  BY <1>3, <1>4 DEF CloseInv

(* Nothing is lost when nothing is unfinished, or when the tree has ended.   *)
LEMMA NothingRuns ==
  ASSUME CloseTypeOK, ~skipped, Unfinished = {} \/ RootFinished PROVE RunningNow = {}
BY DEF CloseTypeOK, Unfinished, RootFinished, RunningNow, Ended

LEMMA CloseRequestInv ==
  ASSUME CloseInv, window = "open", CloseRequest, UNCHANGED treeVars PROVE CloseInv'
<1> USE DEF CloseInv, treeVars
<1>1. CASE Unfinished = {}
  <2>1. CloseWindow /\ UNCHANGED <<countdown, confirmed, typed>>
    BY <1>1 DEF CloseRequest
  <2>2. lost' = {} /\ window' = "closed"
    BY <1>1, <2>1, NothingRuns DEF CloseWindow
  <2> QED
    BY <2>1, <2>2 DEF CloseWindow, CloseTypeOK, DialogIsRight, ClosesSafely, NoDialog
<1>2. CASE Unfinished # {}
  <2>1. dialog' = IF dialog.open THEN dialog ELSE [open |-> TRUE, finished |-> FALSE, answered |-> FALSE]
    BY <1>2 DEF CloseRequest, NoDialog, DialogIsRight
  <2>2. UNCHANGED <<window, countdown, confirmed, typed, lost>>
    BY <1>2 DEF CloseRequest, DialogIsRight
  <2>3. Unfinished' = Unfinished
    BY DEF Unfinished
  <2> QED
    BY <2>1, <2>2, <2>3 DEF CloseTypeOK, DialogIsRight, ClosesSafely
<1> QED
  BY <1>1, <1>2

LEMMA TreeStepInv ==
  ASSUME CloseInv, window = "open", NEW j \in Job, StartJob(j) \/ JobEnds(j) PROVE CloseInv'
<1> USE DEF CloseInv, CloseTypeOK, StartJob, JobEnds, windowVars
<1>1. CloseTypeOK'
  BY DEF Ended
<1>2. UNCHANGED windowVars /\ (Unfinished = {} => Unfinished' = {})
  BY DEF Unfinished, Ended
<1> QED
  BY <1>1, <1>2 DEF DialogIsRight, ClosesSafely

LEMMA UserStepInv ==
  ASSUME CloseInv,
         Answer \/ CancelButton \/ StayOpen \/ UserSkips \/ \E j \in Job : UserRuns(j)
  PROVE  CloseInv'
<1> USE DEF CloseInv, CloseTypeOK, DialogIsRight, ClosesSafely, User, Between, treeVars, windowVars
<1>1. CASE Answer
  BY <1>1 DEF Answer, Unfinished
<1>2. CASE CancelButton
  BY <1>2 DEF CancelButton, NoDialog
<1>3. CASE StayOpen
  BY <1>3 DEF StayOpen, Unfinished, Countdown
<1>4. CASE UserSkips
  BY <1>4 DEF UserSkips
<1>5. ASSUME NEW j \in Job, UserRuns(j) PROVE CloseInv'
  BY <1>5 DEF UserRuns, Ended
<1> QED
  BY <1>1, <1>2, <1>3, <1>4, <1>5

LEMMA TerminateInv == ASSUME CloseInv, Terminate PROVE CloseInv'
<1> USE DEF CloseInv, Terminate, User, Between, CloseWindow, treeVars
<1>1. CloseTypeOK' /\ DialogIsRight'
  BY DEF CloseTypeOK, DialogIsRight, NoDialog
<1>2. ClosesSafely'
  BY NothingRuns DEF DialogIsRight, ClosesSafely
<1> QED
  BY <1>1, <1>2

(* The countdown counts only while the tree has ended.                       *)
LEMMA TickType ==
  ASSUME NEW c \in Countdown, NEW f \in BOOLEAN
  PROVE  Tick(c, f) \in Countdown /\ (~f => ~Tick(c, f).counting)
<1>1. CASE c.stay \/ ~f
  BY <1>1 DEF Tick, Countdown
<1>2. CASE ~(c.stay \/ ~f)
  <2> DEFINE left == IF c.counting THEN c.left - 1 ELSE ExitDelay
  <2>1. Tick(c, f) = [c EXCEPT !.counting = TRUE, !.left = left]
    BY <1>2 DEF Tick
  <2>2. left \in Int
    BY LoopAssumption DEF Countdown
  <2> QED
    BY <1>2, <2>1, <2>2 DEF Countdown
<1> QED
  BY <1>1, <1>2

LEMMA TimerInv == ASSUME CloseInv, UpdateDialog \/ FinishBanner PROVE CloseInv'
<1>1. CASE UpdateDialog
  BY <1>1 DEF UpdateDialog, CloseInv, CloseTypeOK, DialogIsRight, ClosesSafely, Unfinished, treeVars
<1>2. CASE FinishBanner
  <2> USE <1>2 DEF FinishBanner, CloseInv, Between
  <2>a. countdown' = Tick(countdown, RootFinished) /\ RootFinished \in BOOLEAN
    BY DEF RootFinished
  <2>b. countdown' \in Countdown
    BY <2>a, TickType DEF CloseTypeOK
  <2>1. CASE countdown'.counting /\ countdown'.left = 0
    <3>1. RootFinished
      <4> SUFFICES ASSUME ~RootFinished PROVE FALSE
        OBVIOUS
      <4>1. ~countdown'.counting
        BY <2>a, TickType DEF CloseTypeOK
      <4> QED
        BY <4>1, <2>1
    <3>2. CloseWindow /\ confirmed' = TRUE /\ UNCHANGED <<job, skipped, typed>>
      BY <2>1 DEF treeVars
    <3>3. lost' = {}
      BY <3>1, <3>2, NothingRuns DEF CloseWindow
    <3> QED
      BY <2>b, <3>2, <3>3 DEF CloseWindow, CloseTypeOK, DialogIsRight, ClosesSafely, NoDialog
  <2>2. CASE ~(countdown'.counting /\ countdown'.left = 0)
    BY <2>b, <2>2 DEF CloseTypeOK, DialogIsRight, ClosesSafely, Unfinished, treeVars
  <2> QED
    BY <2>1, <2>2
<1> QED
  BY <1>1, <1>2

LEMMA CloseNextInv == CloseInv /\ [LoopNext]_loopVars => CloseInv'
<1> SUFFICES ASSUME CloseInv, [LoopNext]_loopVars PROVE CloseInv'
  OBVIOUS
<1>1. CASE UNCHANGED <<treeVars, windowVars>>
  BY <1>1 DEF treeVars, windowVars, CloseInv, CloseTypeOK, DialogIsRight, ClosesSafely, Unfinished
<1>2. CASE (\E p \in Poster : Post(p) \/ Wake(p)) \/ RunQueue \/ UNCHANGED loopVars
  BY <1>1, <1>2 DEF Post, Wake, RunQueue, loopVars
<1>3. CASE RunFunction
  BY <1>1, <1>3, CloseRequestInv DEF RunFunction
<1>4. CASE CloseButton
  BY <1>4, CloseRequestInv DEF CloseButton, User, Between
<1> QED
  BY <1>2, <1>3, <1>4, TreeStepInv, UserStepInv, TerminateInv, TimerInv DEF LoopNext

(* Whatever closes the main window, it does not close over a running process *)
(* unless the user has typed the answer: none of the button, a signal, the   *)
(* dialog and the countdown acts on what it saw earlier (of the tree).       *)
THEOREM WindowClosesSafely == LoopSpec => []ClosesSafely
<1>1. CloseInv => ClosesSafely
  BY DEF CloseInv
<1> QED
  BY <1>1, CloseInitInv, CloseNextInv, PTL DEF LoopSpec

-----------------------------------------------------------------------------
(* Uploads.                                                                 *)


At == {"dial", "ask", "wait", "upload", "close", "redial", "started", "failed"}

UploadCall == [done : BOOLEAN, err : BOOLEAN]

UploadTypeOK ==
  /\ at \in [Dialer -> At]
  /\ calls \in Seq(UploadCall)
  /\ current \in 0..Len(calls) /\ mine \in [Dialer -> 0..Len(calls)]

(* The start that an upload is in the hands of, until it closes done.        *)
HasUpload(d) == at[d] \in {"upload", "close"}

(* An upload has one start, and is not done while it has it.                 *)
OneForEach == \A d, e \in Dialer : HasUpload(d) /\ HasUpload(e) /\ mine[d] = mine[e] => d = e
NotDoneYet == \A d \in Dialer : HasUpload(d) => mine[d] \in DOMAIN calls /\ ~calls[mine[d]].done

(* The one that is in the map is the only one that still copies; one that    *)
(* failed is not in the map.                                                 *)
CopiesCurrent == \A d \in Dialer : at[d] = "upload" => mine[d] = current
CurrentIsGood == current # 0 => ~calls[current].err

(* No upload is left without a start before it is done.                      *)
NoneAbandoned ==
  \A k \in DOMAIN calls : calls[k].done \/ \E e \in Dialer : HasUpload(e) /\ mine[e] = k
WaitsForOne == \A d \in Dialer : at[d] = "wait" => mine[d] \in DOMAIN calls

UploadInv ==
  UploadTypeOK /\ OneForEach /\ NotDoneYet /\ CopiesCurrent /\ CurrentIsGood /\ NoneAbandoned /\ WaitsForOne

LEMMA UploadInitInv == UploadInit => UploadInv
BY DEF UploadInit, UploadInv, UploadTypeOK, At, HasUpload, OneForEach, NotDoneYet, CopiesCurrent,
       CurrentIsGood, NoneAbandoned, WaitsForOne

(* A start that goes on, and has no upload in its hands before and after.    *)
LEMMA GoesInv ==
  ASSUME UploadInv, NEW d \in Dialer, NEW p \in At \ {"upload", "close", "wait"},
         ~HasUpload(d), Goes(d, p), UNCHANGED <<current, calls, mine, onHost>>
  PROVE  UploadInv'
<1> USE DEF UploadInv, UploadTypeOK, Goes
<1>1. /\ at' \in [Dialer -> At] /\ at'[d] = p
      /\ \A e \in Dialer : e # d => at'[e] = at[e]
  OBVIOUS
<1> QED
  BY <1>1 DEF HasUpload, OneForEach, NotDoneYet, CopiesCurrent, CurrentIsGood, NoneAbandoned, WaitsForOne

(* What happens to the calls: one of them fails, or is done.                 *)
LEMMA CallChanges ==
  ASSUME NEW cs \in Seq(UploadCall), NEW i \in DOMAIN cs
  PROVE  /\ LET ds == [cs EXCEPT ![i].err = TRUE]
            IN /\ ds \in Seq(UploadCall) /\ Len(ds) = Len(cs) /\ DOMAIN ds = DOMAIN cs
               /\ \A j \in DOMAIN cs : ds[j].done = cs[j].done
         /\ LET ds == [cs EXCEPT ![i].done = TRUE]
            IN /\ ds \in Seq(UploadCall) /\ Len(ds) = Len(cs) /\ DOMAIN ds = DOMAIN cs
               /\ ds[i].done
               /\ \A j \in DOMAIN cs : ds[j].err = cs[j].err /\ (j # i => ds[j] = cs[j])
<1>1. i \in 1..Len(cs) /\ DOMAIN cs = 1..Len(cs)
  BY LenProperties
<1>2. cs[i] \in UploadCall
  BY <1>1, ElementOfSeq
<1> DEFINE x == [cs[i] EXCEPT !.err = TRUE]
           y == [cs[i] EXCEPT !.done = TRUE]
<1>3. x \in UploadCall /\ y \in UploadCall /\ x.done = cs[i].done /\ y.err = cs[i].err /\ y.done
  BY <1>2 DEF UploadCall
<1> HIDE DEF x, y
<1>4. /\ [cs EXCEPT ![i] = x] \in Seq(UploadCall) /\ Len([cs EXCEPT ![i] = x]) = Len(cs)
      /\ DOMAIN [cs EXCEPT ![i] = x] = DOMAIN cs
      /\ \A j \in 1..Len(cs) : [cs EXCEPT ![i] = x][j] = IF j = i THEN x ELSE cs[j]
  BY <1>1, <1>3, ExceptSeq
<1>5. /\ [cs EXCEPT ![i] = y] \in Seq(UploadCall) /\ Len([cs EXCEPT ![i] = y]) = Len(cs)
      /\ DOMAIN [cs EXCEPT ![i] = y] = DOMAIN cs
      /\ \A j \in 1..Len(cs) : [cs EXCEPT ![i] = y][j] = IF j = i THEN y ELSE cs[j]
  BY <1>1, <1>3, ExceptSeq
<1>6. [cs EXCEPT ![i].err = TRUE] = [cs EXCEPT ![i] = x] /\ [cs EXCEPT ![i].done = TRUE] = [cs EXCEPT ![i] = y]
  BY DEF x, y
<1> QED
  BY <1>1, <1>3, <1>4, <1>5, <1>6

LEMMA AskInv == ASSUME UploadInv, NEW d \in Dialer, Ask(d) PROVE UploadInv'
<1> USE DEF UploadInv, UploadTypeOK, Goes, Ask
<1>1. CASE current # 0
  <2>1. /\ at' \in [Dialer -> At] /\ at'[d] = "wait" /\ mine'[d] = current
        /\ \A e \in Dialer : e # d => at'[e] = at[e] /\ mine'[e] = mine[e]
        /\ UNCHANGED <<current, calls>>
    BY <1>1 DEF At
  <2>2. UploadTypeOK' /\ current \in DOMAIN calls
    BY <1>1, <2>1
  <2> HIDE DEF Ask, UploadTypeOK
  <2>3. \A e \in Dialer : HasUpload(e)' = (HasUpload(e) /\ e # d)
    BY <2>1 DEF HasUpload
  <2>4. ~HasUpload(d)
    BY DEF Ask, HasUpload
  <2>5. OneForEach' /\ NotDoneYet' /\ CopiesCurrent' /\ CurrentIsGood' /\ WaitsForOne'
    BY <2>1, <2>2, <2>3 DEF OneForEach, NotDoneYet, CopiesCurrent, CurrentIsGood, WaitsForOne
  <2>6. NoneAbandoned'
    BY <2>1, <2>3, <2>4, ZenonT(60) DEF NoneAbandoned
  <2> QED
    BY <2>2, <2>5, <2>6
<1>2. CASE current = 0
  <2> DEFINE c == [done |-> FALSE, err |-> FALSE]
  <2>0. c \in UploadCall /\ calls' = Append(calls, c) /\ Len(calls) \in Nat /\ DOMAIN calls = 1..Len(calls)
    BY <1>2, LenProperties DEF UploadCall
  <2>k. PICK k \in Nat : k = Len(calls) + 1
    <3> HIDE DEF Ask, UploadInv
    <3> QED
      BY <2>0
  <2>1. /\ calls' \in Seq(UploadCall)
        /\ Len(calls') = k /\ DOMAIN calls' = 1..k /\ DOMAIN calls = 1..Len(calls)
        /\ calls'[k] = c /\ \A i \in 1..Len(calls) : calls'[i] = calls[i]
    <3> HIDE DEF c, Ask
    <3> QED
      BY <2>0, <2>k, AppendProperties, LenProperties
  <2>2. /\ at' = [at EXCEPT ![d] = "upload"] /\ current' = k
        /\ mine' = [mine EXCEPT ![d] = k]
    BY <1>2, <2>1
  <2>c. at[d] = "ask"
    OBVIOUS
  <2> HIDE DEF Ask
  <2>3. /\ k \notin 0..Len(calls) /\ k \in DOMAIN calls' /\ DOMAIN calls \subseteq DOMAIN calls'
        /\ k \in 0..k /\ 0..Len(calls) \subseteq 0..k
    BY <2>0, <2>k, <2>1
  <2>a. /\ at' \in [Dialer -> At] /\ at'[d] = "upload"
        /\ mine' \in [Dialer -> 0..k] /\ mine'[d] = k
        /\ \A e \in Dialer : e # d => at'[e] = at[e] /\ mine'[e] = mine[e]
    BY <2>2, <2>3 DEF At
  <2>b. ~calls'[k].done /\ ~calls'[k].err
    BY <2>1
  <2>4. UploadTypeOK'
    BY <2>1, <2>2, <2>3, <2>a
  <2>5. \A e \in Dialer : at[e] # "upload"
    BY <1>2 DEF CopiesCurrent, NotDoneYet, HasUpload
  <2> HIDE DEF Ask
  <2>6. OneForEach' /\ NotDoneYet' /\ CopiesCurrent' /\ CurrentIsGood' /\ WaitsForOne'
    <3>1. \A e \in Dialer : mine[e] # k
      BY <2>3
    <3>2. OneForEach' /\ WaitsForOne'
      BY <2>a, <2>3, <3>1, ZenonT(60) DEF HasUpload, OneForEach, WaitsForOne
    <3>3. CopiesCurrent' /\ CurrentIsGood'
      BY <2>a, <2>b, <2>2, <2>5 DEF CopiesCurrent, CurrentIsGood
    <3>4. NotDoneYet'
      BY <2>a, <2>b, <2>1, <2>3, ZenonT(60) DEF HasUpload, NotDoneYet
    <3> QED
      BY <3>2, <3>3, <3>4
  <2>7. NoneAbandoned'
    <3> SUFFICES ASSUME NEW i \in DOMAIN calls', ~calls'[i].done
                 PROVE \E e \in Dialer : HasUpload(e)' /\ mine'[e] = i
      BY DEF NoneAbandoned
    <3>1. CASE i = k
      BY <2>a, <3>1 DEF HasUpload
    <3>2. CASE i # k
      <4>1. i \in DOMAIN calls /\ ~calls[i].done
        BY <2>k, <2>1, <3>2
      <4>2. PICK e \in Dialer : HasUpload(e) /\ mine[e] = i
        BY <4>1 DEF NoneAbandoned
      <4> QED
        BY <2>a, <2>c, <4>2 DEF HasUpload, UploadTypeOK
    <3> QED
      BY <3>1, <3>2
  <2> QED
    BY <2>4, <2>6, <2>7
<1> QED
  BY <1>1, <1>2

LEMMA UploadStepInv == ASSUME UploadInv, NEW d \in Dialer, Upload(d) PROVE UploadInv'
<1> USE DEF UploadInv, UploadTypeOK, Goes, Upload
<1>1. /\ at' \in [Dialer -> At] /\ at'[d] = "close" /\ UNCHANGED mine
      /\ \A e \in Dialer : e # d => at'[e] = at[e]
  BY DEF At
<1>2. mine[d] \in DOMAIN calls /\ mine[d] = current /\ HasUpload(d)
  BY DEF NotDoneYet, CopiesCurrent, HasUpload
<1>3. \A e \in Dialer : e # d => at[e] # "upload"
  BY <1>2 DEF CopiesCurrent, OneForEach, HasUpload
<1>4. /\ calls' \in Seq(UploadCall) /\ DOMAIN calls' = DOMAIN calls
      /\ Len(calls') = Len(calls) /\ \A i \in DOMAIN calls : calls'[i].done = calls[i].done
  <2>1. CASE UNCHANGED calls
    BY <2>1
  <2>2. CASE calls' = [calls EXCEPT ![mine[d]].err = TRUE]
    BY <1>2, <2>2, CallChanges DEF UploadCall
  <2> QED
    BY <2>1, <2>2
<1>5. CurrentIsGood' /\ current' \in {0, current}
  BY <1>2 DEF CurrentIsGood
<1>6. UploadTypeOK'
  BY <1>1, <1>4, <1>5
<1>7. OneForEach' /\ NotDoneYet' /\ CopiesCurrent' /\ NoneAbandoned' /\ WaitsForOne'
  BY <1>1, <1>2, <1>3, <1>4 DEF HasUpload, OneForEach, NotDoneYet, CopiesCurrent, NoneAbandoned, WaitsForOne
<1> QED
  BY <1>5, <1>6, <1>7

LEMMA CloseDoneInv == ASSUME UploadInv, NEW d \in Dialer, CloseDone(d) PROVE UploadInv'
<1> USE DEF UploadInv, UploadTypeOK, Goes, CloseDone
<1>1. mine[d] \in DOMAIN calls /\ HasUpload(d)
  BY DEF NotDoneYet, HasUpload
<1>2. /\ at' \in [Dialer -> At] /\ at'[d] \in {"failed", "redial"} /\ UNCHANGED <<mine, current>>
      /\ \A e \in Dialer : e # d => at'[e] = at[e]
  BY DEF At
<1>3. /\ calls' \in Seq(UploadCall) /\ DOMAIN calls' = DOMAIN calls
      /\ Len(calls') = Len(calls) /\ calls'[mine[d]].done
      /\ \A i \in DOMAIN calls : calls'[i].err = calls[i].err /\ (i # mine[d] => calls'[i] = calls[i])
  BY <1>1, CallChanges DEF UploadCall
<1>4. UploadTypeOK' /\ CurrentIsGood'
  BY <1>2, <1>3 DEF CurrentIsGood
<1>5. OneForEach' /\ NotDoneYet' /\ CopiesCurrent' /\ WaitsForOne'
  BY <1>1, <1>2, <1>3 DEF HasUpload, OneForEach, NotDoneYet, CopiesCurrent, WaitsForOne
<1>6. NoneAbandoned'
  BY <1>1, <1>2, <1>3 DEF HasUpload, NoneAbandoned
<1> QED
  BY <1>4, <1>5, <1>6

LEMMA UploadNextInv == UploadInv /\ [UploadNext]_uploadVars => UploadInv'
<1> SUFFICES ASSUME UploadInv, [UploadNext]_uploadVars PROVE UploadInv'
  OBVIOUS
<1>1. ASSUME NEW d \in Dialer, DialHost(d) PROVE UploadInv'
  BY <1>1, GoesInv DEF DialHost, HasUpload, At
<1>2. ASSUME NEW d \in Dialer, Wait(d) PROVE UploadInv'
  BY <1>2, GoesInv DEF Wait, HasUpload, At
<1>3. ASSUME NEW d \in Dialer, Restart(d) PROVE UploadInv'
  BY <1>3, GoesInv DEF Restart, HasUpload, At
<1>4. CASE UNCHANGED uploadVars
  BY <1>4 DEF uploadVars, UploadInv, UploadTypeOK, HasUpload, OneForEach, NotDoneYet, CopiesCurrent,
              CurrentIsGood, NoneAbandoned, WaitsForOne
<1> QED
  BY <1>1, <1>2, <1>3, <1>4, AskInv, UploadStepInv, CloseDoneInv DEF UploadNext

(* uploadOnce: one start at a time uploads, nobody waits for an upload that  *)
(* nobody makes, and nobody gets the error of an upload that failed earlier. *)
THEOREM OneUploadForAll == UploadSpec => []UploadsAreShared
<1>1. UploadInv => UploadsAreShared
  BY DEF UploadInv, UploadTypeOK, HasUpload, OneForEach, CopiesCurrent, CurrentIsGood, NoneAbandoned,
         WaitsForOne, UploadsAreShared
<1> QED
  BY <1>1, UploadInitInv, UploadNextInv, PTL DEF UploadSpec
=============================================================================
