------------------------------ MODULE MainLoop ------------------------------
(***************************************************************************)
(* The main loop of the GUI (internal/gtkui): the queue of the functions   *)
(* that goroutines pass to it, and the ways to close the main window while *)
(* the nodes of the tree, a group of run nodes, start and finish.          *)
(***************************************************************************)
EXTENDS Naturals, Sequences, FiniteSets

CONSTANTS
  Job,        \* the run nodes
  Poster,     \* the goroutines that call runOnMain
  PipeSize,   \* of the wake-up pipe
  ExitDelay,  \* the ticks between the end of the tree and the exit
  MaxEvents   \* bound: what the user does, and the calls of runOnMain

ASSUME LoopAssumption == PipeSize \in Nat \ {0} /\ ExitDelay \in Nat

VARIABLES
  funcs,      \* mainLoopQueue.funcs: "close" (a signal) or "update"
  pipe,       \* the bytes in the pipe
  posting,    \* the goroutines that will write a byte
  loop,       \* "idle", "run" (in mainLoopQueue.run, between its two halves)
  taken,      \* the functions that run has taken
  job,        \* status of the run nodes: "Waiting", "Running", "Success", "Failed"
  skipped,    \* the group, the root, is skipped
  window,     \* "open", "closed"
  dialog,     \* the dialog to confirm: [open, finished, answered]
  countdown,  \* [counting, left, stay]
  confirmed,  \* closeConfirmed
  typed,      \* history: the user has typed the answer
  lost,       \* history: what was running when the window closed
  did         \* the events so far

queueVars  == <<funcs, pipe, posting, loop, taken>>
treeVars   == <<job, skipped>>
windowVars == <<window, dialog, countdown, confirmed, typed, lost>>
loopVars   == <<queueVars, treeVars, windowVars, did>>

NoDialog == [open |-> FALSE, finished |-> FALSE, answered |-> FALSE]

LoopInit ==
  /\ funcs = <<>> /\ pipe = 0 /\ posting = {} /\ loop = "idle" /\ taken = <<>>
  /\ job = [j \in Job |-> "Waiting"] /\ skipped = FALSE
  /\ window = "open" /\ dialog = NoDialog /\ countdown = [counting |-> FALSE, left |-> 0, stay |-> FALSE]
  /\ confirmed = FALSE /\ typed = FALSE /\ lost = {} /\ did = 0

-----------------------------------------------------------------------------
(* The tree.                                                                *)
Ended == {"Success", "Failed"}
RootFinished == skipped \/ \A j \in Job : job[j] \in Ended

(* UnfinishedRunCounts: nothing below a skipped node is counted.             *)
Unfinished == IF skipped THEN {} ELSE {j \in Job : job[j] # "Success"}

StartJob(j) ==
  /\ ~skipped /\ job[j] = "Waiting" /\ job' = [job EXCEPT ![j] = "Running"]
  /\ UNCHANGED <<queueVars, skipped, windowVars, did>>
JobEnds(j) ==
  /\ job[j] = "Running" /\ \E s \in Ended : job' = [job EXCEPT ![j] = s]
  /\ UNCHANGED <<queueVars, skipped, windowVars, did>>

-----------------------------------------------------------------------------
(* runOnMain, from any goroutine.  The function is appended with the lock,   *)
(* and the byte written after it, when the queue was empty.                  *)
Post(p) ==
  /\ did < MaxEvents /\ did' = did + 1
  /\ p \notin posting
  /\ \E f \in {"close", "update"} : funcs' = Append(funcs, f)
  /\ posting' = IF funcs = <<>> THEN posting \cup {p} ELSE posting
  /\ UNCHANGED <<pipe, loop, taken, treeVars, windowVars>>

Wake(p) ==
  /\ p \in posting /\ posting' = posting \ {p}
  /\ pipe' = IF pipe < PipeSize THEN pipe + 1 ELSE pipe
  /\ UNCHANGED <<funcs, loop, taken, treeVars, windowVars, did>>

(* Mistake in RunQueue: the functions are taken before the bytes are read.   *)
RunQueueTakesFirst ==
  /\ \/ /\ loop = "idle" /\ taken = <<>> /\ pipe > 0 /\ loop' = "run"
        /\ taken' = funcs /\ funcs' = <<>> /\ UNCHANGED pipe
     \/ loop = "run" /\ loop' = "idle" /\ pipe' = 0 /\ UNCHANGED <<funcs, taken>>
  /\ UNCHANGED <<posting, treeVars, windowVars, did>>
RunQueue ==
  /\ \/ loop = "idle" /\ taken = <<>> /\ pipe > 0 /\ loop' = "run" /\ pipe' = 0 /\ UNCHANGED <<funcs, taken>>
     \/ /\ loop = "run" /\ loop' = "idle"
        /\ taken' = funcs /\ funcs' = <<>> /\ UNCHANGED pipe
  /\ UNCHANGED <<posting, treeVars, windowVars, did>>

-----------------------------------------------------------------------------
(* Closing.                                                                 *)

RunningNow == {j \in Job : job[j] = "Running"}

CloseWindow ==
  /\ window' = "closed" /\ dialog' = NoDialog
  /\ lost' = IF skipped THEN {} ELSE RunningNow

(* onCloseRequest: it closes, or it asks (with the dialog that is open).     *)
CloseRequest ==
  IF confirmed \/ Unfinished = {}
  THEN CloseWindow /\ UNCHANGED <<countdown, confirmed, typed>>
  ELSE /\ dialog' = IF dialog.open THEN dialog ELSE [NoDialog EXCEPT !.open = TRUE]
       /\ UNCHANGED <<window, countdown, confirmed, typed, lost>>

(* The next function of the taken.                                           *)
RunFunction ==
  /\ taken # <<>> /\ loop = "idle" /\ taken' = Tail(taken)
  /\ IF Head(taken) = "close" /\ window = "open" THEN CloseRequest ELSE UNCHANGED windowVars
  /\ UNCHANGED <<funcs, pipe, posting, loop, treeVars, did>>

(* Between the functions: what GTK calls itself.                             *)
Between == loop = "idle" /\ taken = <<>> /\ window = "open"

User == Between /\ did < MaxEvents /\ did' = did + 1 /\ UNCHANGED queueVars

CloseButton == User /\ ~dialog.open /\ CloseRequest /\ UNCHANGED treeVars
Answer ==
  /\ User /\ dialog.open /\ ~dialog.finished
  /\ dialog' = [dialog EXCEPT !.answered = TRUE] /\ typed' = TRUE
  /\ UNCHANGED <<treeVars, window, countdown, confirmed, lost>>
CancelButton == User /\ dialog.open /\ dialog' = NoDialog /\ typed' = FALSE
                /\ UNCHANGED <<treeVars, window, countdown, confirmed, lost>>
Terminate ==
  /\ User /\ dialog.open /\ (dialog.finished \/ dialog.answered)
  /\ confirmed' = TRUE /\ CloseWindow
  /\ UNCHANGED <<treeVars, countdown, typed>>
StayOpen == User /\ ~dialog.open /\ countdown' = [countdown EXCEPT !.stay = TRUE]
            /\ UNCHANGED <<treeVars, window, dialog, confirmed, typed, lost>>

(* The operations, not below the dialog, which is modal: Run and Skip.       *)
UserRuns(j) ==
  /\ User /\ ~dialog.open /\ job[j] # "Running" /\ job' = [job EXCEPT ![j] = "Running"]
  /\ UNCHANGED <<skipped, windowVars>>
UserSkips ==
  /\ User /\ ~dialog.open /\ ~skipped /\ RunningNow = {} /\ skipped' = TRUE
  /\ UNCHANGED <<job, windowVars>>

(* The timers.                                                              *)
UpdateDialog ==
  /\ Between /\ dialog.open /\ dialog' = [dialog EXCEPT !.finished = Unfinished = {}]
  /\ UNCHANGED <<queueVars, treeVars, window, countdown, confirmed, typed, lost, did>>

(* countdown.tick; -1 is "no countdown".  Mistake: it goes on when the root  *)
(* is started again.                                                         *)
TickGoesOn(c, finished) ==
  IF c.stay \/ (~finished /\ ~c.counting) THEN [c EXCEPT !.counting = FALSE]
  ELSE [c EXCEPT !.counting = TRUE, !.left = IF c.counting THEN @ - 1 ELSE ExitDelay]
Tick(c, finished) ==
  IF c.stay \/ ~finished THEN [c EXCEPT !.counting = FALSE]
  ELSE [c EXCEPT !.counting = TRUE, !.left = IF c.counting THEN @ - 1 ELSE ExitDelay]

FinishBanner ==
  /\ Between /\ countdown' = Tick(countdown, RootFinished)
  /\ IF countdown'.counting /\ countdown'.left = 0
     THEN confirmed' = TRUE /\ CloseWindow
     ELSE UNCHANGED <<window, dialog, confirmed, lost>>
  /\ UNCHANGED <<queueVars, treeVars, typed, did>>

LoopNext ==
  /\ window = "open"
  /\ \/ \E p \in Poster : Post(p) \/ Wake(p)
     \/ \E j \in Job : StartJob(j) \/ JobEnds(j) \/ UserRuns(j)
     \/ RunQueue \/ RunFunction
     \/ CloseButton \/ Answer \/ CancelButton \/ Terminate \/ StayOpen \/ UserSkips
     \/ UpdateDialog \/ FinishBanner

LoopSpec == LoopInit /\ [][LoopNext]_loopVars

-----------------------------------------------------------------------------
(* A function in the queue is never forgotten: there is a byte in the pipe,  *)
(* or a goroutine is about to write one, or run is about to take it.         *)
NoLostWakeUp == funcs # <<>> => pipe > 0 \/ posting # {} \/ loop = "run"

(* The main window closes over a running process only when the user has      *)
(* typed the answer, whatever closes it: the button, a signal, the dialog    *)
(* that saw everything finished, the countdown.  (Not below a skipped group: *)
(* a node that the user runs there is not counted.)                          *)
ClosesSafely == lost # {} => typed
=============================================================================
