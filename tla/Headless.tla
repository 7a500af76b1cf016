------------------------------ MODULE Headless ------------------------------
(***************************************************************************)
(* What runtree-headless does with the output and the events of a run      *)
(* (internal/headless): the processes write to the console and to the log  *)
(* database, and Run waits for the end of the run, and for what is still   *)
(* on its way, before it closes the two.                                   *)
(***************************************************************************)
EXTENDS Console, LogDatabase

CONSTANT Runs   \* the runs: --output, whether there is --log-db, and the outputs of the starts, each
                \* the sequence of what the client reads at once

VARIABLES
  text,     \* the outputs of this run
  logging,  \* it has a log database
  reads,    \* how many reads of the output of a start there were
  status,   \* of the node of a start: "waiting", "running", "success", "failed"
  phase,    \* Run: "run", "stopping", "waiting", "finishing", "closing", "done"
  late,     \* history: Run did not wait for everything that was on its way
  torn      \* history: after how many bytes a line of a start was shown that had not ended

runVars      == <<text, logging, reads, status, phase, late, torn>>
headlessVars == <<consoleVars, logVars, runVars>>

HeadlessInit ==
  /\ ConsoleInit /\ LogInit(Start)
  /\ \E r \in Runs : mode = r.output /\ text = r.text /\ logging = r.log
  /\ reads = [s \in Start |-> 0] /\ status = [s \in Start |-> "waiting"]
  /\ phase = "run" /\ late = FALSE /\ torn = [s \in Start |-> {}]

Sent(s) == FlattenSeq(SubSeq(text[s], 1, reads[s]))

-----------------------------------------------------------------------------
(* The processes.                                                           *)

(* The event goes to the handler of the log database too.                    *)
Log(e) == IF logging THEN LogEvent(e) ELSE UNCHANGED logVars

Begin(s) ==
  /\ phase = "run" /\ status[s] = "waiting" /\ s \in DOMAIN text
  /\ status' = [status EXCEPT ![s] = "running"]
  /\ NodeOutput(s) /\ Log(<<s, "started">>)
  /\ UNCHANGED <<text, logging, reads, phase, late, torn>>

(* multiWriter.Write: first the console, and then the log database, where    *)
(* it may have to wait; the client reads no more before both are done.       *)
Output(s) ==
  /\ lw[s].opened /\ ~lw[s].closed /\ reads[s] < Len(text[s]) /\ writing[s] = <<>>
  /\ reads' = [reads EXCEPT ![s] = @ + 1]
  /\ LET bytes == text[s][reads[s] + 1] IN
       /\ WriteConsole(s, bytes)
       /\ IF logging THEN WriteLog(s, bytes) ELSE UNCHANGED logVars
  /\ UNCHANGED <<text, logging, status, phase, late, torn>>

(* The end of the output, or of the connection: the client closes it.        *)
OutputEnds(s) ==
  /\ lw[s].opened /\ ~lw[s].closed /\ writing[s] = <<>>
  /\ CloseConsole(s)
  /\ UNCHANGED <<logVars, runVars>>

(* A line that has not ended for a while is written.                         *)
FlushOutput(s) ==
  /\ Flush(s)
  /\ torn' = [torn EXCEPT ![s] = IF lw[s].line # <<>> THEN @ \cup {Len(Sent(s))} ELSE @]
  /\ UNCHANGED <<logVars, text, logging, reads, status, phase, late>>

(* The exit status: the node gets its status, and the change is logged.  The *)
(* handler has the tree lock, that the end of Run has too.                   *)
Exits(s) ==
  /\ phase \notin {"finishing"} /\ status[s] = "running"
  /\ \E r \in {"success", "failed"} :
       status' = [status EXCEPT ![s] = r] /\ Finished(s, r = "failed")
  /\ Log(<<s, "exited">>)
  /\ UNCHANGED <<text, logging, reads, phase, late, torn>>

-----------------------------------------------------------------------------
(* Run.                                                                     *)

(* The tree has ended, or a signal came.                                     *)
RunEnds ==
  /\ phase = "run" /\ phase' = "stopping"
  /\ UNCHANGED <<consoleVars, logVars, text, logging, reads, status, late, torn>>

(* StopRunning returns: the processes have exited, or their time is over.    *)
Stopped ==
  /\ phase = "stopping" /\ phase' = "waiting"
  /\ late' = (late \/ \E s \in Start : status[s] = "running")
  /\ UNCHANGED <<consoleVars, logVars, text, logging, reads, status, torn>>

(* console.wait, with the time it has.                                       *)
Waited ==
  /\ phase = "waiting" /\ phase' = "finishing"
  /\ late' = (late \/ ~AllClosed)
  /\ UNCHANGED <<consoleVars, logVars, text, logging, reads, status, torn>>

FinishAll ==
  /\ phase = "finishing"
  /\ \E s \in Start : DecideRest(s, status[s] = "failed") \/ WritePending(s)
  /\ UNCHANGED <<logVars, runVars>>

(* The deferred calls: the tree is unlocked, and the log database closed.    *)
Close ==
  /\ phase = "finishing" /\ writers = {} /\ pending = {} /\ phase' = "closing"
  /\ IF logging THEN CloseLog ELSE UNCHANGED logVars
  /\ UNCHANGED <<consoleVars, text, logging, reads, status, late, torn>>

Exit ==
  /\ phase = "closing" /\ (logging => LogClosed) /\ phase' = "done"
  /\ UNCHANGED <<consoleVars, logVars, text, logging, reads, status, late, torn>>

-----------------------------------------------------------------------------
LogSteps ==
  /\ \/ \E e \in adding : PutEvent(e)
     \/ \E s \in Start : PutChunk(s)
     \/ Writer
  /\ UNCHANGED <<consoleVars, runVars>>

HeadlessNext ==
  /\ phase # "done"
  /\ \/ \E s \in Start : Begin(s) \/ Output(s) \/ OutputEnds(s) \/ Exits(s)
     \/ \E s \in Start : FlushOutput(s)
     \/ RunEnds \/ Stopped \/ Waited \/ FinishAll \/ Close \/ Exit
     \/ LogSteps

HeadlessSpec == HeadlessInit /\ [][HeadlessNext]_headlessVars

(* The goroutines of runtree go on; the processes need not.                  *)
HeadlessFairness ==
  /\ WF_headlessVars(phase # "done" /\ LogSteps)
  /\ WF_headlessVars(Stopped \/ Waited \/ FinishAll \/ Close \/ Exit)

-----------------------------------------------------------------------------
(* When Run returns, and all that was on its way came in time: the output of *)
(* every start is in the log database, with the events that were logged, and *)
(* the console has shown it as --output says: each of its lines once and in  *)
(* one piece, in their order, but for those that were shown before they had  *)
(* ended; of the failed starts together, and nothing of the others.          *)
EndIsComplete ==
  phase = "done" /\ ~late =>
    \A s \in Start : status[s] # "waiting" =>
      /\ logging /\ ~failed => SavedOutput(s) = Sent(s)
      /\ CASE mode = "all" -> ShownAll(s, Sent(s), torn[s])
           [] mode = "failed" /\ status[s] = "failed" -> ShownAll(s, Sent(s), torn[s]) /\ ShownTogether(s)
           [] OTHER -> ShownOf(s) = <<>>

(* Once the run ended, or a signal came, runtree-headless exits, whatever    *)
(* its processes and their output do.                                        *)
HeadlessExits == phase # "run" ~> phase = "done"
=============================================================================
