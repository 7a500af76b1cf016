---------------------------- MODULE Termination ----------------------------
(***************************************************************************)
(* How processes are stopped: the timeout of a node (timeout.go), the end  *)
(* of runtree (app.StopRunning: the local runner, local.go, and the remote *)
(* ones, terminate.go), a terminal that fails.  Of the tree, only what     *)
(* these read is here: the client and the starts of a node, and whether    *)
(* its status is active.  Grace periods have no length.                    *)
(***************************************************************************)
EXTENDS Session

CONSTANTS
  Nodes,      \* the run nodes
  Numbers,    \* the numbers of their starts, 1..n (bound)
  Attended    \* the user may still run nodes while runtree stops (SIGTERM in the GUI)

ASSUME TerminationAssumption ==
  /\ \A f \in Setups, n \in Nodes, j, k \in Numbers : f[<<n, j>>].runner = f[<<n, k>>].runner
  /\ Session = Nodes \X Numbers /\ Numbers \subseteq Nat \ {0} /\ Attended \in BOOLEAN

VARIABLES
  client,     \* Node.Client: the number of the start, 0 for nil
  starts,     \* Node.Starts
  starting,   \* Node.starting
  active,     \* StatusActive(Node.Status)
  timedOut,   \* Node.TimedOut
  te,         \* stopTimedOut of a session: "no", "ctrlc", then the next signal
  ex,         \* "running", "stopping" (StopRunning), "exited", "crashed"
  lpc, told,  \* localRunner.stop, and the servers it has still to terminate
  rpc, rsig, rnodes  \* TerminateRemote, its signal, and the nodes it has listed

treeVars == <<client, starts, starting, active, timedOut>>
exitVars == <<ex, lpc, told, rpc, rsig, rnodes>>
vars == <<sessionVars, treeVars, te, exitVars>>

Remote(n) == \A k \in Numbers : <<n, k>> \notin Local
Alive(n)  == client[n] # 0 /\ last[<<n, client[n]>>] = "alive"

Init ==
  /\ SessionInit
  /\ client = [n \in Nodes |-> 0] /\ starts = [n \in Nodes |-> 0]
  /\ starting = [n \in Nodes |-> FALSE] /\ active = [n \in Nodes |-> FALSE]
  /\ timedOut = [n \in Nodes |-> FALSE]
  /\ te = [s \in Session |-> "no"]
  /\ ex = "running" /\ lpc = "idle" /\ told = {} /\ rpc = "idle" /\ rsig = "INT" /\ rnodes = {}

-----------------------------------------------------------------------------
(* The tree.                                                                *)

Running == ex \in {"running", "stopping"}

(* Node.Start, by the scheduler or by the user.  (Bounds, not in the code: a  *)
(* second start comes while stopTimedOut of the first one goes on, or between *)
(* the two looks of TerminateRemote; and unless "overlap" is chosen, when the *)
(* session of the first one, whose end the tree sees two seconds before, is  *)
(* over on both ends.)                                                       *)
Over(s) == srv[s] \in {"none", "gone"} /\ rx[s] \in {"off", "done"}

Start(n) ==
  /\ ex = "running" \/ (ex = "stopping" /\ Attended)
  /\ ~active[n] /\ starts[n] + 1 \in Numbers
  /\ starts[n] > 0 => "rerun" \in setup[<<n, starts[n] + 1>>].may
       /\ (te[<<n, starts[n]>>] # "no" \/ rpc = "send")
       /\ ("overlap" \in setup[<<n, starts[n] + 1>>].may \/ Over(<<n, starts[n]>>))
  /\ starts' = [starts EXCEPT ![n] = @ + 1]
  /\ client' = [client EXCEPT ![n] = 0]
  /\ starting' = [starting EXCEPT ![n] = TRUE]
  /\ active' = [active EXCEPT ![n] = TRUE]
  /\ timedOut' = [timedOut EXCEPT ![n] = FALSE]
  /\ cl' = [cl EXCEPT ![<<n, starts[n] + 1>>] = "dialing"]
  /\ UNCHANGED <<procVars, srvVars, netVars, rx, tm, last, closed, broken, mixed, te, exitVars>>

(* connect, with the tree lock.                                              *)
Connected(n) ==
  /\ Running /\ starting[n] /\ cl[<<n, starts[n]>>] \in {"refused", "up"}
  /\ starting' = [starting EXCEPT ![n] = FALSE]
  /\ client' = IF cl[<<n, starts[n]>>] = "up" THEN [client EXCEPT ![n] = starts[n]] ELSE client
  /\ active' = [active EXCEPT ![n] = cl[<<n, starts[n]>>] = "up" /\ last[<<n, starts[n]>>] = "alive"]
  /\ UNCHANGED <<sessionVars, starts, timedOut, te, exitVars>>

(* procStateChanged, or a cycle of the scheduler: the status of the node is  *)
(* that of its process, or a failure when its terminal failed.               *)
StateSeen(n) ==
  /\ Running /\ client[n] # 0
  /\ active[n] # (Alive(n) /\ ~closed[<<n, client[n]>>])
  /\ active' = [active EXCEPT ![n] = ~@]
  /\ UNCHANGED <<sessionVars, client, starts, starting, timedOut, te, exitVars>>

(* TerminalFailed, before the terminal attached.                             *)
TerminalFailed(n) ==
  /\ Running /\ client[n] # 0 /\ "terminal" \in setup[<<n, client[n]>>].may /\ tm[<<n, client[n]>>] = "accept"
  /\ Close(<<n, client[n]>>)
  /\ UNCHANGED <<treeVars, te, exitVars>>

-----------------------------------------------------------------------------
(* Timeouts.                                                                *)

CheckTimeout(n) ==
  /\ ex = "running" /\ active[n] /\ Alive(n) /\ "timeout" \in setup[<<n, client[n]>>].may /\ ~timedOut[n]
  /\ timedOut' = [timedOut EXCEPT ![n] = TRUE]
  /\ te' = [te EXCEPT ![<<n, client[n]>>] = "ctrlc"]
  /\ UNCHANGED <<sessionVars, client, starts, starting, active, exitVars>>

TypeCtrlC(s) ==
  /\ Running /\ te[s] = "ctrlc"
  /\ te' = [te EXCEPT ![s] = "TERM"]
  /\ typed' = [typed EXCEPT ![s] = up[s]]
  /\ UNCHANGED <<procVars, srvVars, up, toClient, toServer, cliVars, treeVars, exitVars>>

(* The end of a grace period of stopTimedOut: it goes on while its client is  *)
(* the one of the node, and the process lives.                                *)
GraceOver(s) ==
  /\ Running /\ te[s] \in {"TERM", "KILL"}
  /\ te' = [te EXCEPT ![s] = IF client[s[1]] = s[2] /\ Alive(s[1])
                             THEN IF @ = "TERM" THEN "send TERM" ELSE "send KILL"
                             ELSE "done"]
  /\ UNCHANGED <<sessionVars, treeVars, exitVars>>

NextGrace(s) ==
  te' = [te EXCEPT ![s] = IF @ = "send TERM" THEN "KILL" ELSE "done"]

(* Mistake: the client of the node is not compared again.                     *)
SendToNode(s) ==
  /\ Running /\ te[s] \in {"send TERM", "send KILL"}
  /\ NextGrace(s)
  /\ LET n == s[1]
     IN  SendSignals(IF Alive(n) THEN {<<n, client[n]>>} ELSE {},
                     IF te[s] = "send TERM" THEN "TERM" ELSE "KILL")
  /\ UNCHANGED <<procVars, srvVars, up, toClient, typed, cliVars, treeVars, exitVars>>

(* ... and the signal, with the tree lock taken again.                        *)
SendTimeoutSignal(s) ==
  /\ Running /\ te[s] \in {"send TERM", "send KILL"}
  /\ NextGrace(s)
  /\ LET n == s[1]
     IN  SendSignals(IF client[n] = s[2] /\ Alive(n) THEN {s} ELSE {},
                     IF te[s] = "send TERM" THEN "TERM" ELSE "KILL")
  /\ UNCHANGED <<procVars, srvVars, up, toClient, typed, cliVars, treeVars, exitVars>>

-----------------------------------------------------------------------------
(* The end of runtree.                                                      *)

StopRunning ==
  /\ (\E s \in Session : "exit" \in setup[s].may) /\ ex = "running"
  /\ ex' = "stopping" /\ lpc' = "begin" /\ rpc' = "starting"
  /\ UNCHANGED <<sessionVars, treeVars, te, told, rsig, rnodes>>

Stopped == lpc \notin {"idle", "begin"}   \* localRunner.stopped

(* localRunner.dial and the dial of the others.                              *)
Dials(s) ==
  /\ Running
  /\ Dial(s, s \in Local => ~Stopped)
  /\ UNCHANGED <<treeVars, te, exitVars>>

Serving(s) == srv[s] \notin {"none", "gone"}

(* Mistake: the servers that have no process yet are left out.               *)
StopProcesses ==
  /\ ex = "stopping" /\ lpc = "begin"
  /\ told' = {s \in Local : Serving(s) /\ registered[s]}
  /\ lpc' = IF told' = {} THEN "all" ELSE "told"
  /\ UNCHANGED <<sessionVars, treeVars, te, ex, rpc, rsig, rnodes>>

(* stop: no connection is taken any more; the servers are terminated; it     *)
(* waits until they have returned.                                           *)
StopLocal ==
  /\ ex = "stopping" /\ lpc = "begin"
  /\ told' = {s \in Local : Serving(s)}
  /\ lpc' = IF told' = {} THEN "all" ELSE "told"
  /\ UNCHANGED <<sessionVars, treeVars, te, ex, rpc, rsig, rnodes>>

TerminateLocal(s) ==
  /\ ex = "stopping" /\ lpc = "told" /\ s \in told
  /\ told' = told \ {s}
  /\ Terminate(s)
  /\ UNCHANGED <<treeVars, te, ex, lpc, rpc, rsig, rnodes>>

AllReturned ==
  /\ ex = "stopping" /\ lpc = "told" /\ told = {} /\ \A s \in Local : ~Serving(s)
  /\ lpc' = "all"
  /\ UNCHANGED <<sessionVars, treeVars, te, ex, told, rpc, rsig, rnodes>>

(* The timeout of stop is longer than the grace periods, and a start takes no *)
(* such time.                                                                *)
StopLocalTimeout ==
  /\ ex = "stopping" /\ lpc = "told" /\ told = {} /\ \E s \in Local : Serving(s)
  /\ \A s \in Local : esc[s] \notin Signal /\ srv[s] \notin {"dialed", "launch", "launched"}
  /\ lpc' = "late"
  /\ UNCHANGED <<sessionVars, treeVars, te, ex, told, rpc, rsig, rnodes>>

(* TerminateRemote: first the nodes that connect ...                         *)
RemoteStarted ==
  /\ ex = "stopping" /\ rpc = "starting"
  /\ rpc' = "list"
  /\ UNCHANGED <<sessionVars, treeVars, te, ex, lpc, told, rsig, rnodes>>

(* ... then it lists the nodes whose processes run, ...                      *)
ListRemote ==
  /\ ex = "stopping" /\ rpc = "list"
  /\ rnodes' = {n \in Nodes : Remote(n) /\ active[n] /\ Alive(n)}
  /\ rpc' = IF rnodes' = {} THEN "done" ELSE "send"
  /\ UNCHANGED <<sessionVars, treeVars, te, ex, lpc, told, rsig>>

(* ... and signals them with the tree lock taken again.  A node that has lost *)
(* its client meanwhile ends the program: the client is nil.                 *)
SignalRemote ==
  /\ ex = "stopping" /\ rpc = "send"
  /\ \A n \in rnodes : client[n] # 0
  /\ SendSignals({<<n, client[n]>> : n \in {m \in rnodes : Alive(m)}}, rsig)
  /\ rpc' = "grace" /\ rnodes' = {}
  /\ UNCHANGED <<procVars, srvVars, up, toClient, typed, cliVars, treeVars, te, ex, lpc, told, rsig>>

(* A grace period ends when all exits are seen, or with its time.            *)
RemoteGraceOver ==
  /\ ex = "stopping" /\ rpc = "grace"
  /\ \/ (\A n \in Nodes : Remote(n) => ~(active[n] /\ client[n] # 0)) /\ rpc' = "done" /\ UNCHANGED rsig
     \/ rsig = "KILL" /\ rpc' = "done" /\ UNCHANGED rsig
     \/ rsig # "KILL" /\ rpc' = "list" /\ rsig' = After[rsig]
  /\ UNCHANGED <<sessionVars, treeVars, te, ex, lpc, told, rnodes>>

(* The program is gone, with its goroutines and its ends of the connections. *)
Gone(e) ==
  /\ ex' = e
  /\ up' = [s \in Session |-> FALSE]
  /\ srv' = [s \in Session |-> IF s \in Local /\ srv[s] # "none" THEN "gone" ELSE srv[s]]
  /\ esc' = [s \in Session |-> IF s \in Local THEN "done" ELSE esc[s]]
  /\ rc'  = [s \in Session |-> IF s \in Local THEN "done" ELSE rc[s]]
  /\ out' = [s \in Session |-> IF s \in Local THEN "done" ELSE out[s]]
  /\ inp' = [s \in Session |-> IF s \in Local THEN "done" ELSE inp[s]]
  /\ rx'  = [s \in Session |-> "done"]
  /\ tm'  = [s \in Session |-> "done"]
  /\ toClient' = All(<<>>)
  /\ toServer' = [s \in Session |-> IF s \in Local THEN <<>> ELSE toServer[s]]
  /\ UNCHANGED <<procVars, registered, terminating, typed, cl, last, closed, broken, mixed, treeVars, te, lpc, told, rpc, rsig, rnodes>>

ExitProgram == ex = "stopping" /\ lpc \in {"all", "late"} /\ rpc = "done" /\ Gone("exited")
Crash == ex = "stopping" /\ rpc = "send" /\ (\E n \in rnodes : client[n] = 0) /\ Gone("crashed")

-----------------------------------------------------------------------------
ExitStep ==
  \/ StopLocal \/ AllReturned \/ StopLocalTimeout \/ RemoteStarted \/ ListRemote \/ SignalRemote
  \/ RemoteGraceOver \/ ExitProgram \/ Crash
  \/ \E s \in Session : TerminateLocal(s)

SessionStep(s) ==
  /\ \/ ServerStep(s)
     \/ Running /\ ClientStep(s)
  /\ UNCHANGED <<treeVars, te, exitVars>>

Environment(s) ==
  /\ \/ Exit(s) \/ RestExits(s) \/ ConnectionLost(s) \/ OutputEnds(s)
     \/ Running /\ (Attach(s) \/ AcceptFails(s))
  /\ UNCHANGED <<treeVars, te, exitVars>>

TimeoutStep(s) == TypeCtrlC(s) \/ GraceOver(s) \/ SendTimeoutSignal(s)

Next ==
  \/ \E n \in Nodes :
       Start(n) \/ Connected(n) \/ StateSeen(n) \/ TerminalFailed(n) \/ CheckTimeout(n)
  \/ \E s \in Session : Dials(s) \/ SessionStep(s) \/ Environment(s) \/ TimeoutStep(s)
  \/ StopRunning \/ ExitStep

Spec == Init /\ [][Next]_vars

(* What goes on by itself: goroutines that can go on, the tree lock for      *)
(* whoever waits for it, and the ends of grace periods.  A process need not  *)
(* exit by itself: only one that got SIGKILL does.                           *)
Goroutine ==
  \/ ExitStep
  \/ \E n \in Nodes : Connected(n) \/ StateSeen(n)
  \/ \E s \in Session :
       \/ Dials(s) \/ SessionStep(s) \/ TimeoutStep(s)
       \/ /\ \/ got[s] = "KILL" /\ (Exit(s) \/ RestExits(s))
             \/ OutputOver(s) /\ OutputEnds(s)
          /\ UNCHANGED <<treeVars, te, exitVars>>

(* No step can be taken twice, every behaviour comes to a rest: so it is     *)
(* enough to say that it does not while any of these can go on.              *)
FairSpec == Spec /\ WF_vars(Goroutine)

-----------------------------------------------------------------------------
(* The tree sees of a process what Process promises: a success only after    *)
(* the process succeeded, and one end that is final, unless its terminal     *)
(* could not be accepted: that failure may be taken back.                    *)
ImplementsProcess == Promised!Spec

(* A signal reaches the process it is meant for: a process gets one only     *)
(* because its own start timed out, its server terminates it, or runtree     *)
(* ends its remote processes; never that of an earlier start of the node.    *)
SignalsMeant ==
  \A s \in Session : got[s] # "no" =>
    te[s] # "no" \/ esc[s] # "no" \/ (s \notin Local /\ rpc # "idle")

(* "No process can be started afterwards" (local.go:93): when stop tells that *)
(* all servers returned, no local process runs or will ever run.             *)
LocalQuiet ==
  lpc = "all" => \A s \in Local : ~Serving(s) /\ proc[s] # "alive"

(* What must stop stops, also if it ignores SIGINT and SIGTERM: a process     *)
(* that timed out, whose terminal failed, that Terminate was called for (also *)
(* before it was registered), and every process when runtree has exited.     *)
(* (A crash leaves the local processes to the SIGHUP of their terminals.)     *)
MustStop(s) == te[s] # "no" \/ closed[s] \/ terminating[s] \/ ~Running
StopsWhenTold ==
  <>[](\A s \in Session : MustStop(s) => proc[s] # "alive" \/ (ex = "crashed" /\ s \in Local))

(* The output of a process that ended for the tree ends too, and is closed    *)
(* (what waits for it goes on), when a terminal has attached or none is used. *)
OutputIsClosed ==
  <>[](\A s \in Session : tm[s] = "copy" /\ last[s] # "alive" => mixed[s])

(* The tree learns of the end of every process: the exit status comes, or     *)
(* the failure to receive it shows.  (When its terminal could not be accepted *)
(* the tree may see the process alive again, and never its end; a client that *)
(* the tree closed is not asked.)                                            *)
ExitIsReported ==
  <>[](\A s \in Session :
         Running /\ proc[s] \in {"ok", "err"} /\ cl[s] = "up" => last[s] # "alive" \/ closed[s] \/ broken[s])

-----------------------------------------------------------------------------
(* What the documents say, and does not hold.                               *)

(* A runner "reports the exit status" (docs/runners.md:4): without a failure  *)
(* of the connection, a process that succeeds is not seen failing.           *)
ExitStatusTold ==
  \A s \in Session : Running /\ "loss" \notin setup[s].may /\ proc[s] = "ok" /\ cl[s] = "up" => last[s] # "err" \/ closed[s]

(* A node is running "while its process runs" (docs/execution.md:44), when it *)
(* is connected to it and was told of it.                                    *)
ShownRunning ==
  \A n \in Nodes : LET s == <<n, client[n]>> IN
    Running /\ client[n] # 0 /\ ~starting[n] /\ up[s] /\ proc[s] = "alive" => active[n]

(* The output "is closed after the end of the output" (client.go:109), also   *)
(* when no terminal has attached.                                            *)
EveryOutputIsClosed == <>[](\A s \in Session : closed[s] => tm[s] = "done")

(* When runtree exits, "it waits until they exit" (docs/runners.md:140).     *)
ExitWaits == ~Running => rpc = "done" /\ lpc \in {"all", "late"}

(* "The rtrunner terminates the rest of their process group when runtree      *)
(* disconnects" (docs/runners.md:142): when the session of a remote process   *)
(* that was told to end is over, nothing of its group is left.                *)
RestTerminated ==
  \A s \in Session \ Local :
    ex = "exited" /\ got[s] # "no" /\ srv[s] = "gone" /\ esc[s] \in {"no", "done"} => ~rest[s]
=============================================================================
