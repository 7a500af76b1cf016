------------------------------ MODULE RunTree ------------------------------
(***************************************************************************)
(* The whole run tree (internal/rt): the scheduler, the operations of the  *)
(* user, the goroutines that connect to the runners, and the processes     *)
(* with their notifications.  The runners themselves are the environment:  *)
(* a start is refused or gives a process, and the process exits.           *)
(***************************************************************************)
EXTENDS Scheduler

CONSTANTS
  MaxOps,    \* bound: operations of the user
  MayKeep,   \* the provided resources that the user may keep at a reset or a run
  Terminals, \* bound: the nodes whose terminal (GUI) is not created at once
  MayExit    \* runtree may exit, which stops the scheduler

VARIABLES
  conns,     \* the connect goroutines: <<n, k>> of start k of node n
  notify,    \* the nodes with a call of procStateChanged on its way
  terms,     \* the terminals that the GUI is still to create: <<n, k>>
  closing,   \* the clients that TerminalFailed is about to close: <<n, k>>
  ops        \* operations so far

goVars == <<conns, notify, terms, closing>>
vars   == <<nodeVars, startVars, proc, lockVars, blocked, agenda, endVars, goVars, ops>>

(* Without operations a node starts once, and an operation makes it start once *)
(* more at most: the bound of the starts holds no node back.                  *)
ASSUME BoundAssumption ==
  /\ MaxOps \in Nat /\ MaxStarts \in Nat /\ MaxOps < MaxStarts /\ MayKeep \subseteq Resource
  /\ Terminals \subseteq RunNode /\ MayExit \in BOOLEAN

(* What can be on the agenda.                                                *)
Frame ==
  [do : {"status", "mark"}, node : Node]
  \cup [do : {"blocked", "pick"}]
  \cup [do : {"sibling"}, node : Node, op : {"Skip", "Freeze"}]
  \cup [do : {"op"}, node : Node, op : Op, rec : BOOLEAN, sub : BOOLEAN]
  \cup [do : {"done"}, node : Node, sub : BOOLEAN, changed : BOOLEAN]
  \cup [do : {"end"}, node : Node, op : Op, before : SUBSET Node, keep : SUBSET Resource,
        failed : BOOLEAN]
  \cup [do : {"settle"}, before : [Node -> Status] \X (SUBSET Node) \X Nat \X Nat \X Nat]

TypeOK ==
  /\ status \in [Node -> Status] /\ manual \in [Node -> Status]
  /\ held \in [Node -> {"Waiting", "Frozen", "Skipped"}]
  /\ want \in [Node -> BOOLEAN] /\ starting \in [Node -> BOOLEAN]
  /\ startErr \in [Node -> BOOLEAN] /\ timedOut \in [Node -> BOOLEAN]
  /\ nproc \in [Node -> Int]
  /\ starts \in [Node -> 0..MaxStarts] /\ client \in [Node -> 0..MaxStarts]
  /\ proc \in [Node -> [Start -> ProcState]]
  /\ xby \in [Lock -> Node \cup {None}] /\ rby \in [Lock -> Node \cup {None}]
  /\ provided \subseteq Resource /\ blocked \subseteq Node
  /\ halted \in BOOLEAN /\ ended \in {"no", "finished", "stopped"}
  /\ conns \subseteq RunNode \X Start /\ terms \subseteq RunNode \X Start
  /\ closing \subseteq RunNode \X Start /\ notify \subseteq RunNode
  /\ ops \in 0..MaxOps /\ agenda \in Seq(Frame)

Init ==
  /\ status = [n \in Node |-> IF n \in FrozenInFile THEN "Frozen" ELSE "Waiting"]
  /\ held = [n \in Node |-> IF n \in FrozenInFile \ RunNode THEN "Frozen" ELSE "Waiting"]
  /\ want = [n \in Node |-> FALSE] /\ manual = [n \in Node |-> "Waiting"]
  /\ nproc = [n \in Node |-> 0]
  /\ starting = [n \in Node |-> FALSE] /\ startErr = [n \in Node |-> FALSE]
  /\ timedOut = [n \in Node |-> FALSE]
  /\ starts = [n \in Node |-> 0] /\ client = [n \in Node |-> 0]
  /\ proc = [n \in Node |-> [k \in Start |-> "none"]]
  /\ xby = [r \in Lock |-> None] /\ rby = [r \in Lock |-> None]
  /\ provided = {} /\ blocked = {}
  /\ halted = FALSE /\ ended = "no"
  /\ conns = {} /\ notify = {} /\ terms = {} /\ closing = {}
  /\ agenda = <<>> /\ ops = 0

-----------------------------------------------------------------------------
(* Outside the tree lock.                                                   *)

SetProc(n, k, s) == proc' = [proc EXCEPT ![n][k] = s]

treeVars == <<nodeVars, startVars, lockVars, blocked, agenda, endVars, ops>>

(* connect, before it takes the lock: NewClient and StartPty.                *)
Connect(n, k) ==
  /\ proc[n][k] = "connecting"
  /\ \/ SetProc(n, k, "refused") /\ UNCHANGED notify
     \/ SetProc(n, k, "alive") /\ notify' = notify \cup {n}
  /\ UNCHANGED <<treeVars, conns, terms, closing>>

(* The process exits by itself, by a signal, or with its connection.         *)
Exit(n, k) ==
  /\ proc[n][k] = "alive"
  /\ \E s \in {"ok", "err"} : SetProc(n, k, s)
  /\ notify' = notify \cup {n}
  /\ UNCHANGED <<treeVars, conns, terms, closing>>

(* The main gtk loop runs the functions of its queue and the operations of    *)
(* the user one after the other.  It is in TerminalFailed while it closes a   *)
(* client.                                                                   *)
MainLoopFree == closing = {}

(* It creates the terminal of a started process (AfterPtyStarted).           *)
TerminalCreated(n, k) ==
  /\ MainLoopFree
  /\ <<n, k>> \in terms
  /\ terms' = terms \ {<<n, k>>}
  /\ UNCHANGED <<treeVars, proc, conns, notify, closing>>

(* Mistake in CloseClient: nobody is told when the process was gone already.  *)
CloseClientSilently(n, k) ==
  /\ <<n, k>> \in closing
  /\ closing' = closing \ {<<n, k>>}
  /\ IF proc[n][k] = "alive"
     THEN SetProc(n, k, "err") /\ notify' = notify \cup {n}
     ELSE UNCHANGED <<proc, notify>>
  /\ UNCHANGED <<treeVars, conns, terms>>

(* The end of TerminalFailed: c.Close(), the process is gone for runtree.  The *)
(* client says so first with exit code 0, then with an error.                *)
CloseClient(n, k) ==
  /\ <<n, k>> \in closing
  /\ closing' = closing \ {<<n, k>>}
  /\ IF proc[n][k] = "alive" THEN \E s \in {"ok", "err"} : SetProc(n, k, s) ELSE UNCHANGED proc
  /\ notify' = notify \cup {n}
  /\ UNCHANGED <<treeVars, conns, terms>>

-----------------------------------------------------------------------------
(* Handlers: they take the tree lock.                                       *)

(* connect, with the lock.                                                   *)
Connected(n, k) ==
  /\ Idle
  /\ <<n, k>> \in conns /\ proc[n][k] # "connecting"
  /\ conns' = conns \ {<<n, k>>}
  /\ starting' = [starting EXCEPT ![n] = FALSE]
  /\ IF proc[n][k] = "refused"
     THEN startErr' = [startErr EXCEPT ![n] = TRUE] /\ UNCHANGED <<client, terms>>
     ELSE /\ client' = [client EXCEPT ![n] = k]
          /\ terms' = IF n \in Terminals THEN terms \cup {<<n, k>>} ELSE terms
          /\ UNCHANGED startErr
  /\ agenda' = Up(n)
  /\ UNCHANGED <<nodeVars, timedOut, starts, proc, lockVars, blocked, endVars, notify, closing, ops>>

(* There may be more than one call on its way (the start, the exit, the close  *)
(* of the client after it).                                                  *)
ProcStateChanged(n) ==
  /\ Idle
  /\ n \in notify
  /\ notify' \in {notify, notify \ {n}}
  /\ agenda' = Up(n)
  /\ UNCHANGED <<nodeVars, startVars, proc, lockVars, blocked, endVars, conns, terms, closing, ops>>

(* TerminalFailed sets the start error of the node, and takes its client.    *)
TerminalFailed(n, k) ==
  /\ Idle /\ MainLoopFree
  /\ <<n, k>> \in terms
  /\ terms' = terms \ {<<n, k>>}
  /\ startErr' = [startErr EXCEPT ![n] = TRUE]
  /\ closing' = IF client[n] = 0 THEN closing ELSE closing \cup {<<n, client[n]>>}
  /\ UNCHANGED <<nodeVars, starting, timedOut, starts, client, proc, lockVars, blocked, agenda,
                 endVars, conns, notify, ops>>

(* The user performs an operation on a node; it may keep resources provided. *)
UserOp(n, op, rec, keep) ==
  /\ Idle /\ MainLoopFree
  /\ ~Unattended /\ ops < MaxOps
  /\ op \in AllowedOps(n, rec)
  /\ ops' = ops + 1
  /\ PerformOp(n, op, rec, keep, <<>>)
  /\ UNCHANGED <<startVars, proc, lockVars, blocked, endVars, goVars>>

(* The calls on the agenda.  A start begins a connect goroutine.             *)
Started ==
  {s \in RunNode \X Start : proc[s[1]][s[2]] = "none" /\ proc'[s[1]][s[2]] = "connecting"}

Call ==
  /\ \/ (UpdateStatus \/ UpdateBlocked \/ OperationStep) /\ UNCHANGED endVars
     \/ Pick \/ CheckEnd \/ Settle
  /\ conns' = conns \cup Started
  /\ UNCHANGED <<notify, terms, closing, ops>>

Next ==
  \/ Call
  \/ (Schedule \/ (MayExit /\ StopScheduler) \/ Unblock) /\ UNCHANGED <<goVars, ops>>
  \/ \E n \in RunNode :
       \/ ProcStateChanged(n)
       \/ \E k \in Start :
            \/ Connect(n, k) \/ Exit(n, k) \/ Connected(n, k)
            \/ TerminalCreated(n, k) \/ TerminalFailed(n, k) \/ CloseClient(n, k)
  \/ \E n \in Node, op \in Op, rec \in BOOLEAN, keep \in SUBSET (provided \cap MayKeep) :
       (keep # {} => Unprovides(op)) /\ UserOp(n, op, rec, keep)

Spec == Init /\ [][Next]_vars

(* The HZ tick starts a cycle again and again, a handler finishes (nothing on *)
(* the agenda waits), the tree lock is given to every goroutine that waits for *)
(* it (a sync.RWMutex does not starve a writer), and a connection attempt has *)
(* an answer.  That every process exits some day is assumed of the processes. *)
FairSpec ==
  /\ Spec
  /\ WF_vars(Call) /\ SF_vars(Schedule /\ UNCHANGED <<goVars, ops>>)
  /\ \A n \in RunNode : \A k \in Start :
       /\ WF_vars(Connect(n, k)) /\ WF_vars(Exit(n, k))
       /\ SF_vars(Connected(n, k))

-----------------------------------------------------------------------------
(* NProc is changed one process at a time, on the way up from a run node; it *)
(* is the number of the run nodes below that are running.                    *)
NProcExact ==
  \A n \in Node : nproc[n] = Cardinality({m \in RunNode : n \in Above(m) /\ Active(status[m])})

(* The scheduler never exceeds max_proc, though nodes start one per cycle and *)
(* their processes come later, from other goroutines.                        *)
MaxProcRespected == \A n \in Node : MaxProc[n] >= 0 => nproc[n] <= MaxProc[n]

XHolders(r) == {n \in Node : HoldsLocks(status[n]) /\ r \in XLocks[n]}
RHolders(r) == {n \in Node : HoldsLocks(status[n]) /\ r \in RLocks[n]}

(* "While a node holds the lock, no other node can lock the same name", and   *)
(* the readers of a name are below one topmost node (docs/coordination.md).   *)
(* It is about what runs, not about the tables of the locks.                  *)
LocksExclude ==
  \A r \in Lock :
    /\ \A n \in XHolders(r) : XHolders(r) \cup RHolders(r) = {n}
    /\ \A n, m \in RHolders(r) : RLockRoot(n, r) = RLockRoot(m, r)

(* The table of the exclusive locks has no stale entry, not even inside a     *)
(* handler or after one that panicked: the holder is running or paused, and   *)
(* lists the name.                                                            *)
XLockHeld ==
  \A r \in Lock : xby[r] # None => HoldsLocks(status[xby[r]]) /\ r \in XLocks[xby[r]]

(* Between handlers, what is running or paused has its locks, recorded for    *)
(* itself or for the root of its rlock.                                       *)
LocksRecorded ==
  Idle => \A n \in Node : HoldsLocks(status[n]) =>
    /\ \A r \in XLocks[n] : xby[r] = n
    /\ \A r \in RLocks[n] : rby[r] = RLockRoot(n, r)

(* Nobody waits for an rlock that nobody uses: while it is recorded, a node   *)
(* below its root, or the root itself, lists it and is running or paused.     *)
RLockHeld ==
  Idle => \A r \in Lock : rby[r] # None => \E n \in RHolders(r) : RLockRoot(n, r) = rby[r]

(* acquireLocks does not panic (deplock.go:183, 194): whatever starts meanwhile *)
(* and in whatever order the way up is updated, a node that comes to hold its  *)
(* locks can have them all.                                                   *)
NoLockPanics ==
  [][\A n \in Node : ~HoldsLocks(status[n]) /\ HoldsLocks(status'[n]) =>
       XFree(n) = XLocks[n] /\ ROpen(n) = RLocks[n]]_vars

(* Below a seq node nothing runs out of order ...                             *)
SeqInOrder ==
  \A p \in Node : Kind[p] = "seq" =>
    \A i, j \in DOMAIN Kids[p] :
      i < j /\ Active(status[Kids[p][j]]) => Finished(status[Kids[p][i]])

(* ... and nothing is started behind a sub-node that failed, although a       *)
(* failed sub-node is finished and the scheduler goes on behind finished ones. *)
SeqStopsAtError ==
  \A p \in Node : Kind[p] = "seq" =>
    \A i, j \in DOMAIN Kids[p] : i < j /\ HasError(status[Kids[p][i]]) =>
      \A m \in RunNode : Kids[p][j] \in Above(m) => starts[m] = 0

(* What runs had everything it requires, itself and on every level above.     *)
RequiresMet ==
  \A n \in RunNode : Active(status[n]) => \A a \in Above(n) : Requires[a] \subseteq provided

(* A node that finished without error provides: whatever is reset or run again *)
(* in between, what it lists is provided (its consumers would wait forever).  *)
ProvidedComplete == Idle => \A n \in ProviderNodes : Provides[n] \subseteq provided

(* Nothing is provided that no finished node stands for: without operations,  *)
(* no consumer starts on what a failed or restarted node left behind.         *)
ProvidedBacked ==
  Idle => \A r \in provided : \E n \in ProviderNodes : r \in Provides[n]

(* A node has no process that runtree does not count: one that connects or    *)
(* lives is of the last start of its node, and the node is running; except    *)
(* for a process that is about to lose its client, after TerminalFailed.      *)
LiveIsRunning ==
  Idle => \A n \in RunNode, k \in Start : proc[n][k] \in {"connecting", "alive"} =>
            (status[n] = "Running" \/ <<n, k>> \in closing) /\ k = starts[n]

(* A node whose start failed, or whose terminal failed, shows it: TerminalFailed *)
(* does not update the status, it relies on the close of the client, also     *)
(* when the process is gone by then.                                          *)
StartFailedShows ==
  Idle => \A n \in RunNode :
    startErr[n] /\ ~starting[n] /\ n \notin notify /\ (\A k \in Start : <<n, k>> \notin closing) =>
      want[n] \/ Stays(n) \/ status[n] \in {OnErrorStatus(n), "Paused"}

(* A finished run node stays as it is until it is run again or reset: no late *)
(* notification, no timeout and no operation elsewhere changes it (only a     *)
(* terminal that fails after the end of the process does).                    *)
FinishedStays ==
  [][\A n \in RunNode : Finished(status[n]) /\ status'[n] # status[n] =>
       starting[n] \/ want[n] \/ (n \in Terminals /\ startErr[n])]_vars

(* The decision of the user about a paused group (Fail, Success) stands until  *)
(* the next operation (status.go:269), whatever its processes do meanwhile.   *)
DecisionStands ==
  [][\A n \in Node \ RunNode : want[n] /\ ~want'[n] =>
       \E i \in DOMAIN agenda' : agenda'[i].do = "end"]_vars

(* A node whose process was stopped for its timeout does not succeed, also    *)
(* when the process exits with a success code (unless on_error says so).      *)
TimedOutFails ==
  \A n \in RunNode : timedOut[n] /\ status[n] = "Success" => OnError[n] = "Success"

(* "The decision is deterministic" (unattended.go:49): after the end of an    *)
(* unattended run, cycles and late notifications change nothing anymore.      *)
EndIsFinal == [][ended # "no" => UNCHANGED <<status, starts, provided, ended>>]_vars

(* The end leaves no process behind, seen from the processes.                 *)
EndIsQuiet ==
  ended # "no" => \A n \in RunNode, k \in Start : proc[n][k] \notin {"connecting", "alive"}

(* An unattended run ends: it neither waits forever for a wake-up, nor goes   *)
(* round in cycles that change something (unless it is interrupted).          *)
RunEnds == <>(ended # "no" \/ halted)
=============================================================================
