# A specification of runtree

runtree runs a tree of processes: `seq` and `par` nodes group the `run` nodes, a
scheduler starts the run nodes when their turn has come, and statuses, locks,
provided resources, `max_proc`, timeouts and `on_error` coordinate them. The user
(GUI) may operate on nodes at any time; `runtree-headless` runs unattended.

This directory holds TLA+ modules of that core and of what is around it (the tree
files, the runner protocol, the end of a run, the output, the services of the GUI and
of the editor), configurations that TLC checks, and theorems that TLAPS checks. Line numbers refer to `src/`.

## 1. Inventory

| Component | State | Operations | What is hard | What makes it correct |
|---|---|---|---|---|
| tree and statuses (`rt/status.go`, `node.go`) | status, held, manual status, NProc, provided | updateStatusesDown / Up, calcRunStatus, calcParSeqStatus | updateStatus acquires locks, counts processes and operates on siblings in the middle of a walk | NProc is exact, seq order, a failed step stops its seq node |
| locks, resources (`rt/deplock.go`) | xAcquiredBy, rAcquiredBy, Blocked | acquire / release, updateBlocked, CanAcquireLocks | rlocks belong to the topmost node that lists them; acquiring may panic | exclusion, no stale entry, what runs has its locks |
| operations (`rt/op.go`, `reset.go`) | WantManualStatus, ManualStatus, held | run, skip, freeze, thaw, fail, success, reset (recursive or not), unprovide | they come between any two steps of a process; they recurse, start nodes and call updateStatus midway | a finished node stays, a decision stands, resources of finished nodes stay provided |
| scheduler (`rt/scheduler.go`, `timeout.go`) | stopped, TimedOut | schedule, checkTimeout, StopScheduler | starts one node per cycle; the process comes later | max_proc, requires, timed-out processes fail |
| unattended end (`rt/unattended.go`) | ended, end | checkEnd | a fixed point over statuses that follow each other a cycle later | it ends, once, with no process left |
| start, process notifications (`rt/run.go`) | starting, Client, StartError | Start, connect, procStateChanged, TerminalFailed | goroutines that take the lock long after the event they report | every living process is counted, a failed start shows |
| GUI main loop (`gtkui/mainqueue.go`, `runtreeapp.go`) | queue of functions, pipe | runOnMain, run, AfterPtyStarted, create terminal | functions run late, on a node that may have changed; a wake-up is one byte for many functions | as above; no function is forgotten |
| end of the GUI (`gtkui/closeconfirm.go`, `exitonfinish.go`) | dialog, countdown | close button, signal, Terminate, tick | nodes start again below an open dialog or countdown | the window does not close over a running process unasked |
| sizes of the terminals (`gtkui/nodeterminal.go`) | seen, wanted, sent size | checkTerminalSize, sendSize | goroutines that send run in any order | the last size wins |
| debouncer (`events/debouncer.go`) | map of flags | Call | check-then-act on a flag around an unlocked call | no call is lost, no entry leaks |
| termination at exit (`rt/terminate.go`, `app/app.go`) | - | TerminateRemote, StopRunning | signals, grace periods, clients that change between two locks | no process outlives runtree |
| runner client and server (`runner/client.go`, `server.go`) | last state, stop; process, terminating | StartPty, SendSignal, Close; start, Terminate | messages that cross a stop request, start against terminate | the exit status is final; a process gets its signals |
| local runner, upload (`runner/local.go`, `upload.go`) | servers, stopped; uploads | dial, stop; uploadOnce | start against stop; waiting for a failed upload | nothing is started after stop; an error does not stay |
| log database (`logdb/logdb.go`) | bounded buffers, batch | addEvent, Output.Write, Close | full buffers, drain at the end | what was accepted is saved in order, or counted as dropped |
| lock files (`lockfile/`, `app.LockTree`) | held files | Acquire, Release | two files, the second of which fails | one run at a time, nothing stays locked |
| headless output (`headless/`) | the line of each process | Write | several processes on one stream | lines do not mix |
| tree files (`rt/parser.go`, `source.go`, `node.go`, `tree.go`) | nodes, ids, indexes, errors | LoadNode, calculate, loadFrom, report | includes that replace, loops, conditions and inheritance at once; the load goes on after a mistake | the tree is the expansion of its files; each mistake is found once |
| variables (`rt/vars.go`) | - | calcVars, varEval | references in any order, cycles, braces that are none | the values solve the equations of the file |
| gates (`rt/thaw.go`) | frozenInFile, frozenGate, held | ThawGates | gates in gates, names in any order | a gate that was not named stays closed |
| language server (`lsp/server.go`) | documents, timer, analyses, published problems | changes, schedule, runAnalysis, publish | slow analyses beside new changes | the editor shows the problems of what is there now |
| widgets, event log, options | - | - | they show the state, or write texts | - |

Interactions: the scheduler goroutine, the `connect` goroutine of each start, the
goroutine of each client that calls `procStateChanged`, the debounced `unblock`,
and the GUI main loop all share the tree under one lock (`Tree.Lock`, a
`sync.RWMutex`). They wake the scheduler through `Tree.Awake` (debouncer). They
talk to a runner (in the process, over ssh or TCP) through a client, which answers
with process states.

## 2. Modules

| Module | Models |
|---|---|
| `Coalescer` | abstract: a request is followed by a call, a call is made only on request |
| `Debouncer` | `Debouncer[T]` at the grain of its mutex; implements `Coalescer` |
| `TreeShape` | constants: the tree file (nodes, kinds, locks, resources, on_error), the status sets, walks over the tree |
| `NodeState` | the state under the tree lock; updateStatus, the locks, updateBlocked |
| `Operations` | Start, PerformOp / performOp, unprovideLost |
| `Scheduler` | schedule, checkTimeout, checkEnd, StopScheduler, unblock |
| `RunTree` | everything: goroutines, processes, terminals, the user; the properties |
| `Process` | abstract: a process as the tree sees it, and what really became of it |
| `Session` | the runner protocol of one start: client, connection, server, process, with all their goroutines |
| `Termination` | timeouts (stopTimedOut), StopRunning, the local runner, TerminateRemote, a terminal that fails, over the sessions of a node; implements `Process` |
| `Console` | the console of runtree-headless: line ends, prompts, held output |
| `LogDatabase` | the writer of the log database |
| `Headless` | Run of runtree-headless: `Console` and `LogDatabase` composed, and the order in which it ends them |
| `MainLoop` | the queue of the GUI and the ways to close its window |
| `TerminalSize` | the size of a terminal and of its pty |
| `Uploads` | uploadOnce and the dial of a managed ssh runner |
| `LanguageServer` | documents, files, delayed analyses, published problems |
| `Variables` | substitution, vars and def_vars, cycles, undefined references (operators) |
| `Sources` | merge keys, validation, the collected errors and warnings (operators) |
| `Loader` | LoadNode with includes, loops, conditions, inheritance; ids and indexes (operators) |
| `Gates` | ThawGates (operators) |
| `Documents` | the state machine over these four, and what is expected of them, stated independently |
| `DebouncerProofs`, `RunTreeProofs`, `SchedulerProofs`, `OrderProofs`, `TerminationProofs`, `ServiceProofs`, `LogDatabaseProofs`, `LanguageServerProofs` | theorems and proofs, see section 4; from `RunTree` to `OrderProofs` each extends the one before it |
| `MCUnattended`, `MCOperations`, `MCLocks` | trees to check `RunTree` on |
| `MCTermination`, `MCServices`, `MCDocuments` | instances of the others |

From `TreeShape` to `RunTree` each module extends the one above it; so do `Variables`,
`Sources`, `Loader`, `Gates`, `Documents`, and `Session`, `Termination`. `PROJECT.json` gives the lines
that each definition stands for.

**Calls under the lock: the agenda.** A handler of runtree (a schedule cycle, an
operation, a notification) takes the tree lock and makes a chain of calls, mostly
`updateStatus` of one node after the other, which themselves call operations. The
modules write a handler as its first step, which puts the calls it is going to make
on the `agenda`, a sequence of frames, and one action per call: `UpdateStatus` takes
the frame of one node, does all that `updateStatus` does, and puts its own calls (on_error of
the siblings) in front. `Idle` (an empty agenda) says that the tree lock is free;
every handler needs it. So a handler stays atomic for the other goroutines, its
calls happen in the order of the code, and a property can look either at every step
(inside the handlers, as invariants without `Idle`) or at what the others can see
(with `Idle`). A panic (`AcquirePanics`) empties the agenda: `recoverPanic` catches
it, what was done stays done and the deferred unlock runs.

**State and code.** `status`, `held`, `want`/`manual`, `nproc`, `starting`,
`startErr`, `timedOut`, `provided`, `blocked`, `xby`, `rby` are the fields of the same meaning.
`client[n]` is the number of the start whose client the node has (0: nil), `proc[n][k]` is the
process of start `k` of node `n`, as its client knows it: `none`, `connecting`, `refused`, `alive`, `ok`
(a success code), `err`. `conns`, `notify`, `terms` and `closing` are the pending
goroutines and functions of the main loop. Recursion over the tree is written as
constant sequences (`PostOrder`, `Path`, `Above`).

Abstracted: exit codes and errors to `ok`/`err`; elapsed times (a timeout may
elapse at any cycle while the process lives); logging, expanding and collapsing; the
texts of holds and plans.

**Sessions.** A start is a session. Every goroutine of it has a program counter or a phase
of its own: ServePty (`srv`), recvCommands (`rc`), the two connectStreams (`out`, `inp`),
terminateProcess (`esc`) on the server, connect (`cl`), receiveCommands (`rx`), run (`tm`) on the
client, stopTimedOut (`te`). A message to the client is two frames, because the server
writes its code and its body in two writes without a lock, and two goroutines write. `got` is the
strongest signal that the living processes have got; a process may ignore all but SIGKILL. The rest of
a process group may outlive the command. In `RunTree` a process "exits whenever it likes"; `Process`
is the bridge: `Termination` implements it, and it promises of the client what `RunTree` uses
(a success only after a success, and one end that is final).

**Headless.** A byte is a CR, a LF or a letter; an output is a sequence of reads, cut in
the middle of line ends. The timer of a prompt, the end of an output, the status of the
node and the steps of Run come in any order. `late` records that Run did not wait for something
(a timeout, a second signal), so that `EndIsComplete` speaks of the other ends. The database goroutine
has its select (`Collect`, `SaveBatch`, `Finish`); a transaction fails or succeeds as a whole.

**Documents.** A load is sequential: `LoadTree`, `CalcVars` and `ThawGates` are operators, whose state is
a record that is passed on, and `Documents` takes a whole load as one action. What is
checked is the result against a definition that knows nothing of the order in which
the code works: which sub-nodes a node has is computed from the files (`SubNodesOf`), inherited
settings from the lineage (`LastGiven`), the values of variables are a solution of
equations (`Solves`), the expected errors come from a load of the repaired files (`Repaired`). Texts are
sequences of tokens, so that braces that are no references can occur. A scalar is a value its
property may have, or `Wrong`; an error is its line, a word and a count.

**Mistakes.** An operator introduced by a comment "Mistake" is a faulty variant of the
definition below it (a guard dropped, a step forgotten). No action uses it; it
shows which fault in the code the properties notice.

## 3. Runs

| Run | Shows |
|---|---|
| `unattended` | headless run: max_proc, locks, rlock window, seq order, requires/provides, timeout, on_error of siblings; no handler panics; it ends, quietly, for good |
| `operations` | two operations of the user at any moment on a seq group |
| `terminals` | a terminal that fails at any moment |
| `sessions` | one node started once or twice, with every kind of runner and every fault of section "Bounds": signals reach whom they are meant for, nothing local outlives the exit, what is told to stop stops, `Process` is implemented, and an end does not stay unnoticed |
| `services` | the parts around a run, one in each behaviour: a tree file, its variables and gates; runtree-headless to its exit; the language server; the main loop; terminal sizes; uploads; the debouncer, with no lost request, no leaked entry and `Coalescer` implemented (liveness included) |
| `run_by_hand`, `lock_leak`, `nested_locks`, `stale_terminal`, `left_out`, `open_gates`, `exit_status` | the counterexamples of section 5 |

**Bounds.** `unattended` has a par root (`max_proc` 2) over a seq line, whose second node
needs a resource and an xlock, and a par window with the rlock of the same name, whose
nodes share it; one of these provides the resource, may time out, and freezes the other when it
fails. Each start and exit can come in any order, and every coordination rule has a
competitor in this tree: three nodes for the two processes, the writer for the window, the
resource that may never come, the seq order. Deeper trees repeat the same rules on more
levels (the proofs cover NProc, limits, requirements, timeouts, locks, order, resources and the end for every tree). `operations` allows
2 operations (`MaxOps`), one more than is needed to interrupt what an operation
began; resources with two providers, one of them the group itself, and the
user keeping a resource (`MayKeep`) are in it. A node starts at most `MaxStarts` times; without operations
it starts once, each operation adds at most one start, and `MaxOps < MaxStarts`
is assumed and evaluated, so this bound never holds a node back. `FrozenInFile` is empty in the
configurations: frozen nodes come from `on_error` and from operations. Deadlock is
checked in the runs of the tree: a cycle may always start, or the GUI's `unblock` may run.

`sessions` has six set-ups (`Scenarios`): a local node that times out and is run again meanwhile; an ssh
node that is being terminated while it is run again, also before its first session is over, and its second start is
refused; a tcp node without SIGTERM that times out; a local node whose terminal fails, or cannot be accepted; a local
node while runtree exits; a tcp node that loses its connection and leaves processes behind. One fault per set-up keeps them
within reach, a pair that matters (a timeout with a second start) is a set-up. When a second start may come is a bound,
not a rule of the code: while `stopTimedOut` of the first one goes on or between the two looks of TerminateRemote, and, in the
local set-up, when the first session is over on both ends (`Over`). The tree would start it earlier, as the client tells
of the exit two seconds before it closes (`client.go:295-307`); the ssh set-up lifts that (`"overlap"`), which with a timeout would be
more than a million states. The sessions of two starts share nothing but the node.
`services` chooses one part at the start of a behaviour; the parts share no state, so their product would show
nothing more. The texts of `MCRuns` have each line end (LF, CR LF, lone CR, CR CR LF), cut
before and after it, and lines whose letters come in two reads, so that a flush may fall in between. Console texts of
two starts compete for the console; with the log database there is one start that writes (two of them have more than ten million
states): two reads become one chunk of two bytes, or two chunks when the first one is saved before or gets too long, and
buffers of one record and a batch of two fill up. That the chunks of another start end a merge is not reached.
The debouncer has three goroutines for two values, so that two loops of one value overlap while the other
value runs too; a `Call` that would need a fourth goroutine is left out. Its values and goroutines
get no symmetry (liveness is checked). Two posters and a pipe of one byte make the pipe full. Three starts share an
upload, so that one comes too late for it. Three sizes and two senders overtake each other. Two
files, one of which includes the other, two changes and two analyses overlap. The trees
of `MCDocuments` have a root in seven forms, a sub-node in thirteen (three of them end the load of the node), an object in
six (one with a fault), a library, and mistakes in none, one or all of them (1,670 trees), and every pair of names for `--thaw` where a
gate is; blocks have three variables with every kind of reference between them (17,496 blocks).
Deadlock is not checked in `sessions`, `exit_status`, `services`, `left_out` and `open_gates`: there a behaviour ends when
the program has exited, the editor has nothing to do, or the file is loaded.

**Fairness.** `FairSpec` of `RunTree` (only `RunEnds` uses it) assumes: a handler that has begun
goes on (`WF` of `Call`); the scheduler gets the tree lock again and again (`SF` of
`Schedule`): `Tree.Run` starts a cycle at the HZ tick, and a `sync.RWMutex` does not starve a
writer although other goroutines may take the lock in between; `connect` gets its
lock (`SF`) and its answer (`WF`: dialing has a timeout); and processes exit (`WF`
of `Exit`), which is an assumption about the processes: a run does wait for a
process that never ends. Nothing is assumed of the notifications, of `unblock`
or of timeouts. The debouncer assumes that a started goroutine runs and that the
function returns. `Termination` assumes one `WF` of all goroutines
together, of the exit of processes that got SIGKILL (the command and the rest of its group), and of the end of an output that nobody
holds open and somebody reads (`OutputOver`): no step can be taken twice, so every behaviour comes to rest,
and it is enough that it does not rest while something can go on. A process that ignores the other signals
never exits by itself, and the rest of its group may hold the output open for as long as it lives. `HeadlessExits` assumes that the database goroutine and Run go on (`Run` waits with timeouts
only), and nothing of processes, outputs or timers.

**Reading the properties.**

- `LocksExclude` is about what runs, `XLockHeld`, `LocksRecorded` and `RLockHeld` are
  about the tables of the locks: a process can run without its table entry, and an
  entry can stay without a process. They are separate hazards.
- `ProvidedBacked` (nothing is provided without a finished provider) is checked without
  operations only: "freeze" on a group that the user decided takes its decided status away and
  leaves its resources provided, as documented for operations that do not reset.
  With operations `ProvidedComplete` is checked.
- `LiveIsRunning` is the property that the user relies on when looking at the tree: a process that
  connects or lives belongs to the last start of its node, and the node is running.
- `SignalsMeant` is about what a signal was sent for: `got` is only set together with a reason of the
  same session, so a client that belongs to another start by then would show.
- `StopsWhenTold`, `OutputIsClosed` and `ExitIsReported` say what the last state of a behaviour is like (`<>[]`), because
  on the way there a grace period may always be open.
- `StopsWhenTold` lets the local processes be after the crash that is described below (nil client); `OutputIsClosed` says nothing of
  a start that still waits for its terminal; `ExitIsReported` nothing of a start whose terminal could not be accepted. What
  does not hold of these is in section 5, as properties of `Termination` with the set-ups that refute them.
- `EndIsComplete` compares line by line (`ShownAll`): what was shown is the list of the lines that were sent (`LinesOf`), so lost, doubled, swapped,
  joined and torn lines show, the empty ones too. The only other cuts are where the timer flushed a line
  that had not ended (`torn`), which the code does on purpose for prompts. What was saved is compared byte by byte.
- `KeepsOwn`, a part of `TreeIsExpanded`: title, `provides` and `requires` of a node are what it and the objects that
  replaced it say, and nothing of the nodes around it. (`requires` is not inherited: `LoadNode` never sets `InheritRequires`, `vars.go:269`.)
- `MistakesAreFound` is about what one load comes to. LoadNode does not read the properties of a run node
  with an include (`parser.go:141-144`), nor the sub-nodes behind a calculation that failed (`352-357`) or below a node with both
  `nodes` and `include` (`388-391`): mistakes there are found by the next load. The trees have each of these cases.
- `TreeIsExpanded`, `MistakesAreFound`, `ValuesAreSolved` and `GatesStayClosed` are second definitions of what
  the loader, the validator, the calculation and `--thaw` compute, see "Documents" above.
- `SeqStopsAtError` relates a status to starts, because a failed node counts as finished for the
  scheduler: only the status of its seq node, updated in the same cycle, stops it.

## 4. Proofs

TLAPS proves for every tree, every set of locks, resources, operations, goroutines, sessions, files
and buffers, and every bound:

| Module | Theorems (the property they state) | Kept by |
|---|---|---|
| `DebouncerProofs` | `TypeCorrect`, `RequestsAreServed` (`NoLostCall`), `EntriesAreInUse` (`NoStaleEntry`), `CallsFollowRequests` (the safety part of `ImplementsCoalescer`) | `IInv` |
| `RunTreeProofs` | `TypeCorrect`, `ExclusiveLocksHeld` (`XLockHeld`), `ProcessesCounted` (`NProcExact`), `FailedStartIsShown` (`StartFailedShows`), `FinishedNodesStay` (`FinishedStays`), `DecisionsStand` (`DecisionStands`), `LiveProcessesAreShown` (`LiveIsRunning`) | `TreeInv`, `AllLive` |
| `SchedulerProofs` | `LimitsAreKept` (`MaxProcRespected`), `RequirementsAreMet` (`RequiresMet`), `TimeoutsCount` (`TimedOutFails`), `LocksAreExclusive` (`LocksExclude`), `LocksAreRecorded` (`LocksRecorded`), `RLocksAreUsed` (`RLockHeld`), `LockingNeverPanics` (`NoLockPanics`) | `HeadlessInv`, `LockInv` |
| `OrderProofs` | `SequencesAreInOrder` (`SeqInOrder`), `SequencesStopAtErrors` (`SeqStopsAtError`), `WhatIsProvidedIsBacked` (`ProvidedBacked`), `ProvidersProvide` (`ProvidedComplete`), `TheEndIsQuiet` (`EndIsQuiet`), `TheEndIsFinal` (`EndIsFinal`) | `OrderInv`, `EndInv` |
| `TerminationProofs` | `NoneIsStartedAfterwards` (`LocalQuiet`), `NoSignalGoesAstray` (`SignalsMeant`), `SessionsImplementProcess` (`ImplementsProcess`) | `LocalInv`, `SignalInv`, `ViewInv` |
| `ServiceProofs` | `LastSizeWins` (`SizeIsCurrent`), `WakeUpIsDue` (`NoLostWakeUp`), `WindowClosesSafely` (`ClosesSafely`), `OneUploadForAll` (`UploadsAreShared`) | `SizeInv`, `QueueInv`, `CloseInv`, `UploadInv` |
| `LogDatabaseProofs` | `EventsReachTheTables` (`EventsSaved`), within `Headless` | `LogInv` |
| `LanguageServerProofs` | `EditorIsUpToDate` (`ProblemsAreCurrent`) | `LspInv` |

**The tree.** The agenda makes a handler many steps, so a property that speaks of what the others can
see (`Idle`) is not inductive: in the middle of a handler it is the calls that are still to come that
make it true. `TreeInv` says so, in five parts:

- `TypeOK`, with the shape of every frame of the agenda;
- `AgendaOK`: which call has which call behind it. A node is marked as running only while it starts, the calls of
  an operation stand before its "end", nobody but `on_error` operates on an unattended tree, and the
  pick of a cycle comes last, directly after `updateBlocked`;
- `RunOK`: a node that starts runs already or is the next to be updated, nothing is decided about a node that runs, there is at most one
  `connect` goroutine, and the client is the one of the last start;
- `OutcomeOK`: a finished node shows how its last start ended, or was skipped; a failed start or terminal is shown,
  or somebody who will show it is on the way;
- `GroupOK`: a wish on a group is a decision.

The steps of `Next` are many, what they do to a run node is little: `StepKinds` sorts each step into
quiet steps, updates of one node, beginnings, decisions, marks and the steps of goroutines, and `StepOfNode`
says what each leaves alone. The other lemmas only distinguish these kinds. For the xlocks
`TypeOK /\ XLockHeld` is inductive as status and table change in one step, and a panic keeps only entries of
the node that just became running. For the counts `TypeOK /\ NProcExact` is inductive: the active run nodes below an
ancestor gain or lose exactly the node whose status changed (cardinalities from
`FiniteSetTheorems`).

`LiveProcessesAreShown` has the hypothesis `Terminals = {}`: no terminal is created after another
start. It is needed, as the run `stale_terminal` shows (finding 4); it always holds in `runtree-headless`, which has no
terminals to create. `LimitsAreKept` and `RequirementsAreMet` have `Unattended` as well, because a node that the user runs by hand is
started whatever the limits are: that is what "run" is for. `TimeoutsCount` has `Unattended` alone: a user may
run or reset a node that timed out. Their invariant adds that between the decision to start a node
and its count there is room for it at each ancestor (`RoomOK`; `NProcExact` and the shape of the agenda
give that nobody comes in between), that what it requires stays provided (`NeedsOK`), and that a process
that timed out ends as failed (`TimeoutOK`).

**The locks of a headless run.** Its locks are checked at the start of a run node, for the node and all
above it, but taken later: by `updateStatus`, one level at a time on the way up, and `acquireLocks` panics when a
name is gone by then. `LockInv` says why nothing comes in between. A node is *pending* while it is not
running although a sub-node runs, or it starts; then the walk up from it is what comes next on the agenda, and every
node of that walk is *ready*: neither decided about nor held, and its names are free or its own
(`PendingOK`). Two frames that start with different nodes cannot both come next, so at most one node is pending. When it becomes
running, `BecomesLocks` gives it all of its names, and its parent is the pending one (`UpdatePending`). The rest of `LockInv`: a
group that was frozen or skipped has nothing that runs and shows it, or is about to be updated (`HeldOK`; else the
walk up would stop at it); what runs has its locks (`LocksOK`); no name is locked in both ways (`OneKind`); each
record of an rlock has a reader (`Read`). `EndsLocks` is where rlocks come off: when the
root ends nothing below it runs anymore (`ActiveAbove`), so the last reader is gone. `PickReady` is where they are
checked: the pick is alone on the agenda and `blocked` is fresh (`PickIsAlone`), so what is not blocked is free.

These theorems have three hypotheses. `Unattended`: a start by hand does not look at both tables (finding 1),
and an operation can skip the root of an rlock (finding 2). `Terminals = {}`: there is no GUI. `NoNestedLocks`: no
name is an xlock of a node and any lock of a node above it, for those trees the walk up panics (finding 3). Nested rlocks,
which inheritance makes common, are allowed. The tree of `unattended` satisfies all three, with a writer, two readers and
a nested rlock.

**The order and the end of a headless run.** `SeqInOrder` speaks of the sub-nodes of one node, but a group
becomes running because something below it does, and the scheduler starts a run node far below. So `OrderInv` says it
of all levels at once: a node that was ever started has nothing in front of it, on any level, that did not finish without
error (`StartedOK`), and what runs or failed has a node below it that was started (`HasStarted`). That is true when
the node starts: the scheduler takes a failed node in front for finished, but its seq node, if it shows at that moment
what its sub-nodes make of it, has ended. `CycleOK` says that each group does: from the beginning of a cycle to its pick, a group is up to date or
still to be updated; after the walk down from the root none is left. For this the calls on the agenda must
go up: behind the update of a node comes that of its parent (`GoesUp`); for the walk down that is
`DownAssumption`. It stays true because what finished stays finished: of a run node that is
`FinishedNodesStay`, of a group it is `GroupDone`, as one that finished was skipped as a whole, or all its
sub-nodes finished, or it is a seq node that stopped at an error. `UnstartedOK` is why a node that waits cannot turn up failed
without a start. With that, a provider never goes back, and `Backed` and `Complete` are kept by the step that provides.

`EndInv` is about `checkEnd`: from its beginning on (`Over`), and for good once the run has ended, nothing runs or
starts, nobody has decided anything and each group is up to date (`Still`). `CheckEnd` has looked at the run nodes itself; the groups
are up to date because the pick comes after the walk of the cycle (`CycleOK`). So the walk of `checkEnd`
changes nothing (`UpdateWhenStill`), and what `Settle` compares is a fixed point. After the end, a run that
finished has a root that finished, so the scheduler does not go below it; one that stopped has no runnable node and a `blocked`
that is exact. Later cycles, notifications and `unblock` compute what is there already (`OverStep`). Nothing lives
then, because `LiveIsRunning` leaves no process to a node that is not running.

These six theorems have the three hypotheses of the locks. `Unattended` and `Terminals = {}` are what a headless run
is; `NoNestedLocks` is there because a handler that panics leaves the rest of its agenda undone, and with it the
groups above it without an update, so that `CycleOK` and `LockInv`, which these proofs use, do not hold. The
proofs need no bound on starts, no fairness, and nothing about which processes exit and when.

**Sessions.** `LocalInv`: while runtree is there, a server waits for each living local process. `SignalInv` attaches
the reason to each signal on its way (a message, a second signal, Ctrl+C), not only to one that arrived.
`ViewInv` relates what a client was told, and what is on its way to it, to what became of the process, also when
its terminal could not be accepted (`"unattached"`);
`ViewNext` proves that each step of `Termination` is a step of `Process` or a stutter. `RunTree` assumes of
processes what `Process` says without `"unattached"`: an end is final, and a success is one. That holds of every start but one whose
`Accept` fails. `runtree-headless` has no terminals; in the GUI such a node fails while its process
may live on (section 5), which `FinishedStays` and `LiveIsRunning` do not cover. That an ended session does not stay
unnoticed is liveness: `ExitIsReported`, checked by TLC.

**The debouncer.** `CallsFollowRequests` maps the loops to calls of `Coalescer`, as `ImplementsCoalescer` does: taking the flag
and going to call is invisible, `Begin` is the start of a call, which serves all requests before it. That each
request is served in the end is the liveness part, which TLC checks.

**The services.** Each invariant says who will do what is still to do: a sender waits behind the one that sends an old size
(`SizeInv`); a byte or a poster is there for the queue (`QueueInv`); each upload that is not done is in somebody's
hands, one that failed is not found anymore (`UploadInv`); rows, batch and buffer together are what was accepted,
and the writer ends after `Close` only, when it has drained (`LogInv`); a change has an analysis coming,
and the analysis that has none behind it sees the last documents and files (`LspInv`).

**Assumptions**, all in the modules that declare the constants and evaluated by TLC in every run that uses them:
the shapes of the constants; finite trees; that the walks over the tree reach what they should
(`WalkAssumption`: the way up goes from each node to its parent, goes on as the parent's own way, and comes to no
node twice, the walk down from a leaf is the leaf; `DownAssumption`: the walk down from the root comes to every node, and to
each node below another one before its parent; recursion over data is out of reach of the prover, so these facts
about a finite tree are assumed and evaluated); sizes, countdowns and
ranks of signals are what they are in the code (`SizeAssumption`, `LoopAssumption`, `Numbers`).

**Only model-checked:**

- Liveness (`RunEnds`, `HeadlessExits`, `StopsWhenTold`, `OutputIsClosed`, `ExitIsReported`, the liveness of `Coalescer`): it rests on
  fairness and `ENABLED`.
- The locks with operations by hand or nested names: `LocksExclude`, `LocksRecorded` and `RLockHeld` do not hold there
  (findings 1 to 3); `XLockHeld` does, and is proved for every tree.
- `ProvidedComplete` with operations, which `operations` checks: `ProvidersProvide` is about headless runs. With a user, or after a handler
  that panicked, a group may go from one status to another past the ones that `OrderInv` relies on.
- The order, the resources and the end in trees with nested names, where handlers are cut short (finding 3).
- `EndIsComplete` is about folds over outputs; `TreeIsExpanded`, `MistakesAreFound`, `ValuesAreSolved`, `GatesStayClosed` are
  about functions that are recursive over data, as their code is.

## 5. Findings

Places where the code does not do what its documentation or comments say. Each has a run
whose counterexample shows it.

1. `run_by_hand`: `CanAcquireLocks` looks at the table of the same kind only, so
   running a node by hand takes an xlock while others hold the rlock of that name (and vice versa).
2. `lock_leak`: an rlock is recorded for its topmost node and only that node releases it; when
   that node does not run (skipped) and a sub-node is run by hand, the record stays.
3. `nested_locks`: a group and its sub-node with the same xlock: the group becomes
   running without its lock, the handler panics and is cut short.
4. `stale_terminal`: `TerminalFailed` of an earlier start is applied to the start that
   the node has by then; it gets the error of the first one and its process lives uncounted.
5. `left_out`: a node that only includes an object is replaced by it even if the conditions of the object
   do not hold; the object is half calculated, and the indexes of the following nodes are one too small.
6. `open_gates`: a node with its own `status: frozen` that only includes an object loses
   the mark of the gate to the object: `--thaw` does not know it, and opens it with the gate around it.
7. `exit_status`: the server sends an exit status and the answer to a signal from two goroutines, each in two frames without
   a lock (`server.go:529`, `:521`): mixed up, a process counts as failed though it succeeded.

Nearby, without a run of their own. Where a property is named, TLC refutes it with `MCSessions.cfg` when that property
and the set-up of `MCTermination` (`Setups <- ...`) are put into it:

- During a repeated call the flag of the debouncer is clear (`events/debouncer.go:77-79`), so a `Call` starts a second
  loop, whose call may run in parallel with the first, which the comment of the type (`debouncer.go:18`) excludes. Each
  call still follows a request (`ImplementsCoalescer`); the functions of the program take the tree lock.
- When the terminal connection cannot be accepted (`client.go:341-343`), the client is stopped with an error but its
  connection stays open, and `receiveCommands` waits for one more message. The node fails while its process lives
  on, and an exit status that comes then replaces the error, also by a success (`ShownRunning`, `LateTerminal`).
  `docs/execution.md:44` says that a node is running while its process runs.
- `Client.run` waits for a terminal that never connects, also after `Close` (`client.go:340`): its goroutine and socket stay, and
  the output is not closed, although `client.go:109-110` says so (`EveryOutputIsClosed`, a temporal property, `LateTerminal`).
- A node that lost its client between the two locks of TerminateRemote (`terminate.go:46`) is a nil client: the
  program ends with a panic (`Crash`), the local processes are left to the hang-up of their terminals, and nobody waits for their
  exits, which `docs/runners.md:138-141` promises (`ExitWaits`, `RerunAtExit`).
- One load does not find all mistakes, see `MistakesAreFound` in section 3; `docs/tree-files.md:216` says that
  `--check` "prints all errors", `parser.go:47-48` that loading goes on "so that all errors of the tree are found". TLC refutes
  `AllMistakesAreFound` with `MCOpenGates.cfg`, `TreeChoice <- MCHidden` and it as the invariant.
- `docs/runners.md:142-143` promises that rtrunner terminates the rest of a process group at a disconnect. An rtrunner
  that ssh started exits with its session (`rtrunner.go:57`); when the command itself has exited by then, the rest of
  its group lives on (`RestTerminated`, `RestOverSsh`).
- A paused reader below an rlock root whose group is reset through a failed sibling loses the record
  of its rlock while it is paused.
- An upload is remembered as done for the life of the program, also when the host loses the binary later.
- A node that the user runs below a skipped group is not counted as unfinished: the window closes over it.
- `ifeq` and `ifneq` compare values with `==`; two lists panic (`vars.go:150`). A `type: run` node with a `seq` list and
  `status: frozen` panics at `--thaw` (`thaw.go:74`), because `held` is only set for groups.
- A later mapping of a merge key overrides an earlier one (`source.go:434-445`); YAML says the earlier wins.
- `tree.go:21` calls the index post-order; it is pre-order. `docs/variables.md:25` says that `${name}` is not
  substituted; it is when `name` is a variable (`vars.go:512`).

## 6. Not modelled

- Syntax: YAML itself, columns of positions, the size limits of files, `wincommand.go`, queries of the editor
  (`features.go`, `sourcequery.go` but `IncludeTarget`). Top-level values that are no mappings, keys that are no texts.
- In the passing runs, an object with a condition does not replace a node, and no object replaces a gate: those are the
  findings `left_out` and `open_gates`. The values of conditions are texts. A path names one node, as an id does.
- The filter of terminal sequences of Windows (`headless/conpty.go`), labels and colours, mouse modes: text.
- Lock files: `flock` of the kernel, which releases it with the process; runtree keeps no state of it.
- Schema and queries of the log database; `eventlog.go`, `stopped.go` (texts for a reader).
- The widgets of the GUI, which show the tree and call the operations of `Operations`.
- In `RunTree`, the functions of the main loop are unordered and may wait forever (`MainLoop` has the queue).
- Lengths of time: a timer may fire at once, or never within the run that is looked at.
- Crashes of runtree: nothing of a run is persisted except the log database, which no run reads back.

## 7. Plan

1. Done: the coordination core (`Coalescer`, `Debouncer`, `TreeShape` to `RunTree`) with the theorems above.
2. Done: the runner protocol and termination, the headless run with its log, the services of the GUI and the editor,
   the tree files.
3. Done: the theorems of section 4. Of the properties that the runs check, those without one are out of the prover's reach
   (liveness, folds and recursion over data) or listed there.
