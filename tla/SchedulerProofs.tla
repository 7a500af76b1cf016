-------------------------- MODULE SchedulerProofs --------------------------
(***************************************************************************)
(* What the scheduler promises for every tree that runs without anybody to *)
(* decide (runtree-headless): its limits, what is required, the timeouts,  *)
(* and the locks.                                                          *)
(***************************************************************************)
EXTENDS RunTreeProofs

USE DEF Start

-----------------------------------------------------------------------------
(* An unattended tree: nobody operates on it but on_error.                   *)

(* Nobody decides that a node succeeded, and no process is forgiven that was  *)
(* stopped for its timeout.                                                  *)
TimeoutOK(n) ==
  /\ want[n] => manual[n] # "Success"
  /\ timedOut[n] /\ status[n] = "Success" => OnError[n] = "Success"

LEMMA TimeoutNext ==
  ASSUME Unattended, TypeOK, AgendaOK, RunOK, [Next]_vars, NEW n \in RunNode, TimeoutOK(n)
  PROVE  TimeoutOK(n)'
<1>1. n \in Node
  BY DEF RunNode
<1>2. CASE Same(n)
  BY <1>2 DEF Same, TimeoutOK
<1>3. CASE UpdateStep(n)
  <2>1. /\ UNCHANGED <<manual, startVars, proc>>
        /\ status'[n] = CalcRunStatus(n).st /\ (want'[n] => want[n])
    BY <1>1, <1>3, UpdateOfRunNode
  <2>2. ASSUME timedOut[n], CalcRunStatus(n).st = "Success" PROVE OnError[n] = "Success"
    BY <2>2 DEF TimeoutOK, CalcRunStatus, ErrorStatus, OnErrorStatus, Plain, Succeeded, Stays
  <2> QED
    BY <2>1, <2>2 DEF TimeoutOK, startVars
<1>4. CASE BeginStep(n)
  <2>1. ~want'[n] /\ ~timedOut'[n]
    BY <1>4, BeginFacts
  <2> QED
    BY <2>1 DEF TimeoutOK
<1>5. CASE MarkStep(n) \/ \E s \in Status : DecideStep(n, s)
  <2>1. /\ UNCHANGED <<status, timedOut>>
        /\ \E s \in Status \ {"Success"} : manual' = [manual EXCEPT ![n] = s]
    <3>1. CASE MarkStep(n)
      BY <3>1 DEF MarkStep, startVars, Status
    <3>2. ASSUME NEW s \in Status, DecideStep(n, s)
          PROVE  UNCHANGED <<status, timedOut>> /\ s # "Success" /\ manual' = [manual EXCEPT ![n] = s]
      BY <3>2 DEF DecideStep
    <3> QED
      BY <1>5, <3>1, <3>2
  <2> QED
    BY <1>1, <2>1 DEF TimeoutOK, TypeOK
<1>6. CASE Concerns(n) /\ UNCHANGED <<status, want, manual, timedOut>>
  BY <1>6 DEF TimeoutOK
<1>7. ASSUME NEW k \in Start,
             ProcStateChanged(n) \/ Connected(n, k) \/ TerminalFailed(n, k) \/ CloseClient(n, k)
      PROVE  UNCHANGED <<status, want, manual, timedOut>>
  BY <1>7 DEF ProcStateChanged, Connected, TerminalFailed, CloseClient, treeVars, nodeVars, startVars
<1>8. 1 \in Start
  BY BoundAssumption
<1> QED
  BY <1>2, <1>3, <1>4, <1>5, <1>6, <1>7, <1>8, StepOfNode, Zenon DEF Concerns

(* What an unattended tree provides, it keeps.                               *)
LEMMA ProvidedStays ==
  ASSUME Unattended, TypeOK, AgendaOK, [Next]_vars PROVE provided \subseteq provided'
<1> USE DEF nodeVars
<1>1. CASE Call
  <2>1. CASE UpdateStatus
    BY <2>1 DEF UpdateStatus, SetStatus
  <2>2. CASE EndOp
    BY <2>2, HeadOp DEF EndOp, Unprovides
  <2>3. CASE UpdateBlocked \/ Pick \/ CheckEnd \/ Settle
    BY <2>3 DEF UpdateBlocked, Pick, CheckEnd, Settle
  <2>4. CASE Sibling \/ OpOnRunNode \/ RunByHand \/ MarkRunning \/ RunRefused
             \/ OpOnGroup \/ OpOnGroupDone \/ OpNotAllowed
    BY <2>4 DEF Sibling, PerformOp, OpOnRunNode, RunByHand, MarkRunning, RunRefused,
                OpOnGroup, OpOnGroupDone, OpNotAllowed
  <2> QED
    BY <1>1, <2>1, <2>2, <2>3, <2>4, Zenon DEF Call, OperationStep
<1>2. CASE (Schedule \/ (MayExit /\ StopScheduler) \/ Unblock) /\ UNCHANGED <<goVars, ops>>
  BY <1>2 DEF Schedule, StopScheduler, Unblock
<1>3. ASSUME NEW n \in RunNode, ProcStateChanged(n) \/ \E k \in Start : GoStep(n, k)
      PROVE  UNCHANGED provided
  BY <1>3 DEF ProcStateChanged, GoStep, Connect, Exit, Connected, TerminalCreated,
              TerminalFailed, CloseClient, treeVars
<1>4. ASSUME NEW n \in Node, NEW op \in Op, NEW rec \in BOOLEAN,
             NEW keep \in SUBSET (provided \cap MayKeep), UserOp(n, op, rec, keep)
      PROVE  FALSE
  BY <1>4 DEF UserOp
<1>5. CASE UNCHANGED vars
  BY <1>5 DEF vars
<1> QED
  BY <1>1, <1>2, <1>3, <1>4, <1>5, Zenon DEF Next, GoStep

(* A node is only shown as running when it starts.                           *)
LEMMA RunningFrom ==
  ASSUME TypeOK, RunOK, NEW n \in RunNode, LiveOK(n), UpdateStep(n), status'[n] = "Running"
  PROVE  status[n] = "Running" \/ starting[n]
<1>1. n \in Node /\ ManualOK(n)
  BY DEF RunNode, RunOK
<1>2. status'[n] = CalcRunStatus(n).st
  BY <1>1, UpdateOfRunNode
<1>3. client[n] # 0 /\ LastState(n) = "alive" => starting[n] \/ status[n] = "Running"
  <2>1. client[n] # 0 => client[n] \in Start
    BY <1>1, BoundAssumption DEF TypeOK
  <2> QED
    BY <2>1 DEF LiveOK, LastState
<1>4. OnErrorStatus(n) # "Running"
  BY <1>1, OnErrorAssumption DEF OnErrorStatus
<1> QED
  BY <1>1, <1>2, <1>3, <1>4 DEF ManualOK, CalcRunStatus, ErrorStatus, Plain, Stays

(* There is room for what runs and for what is about to.                      *)
RoomOK(a) ==
  MaxProc[a] >= 0 =>
    /\ nproc[a] <= MaxProc[a]
    /\ \A n \in RunNode : a \in Above(n) /\ starting[n] /\ status[n] # "Running" =>
         nproc[a] < MaxProc[a]

(* What starts or runs has what it requires.                                 *)
NeedsOK(n) ==
  starting[n] \/ status[n] = "Running" => \A a \in Above(n) : Requires[a] \subseteq provided

UnattendedOK ==
  /\ \A a \in Node : RoomOK(a)
  /\ \A n \in RunNode : NeedsOK(n) /\ TimeoutOK(n)

LEMMA RoomNext ==
  ASSUME Unattended, TypeOK, AgendaOK, RunOK, AllLive, NEW a \in Node, RoomOK(a), [Next]_vars
  PROVE  RoomOK(a)'
<1>0. nproc[a] \in Int /\ MaxProc[a] \in Int
  BY PropertyAssumption DEF TypeOK
<1>1. CASE \E m \in Node : UpdateStep(m)
  <2>1. PICK m \in Node : UpdateStep(m)
    BY <1>1
  <2>2. \A n \in RunNode : starting'[n] => status'[n] = "Running"
    <3> SUFFICES ASSUME NEW n \in RunNode, starting'[n] PROVE status'[n] = "Running"
      OBVIOUS
    <3>1. StartShows(n) /\ ManualOK(n) /\ starting[n]
      BY <2>1, UpdateOfRunNode DEF RunOK, startVars
    <3>2. CASE n # m
      BY <2>1, <3>1, <3>2, UpdateOfRunNode DEF StartShows
    <3>3. CASE n = m
      <4>1. status'[n] = CalcRunStatus(n).st
        BY <2>1, <3>3, UpdateOfRunNode
      <4> QED
        BY <3>1, <4>1 DEF ManualOK, CalcRunStatus, Plain
    <3> QED
      BY <3>2, <3>3
  <2>3. CASE MaxProc[a] >= 0
    <3>1. CountProc(m, CalcStatus(m).st) /\ status'[m] = CalcStatus(m).st
      BY <2>1 DEF UpdateStep, SetStatus, TypeOK
    <3>2. CASE a \in Above(m) /\ m \in RunNode /\ status'[m] = "Running" /\ status[m] # "Running"
      <4>1. nproc[a] < MaxProc[a]
        BY <2>1, <2>3, <3>2, RunningFrom DEF RoomOK, AllLive
      <4>2. nproc'[a] = nproc[a] + 1
        BY <3>1, <3>2 DEF CountProc, Counts, Active, RunNode
      <4> QED
        BY <1>0, <2>2, <4>1, <4>2 DEF RoomOK
    <3>3. CASE ~(a \in Above(m) /\ m \in RunNode /\ status'[m] = "Running" /\ status[m] # "Running")
      <4>1. nproc'[a] \in {nproc[a], nproc[a] - 1}
        BY <3>1, <3>3 DEF CountProc, Counts, Active, RunNode
      <4> QED
        BY <1>0, <2>2, <2>3, <4>1 DEF RoomOK
    <3> QED
      BY <3>2, <3>3
  <2> QED
    BY <2>3 DEF RoomOK
<1>2. CASE UNCHANGED <<status, nproc>>
  <2>1. ASSUME MaxProc[a] >= 0, NEW n \in RunNode, a \in Above(n), starting'[n], status'[n] # "Running"
        PROVE  nproc'[a] < MaxProc[a]
    <3>1. CASE starting[n]
      BY <1>2, <2>1, <3>1 DEF RoomOK
    <3>2. CASE BeginStep(n)
      BY <1>0, <1>2, <2>1, <3>2 DEF BeginStep, AtMaxProc
    <3>3. starting[n] \/ BeginStep(n)
      <4>1. Same(n) => starting'[n] = starting[n]
        BY DEF Same
      <4>2. Concerns(n) /\ ~BeginStep(n) => starting'[n] = starting[n] \/ ~starting'[n]
        BY DEF Concerns, UpdateStep, SetStatus, MarkStep, DecideStep, ProcStateChanged, Connected,
               TerminalFailed, CloseClient, treeVars, startVars, TypeOK, RunNode
      <4> QED
        BY <2>1, <4>1, <4>2, StepOfNode
    <3> QED
      BY <3>1, <3>2, <3>3
  <2> QED
    BY <1>2, <2>1 DEF RoomOK
<1>3. (\E m \in Node : UpdateStep(m)) \/ UNCHANGED <<status, nproc>>
  <2>1. CASE \/ QuietStep \/ UNCHANGED vars
             \/ \E n \in RunNode : BeginStep(n) \/ MarkStep(n) \/ (\E s \in Status : DecideStep(n, s))
    BY <2>1 DEF QuietStep, BeginStep, MarkStep, DecideStep, vars, nodeVars
  <2>2. ASSUME NEW n \in RunNode, ProcStateChanged(n) \/ \E k \in Start : GoStep(n, k)
        PROVE  UNCHANGED <<status, nproc>>
    BY <2>2 DEF ProcStateChanged, GoStep, Connect, Exit, Connected, TerminalCreated,
                TerminalFailed, CloseClient, treeVars, nodeVars
  <2> QED
    BY <2>1, <2>2, StepKinds DEF StepKind
<1> QED
  BY <1>1, <1>2, <1>3

LEMMA NeedsNext ==
  ASSUME Unattended, TypeOK, AgendaOK, RunOK, AllLive, NEW n \in RunNode, NeedsOK(n), [Next]_vars
  PROVE  NeedsOK(n)'
<1>1. provided \subseteq provided'
  BY ProvidedStays
<1>2. CASE BeginStep(n)
  BY <1>1, <1>2 DEF BeginStep, NeedsOK
<1>3. CASE starting'[n] \/ status'[n] = "Running" => starting[n] \/ status[n] = "Running"
  BY <1>1, <1>3 DEF NeedsOK
<1>4. CASE Same(n)
  BY <1>3, <1>4 DEF Same
<1>5. CASE UpdateStep(n)
  <2>1. starting' = starting
    BY <1>5 DEF UpdateStep, SetStatus, startVars
  <2>2. status'[n] = "Running" => starting[n] \/ status[n] = "Running"
    BY <1>5, RunningFrom DEF AllLive
  <2> QED
    BY <1>3, <2>1, <2>2
<1>6. CASE Concerns(n) /\ ~BeginStep(n) /\ ~UpdateStep(n)
  <2>1. UNCHANGED status
    BY <1>6 DEF Concerns, MarkStep, DecideStep, ProcStateChanged, Connected, TerminalFailed,
                CloseClient, treeVars, nodeVars
  <2>2. starting'[n] => starting[n]
    BY <1>6 DEF Concerns, MarkStep, DecideStep, ProcStateChanged, Connected, TerminalFailed,
                CloseClient, treeVars, startVars, TypeOK, RunNode
  <2> QED
    BY <1>3, <2>1, <2>2
<1> QED
  BY <1>2, <1>4, <1>5, <1>6, StepOfNode

(* The inductive invariant of a tree without anybody to decide.              *)
HeadlessInv == TreeInv /\ AllLive /\ UnattendedOK

LEMMA HeadlessInvariant ==
  ASSUME Unattended, Terminals = {} PROVE Spec => []HeadlessInv
<1>1. Init => AllLive
  BY DEF Init, AllLive, LiveOK, RunNode
<1>2. Init => UnattendedOK
  <2> SUFFICES ASSUME Init PROVE UnattendedOK
    OBVIOUS
  <2>1. \A n \in RunNode : ~starting[n] /\ ~want[n] /\ ~timedOut[n] /\ status[n] # "Running"
    BY DEF Init, RunNode
  <2>2. \A a \in Node : nproc[a] = 0
    BY DEF Init
  <2> QED
    BY <2>1, <2>2 DEF UnattendedOK, RoomOK, NeedsOK, TimeoutOK
<1>3. TreeInv /\ AllLive /\ [Next]_vars => AllLive'
  BY LiveNext DEF TreeInv
<1>4. HeadlessInv /\ [Next]_vars => UnattendedOK'
  <2> SUFFICES ASSUME HeadlessInv, [Next]_vars PROVE UnattendedOK'
    OBVIOUS
  <2>1. TypeOK /\ AgendaOK /\ RunOK /\ AllLive /\ UnattendedOK
    BY DEF HeadlessInv, TreeInv
  <2>2. \A a \in Node : RoomOK(a)'
    BY <2>1, RoomNext DEF UnattendedOK
  <2>3. \A n \in RunNode : NeedsOK(n)' /\ TimeoutOK(n)'
    BY <2>1, NeedsNext, TimeoutNext DEF UnattendedOK
  <2> QED
    BY <2>2, <2>3 DEF UnattendedOK
<1> QED
  BY <1>1, <1>2, <1>3, <1>4, TreeInvariant, PTL DEF Spec, HeadlessInv

(* A headless run never has more processes below a node than its max_proc,    *)
(* though the process of a start comes later than the decision to start.     *)
THEOREM LimitsAreKept == Unattended /\ Terminals = {} => (Spec => []MaxProcRespected)
<1> SUFFICES ASSUME Unattended, Terminals = {} PROVE Spec => []MaxProcRespected
  OBVIOUS
<1>1. HeadlessInv => MaxProcRespected
  BY DEF HeadlessInv, UnattendedOK, RoomOK, MaxProcRespected
<1> QED
  BY <1>1, HeadlessInvariant, PTL

(* In a headless run, what runs had everything it requires, itself and on     *)
(* every level above, and it has it as long as it runs.                      *)
THEOREM RequirementsAreMet == Unattended /\ Terminals = {} => (Spec => []RequiresMet)
<1> SUFFICES ASSUME Unattended, Terminals = {} PROVE Spec => []RequiresMet
  OBVIOUS
<1>1. HeadlessInv => RequiresMet
  BY DEF HeadlessInv, UnattendedOK, NeedsOK, RequiresMet, Active
<1> QED
  BY <1>1, HeadlessInvariant, PTL

(* In a headless run, a node whose process was stopped for its timeout does   *)
(* not succeed, whatever the exit code is (unless on_error says so).         *)
THEOREM TimeoutsCount == Unattended => (Spec => []TimedOutFails)
<1> SUFFICES ASSUME Unattended PROVE Spec => []TimedOutFails
  OBVIOUS
<1> DEFINE TimeoutsOK == \A n \in RunNode : TimeoutOK(n)
<1>1. Init => TimeoutsOK
  BY DEF Init, TimeoutOK, RunNode
<1>2. TreeInv /\ TimeoutsOK /\ [Next]_vars => TimeoutsOK'
  BY TimeoutNext DEF TreeInv
<1>3. TimeoutsOK => TimedOutFails
  BY DEF TimeoutOK, TimedOutFails
<1> HIDE DEF TimeoutsOK
<1> QED
  BY <1>1, <1>2, <1>3, TreeInvariant, PTL DEF Spec
-----------------------------------------------------------------------------
(* The locks of an unattended tree.  The shape of the tree first: who is      *)
(* above whom, and where an rlock is recorded.                               *)

LEMMA ChildHasParent ==
  ASSUME NEW p \in Node, NEW c \in Children(p) PROVE c \in Node /\ Parent[c] = p
<1>1. PICK k \in DOMAIN Kids[p] : Kids[p][k] = c
  BY DEF Children
<1>2. c \in Node
  BY <1>1, NodeAssumption
<1>3. c \in Node \ {Root}
  BY <1>2, TreeAssumption
<1>4. \A q \in Node : c \in Children(q) => q = p
  <2>1. PICK o \in Node : \A q \in Node : \A j \in DOMAIN Kids[q] : Kids[q][j] = c => q = o
    BY <1>3, TreeAssumption
  <2> QED
    BY <1>1, <2>1 DEF Children
<1> QED
  BY <1>2, <1>4 DEF Parent

LEMMA ParentHasChild ==
  ASSUME NEW c \in Node, Parent[c] # None PROVE Parent[c] \in Node /\ c \in Children(Parent[c])
BY DEF Parent

(* The way up begins with the node, and goes on with that of its parent.     *)
Upper(n) == IF Parent[n] = None THEN <<>> ELSE Up(Parent[n])

LEMMA WalkUp ==
  ASSUME NEW n \in Node
  PROVE  /\ Upper(n) \in Seq(Frame) /\ Stat(n) \in Frame /\ Up(n) = <<Stat(n)>> \o Upper(n)
         /\ Above(n) = {n} \cup (IF Parent[n] = None THEN {} ELSE Above(Parent[n]))
<1> DEFINE rest == IF Parent[n] = None THEN <<>> ELSE Path[Parent[n]]
<1>1. Path[n] = <<n>> \o rest /\ rest \in Seq(Node)
  <2>1. Path[n] = <<n>> \o rest
    BY WalkAssumption
  <2>2. Parent[n] # None => Path[Parent[n]] \in Seq(Node)
    BY ParentType, WalkType
  <2> QED
    BY <2>1, <2>2
<1>2. Parent[n] # None => Parent[n] \in Node
  BY ParentType
<1>3. Upper(n) = [i \in DOMAIN rest |-> Stat(rest[i])]
  <2>1. CASE Parent[n] = None
    BY <2>1 DEF Upper
  <2>2. CASE Parent[n] # None
    BY <2>2 DEF Upper, Up
  <2> QED
    BY <2>1, <2>2
<1>4. Upper(n) \in Seq(Frame) /\ Stat(n) \in Frame
  BY <1>2, UpDownType, StatType DEF Upper
<1>5. Above(n) = {n} \cup (IF Parent[n] = None THEN {} ELSE Above(Parent[n]))
  <2>1. Above(n) = {(<<n>> \o rest)[i] : i \in DOMAIN (<<n>> \o rest)}
    BY <1>1 DEF Above
  <2>2. ASSUME NEW s \in Seq(Node)
        PROVE  {(<<n>> \o s)[i] : i \in DOMAIN (<<n>> \o s)} = {n} \cup {s[i] : i \in DOMAIN s}
    <3>1. /\ DOMAIN (<<n>> \o s) = 1..(Len(s) + 1) /\ DOMAIN s = 1..Len(s) /\ Len(s) \in Nat
          /\ (<<n>> \o s)[1] = n /\ \A i \in 1..Len(s) : (<<n>> \o s)[i + 1] = s[i]
      OBVIOUS
    <3>2. ASSUME NEW i \in 1..(Len(s) + 1)
          PROVE  (<<n>> \o s)[i] \in {n} \cup {s[k] : k \in DOMAIN s}
      <4>1. CASE i = 1
        BY <3>1, <4>1
      <4>2. CASE i # 1
        <5>1. i - 1 \in 1..Len(s) /\ (i - 1) + 1 = i
          BY <3>1, <4>2
        <5> QED
          BY <3>1, <5>1
      <4> QED
        BY <4>1, <4>2
    <3>3. \A i \in 1..Len(s) : i + 1 \in 1..(Len(s) + 1)
      BY <3>1
    <3>4. 1 \in 1..(Len(s) + 1)
      BY <3>1
    <3> QED
      BY <3>1, <3>2, <3>3, <3>4, ZenonT(60)
  <2>3. {rest[i] : i \in DOMAIN rest} = IF Parent[n] = None THEN {} ELSE Above(Parent[n])
    BY DEF Above
  <2> HIDE DEF rest
  <2> QED
    BY <1>1, <2>1, <2>2, <2>3
<1>6. Up(n) = <<Stat(n)>> \o Upper(n)
  <2>1. ASSUME NEW s \in Seq(Node)
        PROVE  [i \in DOMAIN (<<n>> \o s) |-> Stat((<<n>> \o s)[i])]
                 = <<Stat(n)>> \o [i \in DOMAIN s |-> Stat(s[i])]
    <3> DEFINE u == [i \in DOMAIN s |-> Stat(s[i])]
    <3>1. u \in Seq(Frame) /\ Len(u) = Len(s) /\ DOMAIN s = 1..Len(s) /\ Len(s) \in Nat
      <4>1. \A i \in DOMAIN s : Stat(s[i]) \in Frame
        BY StatType
      <4> HIDE DEF Frame
      <4> QED
        BY <4>1
    <3>2. \A i \in 1..Len(s) : u[i] = Stat(s[i])
      BY <3>1
    <3> HIDE DEF u
    <3>3. /\ DOMAIN (<<n>> \o s) = 1..(Len(s) + 1)
          /\ \A i \in 1..(Len(s) + 1) : (<<n>> \o s)[i] = IF i = 1 THEN n ELSE s[i - 1]
      OBVIOUS
    <3>4. <<Stat(n)>> \o u = [i \in 1..(Len(s) + 1) |-> IF i = 1 THEN Stat(n) ELSE u[i - 1]]
      <4>1. ASSUME NEW f, NEW t \in Seq(Frame)
            PROVE  <<f>> \o t = [i \in 1..(Len(t) + 1) |-> IF i = 1 THEN f ELSE t[i - 1]]
        OBVIOUS
      <4> QED
        BY <3>1, <4>1
    <3>5. \A i \in 1..(Len(s) + 1) : i # 1 => i - 1 \in 1..Len(s)
      BY <3>1
    <3> HIDE DEF Stat
    <3> QED
      BY <3>2, <3>3, <3>4, <3>5 DEF u
  <2> HIDE DEF rest
  <2>2. Up(n) = [i \in DOMAIN (<<n>> \o rest) |-> Stat((<<n>> \o rest)[i])]
    BY <1>1 DEF Up
  <2> QED
    BY <1>1, <1>3, <2>1, <2>2
<1> QED
  BY <1>4, <1>5, <1>6

(* The head of a walk up, and what is behind it.                             *)
LEMMA WalkUpFirst ==
  ASSUME NEW n \in Node, NEW rest \in Seq(Frame), NEW s, s = Up(n) \o rest
  PROVE  /\ s # <<>> /\ Head(s) = Stat(n) /\ Tail(s) = Upper(n) \o rest
<1>1. ASSUME NEW f \in Frame, NEW u \in Seq(Frame)
      PROVE  LET t == (<<f>> \o u) \o rest
             IN  t # <<>> /\ Head(t) = f /\ Tail(t) = u \o rest
  <2> HIDE DEF Frame
  <2>1. (<<f>> \o u) \o rest = <<f>> \o (u \o rest) /\ u \o rest \in Seq(Frame)
    <3>1. <<f>> \in Seq(Frame)
      OBVIOUS
    <3> QED
      BY <3>1, ThreeParts, ConcatProperties
  <2>2. ASSUME NEW v \in Seq(Frame) PROVE <<f>> \o v # <<>> /\ Head(<<f>> \o v) = f /\ Tail(<<f>> \o v) = v
    OBVIOUS
  <2> QED
    BY <2>1, <2>2
<1>2. Upper(n) \in Seq(Frame) /\ Stat(n) \in Frame /\ Up(n) = <<Stat(n)>> \o Upper(n)
  BY WalkUp
<1> QED
  BY <1>1, <1>2

(* getRLockRoot finds the same node from everywhere below that lists the name. *)
LEMMA RLockRootAbove ==
  ASSUME NEW n \in Node, NEW a \in Above(n), NEW r, r \in RLocks[a]
  PROVE  RLockRoot(n, r) = RLockRoot(a, r) /\ r \in RLocks[RLockRoot(n, r)]
<1> DEFINE p == Path[n]
           q == Path[a]
           L == {j \in DOMAIN p : r \in RLocks[p[j]]}
           M == {k \in DOMAIN q : r \in RLocks[q[k]]}
<1>1. /\ p \in Seq(Node) /\ DOMAIN p = 1..Len(p) /\ Len(p) \in Nat
      /\ \E i \in DOMAIN p : p[i] = a
  BY WalkType DEF Above
<1>2. PICK i \in 1..Len(p) : p[i] = a
  BY <1>1
<1>3. q = SubSeq(p, i, Len(p))
  BY <1>1, <1>2, WalkAssumption
<1>4. /\ DOMAIN q = 1..(Len(p) - i + 1)
      /\ \A k \in 1..(Len(p) - i + 1) : q[k] = p[i + k - 1] /\ i + k - 1 \in 1..Len(p)
  <2> HIDE DEF p, q
  <2> QED
    BY <1>1, <1>2, <1>3
<1>5. PICK l \in L : \A j \in L : j <= l
  <2>1. i \in L /\ L \in SUBSET (1..Len(p))
    BY <1>1, <1>2
  <2> HIDE DEF L
  <2> QED
    BY <1>1, <2>1, LastPlace
<1>6. l \in 1..Len(p) /\ i <= l
  BY <1>1, <1>2, <1>5
<1> DEFINE m == l - i + 1
<1>7. m \in M /\ \A k \in M : k <= m
  <2>1. m \in 1..(Len(p) - i + 1) /\ i + m - 1 = l
    BY <1>1, <1>2, <1>6, SMTT(30)
  <2>2. ASSUME NEW k \in M PROVE k <= m
    <3>1. k \in 1..(Len(p) - i + 1) /\ i + k - 1 \in L
      BY <1>1, <1>4
    <3>2. i + k - 1 <= l
      BY <1>5, <3>1
    <3> QED
      BY <1>1, <1>2, <1>6, <3>1, <3>2
  <2> HIDE DEF m
  <2> QED
    BY <1>4, <1>5, <2>1, <2>2
<1>8. ASSUME NEW S \in SUBSET Int, NEW x \in S, \A j \in S : j <= x
      PROVE  (CHOOSE y \in S : \A j \in S : j <= y) = x
  <2> DEFINE c == CHOOSE y \in S : \A j \in S : j <= y
  <2>1. c \in S /\ \A j \in S : j <= c
    BY <1>8
  <2> HIDE DEF c
  <2>2. c <= x /\ x <= c /\ c \in Int /\ x \in Int
    BY <1>8, <2>1
  <2> QED
    BY <2>2 DEF c
<1>9. L \in SUBSET Int /\ M \in SUBSET Int
  BY <1>1, <1>4
<1>10. RLockRoot(n, r) = p[l] /\ RLockRoot(a, r) = q[m]
  <2>1. (CHOOSE y \in L : \A j \in L : j <= y) = l /\ (CHOOSE y \in M : \A j \in M : j <= y) = m
    <3> HIDE DEF L, M, m
    <3> QED
      BY <1>5, <1>7, <1>8, <1>9
  <2> QED
    BY <2>1 DEF RLockRoot
<1>11. q[m] = p[l]
  <2>1. m \in 1..(Len(p) - i + 1) /\ i + m - 1 = l
    BY <1>1, <1>2, <1>6, SMTT(30)
  <2> HIDE DEF m
  <2> QED
    BY <1>4, <2>1
<1> QED
  BY <1>5, <1>10, <1>11

(* No name is an xlock of a node and any lock of a node above it: of such a   *)
(* tree the code panics while it takes the locks on the way up.              *)
NoNestedLocks ==
  \A n \in Node : \A a \in Ancestors(n) :
    XLocks[n] \cap (XLocks[a] \cup RLocks[a]) = {} /\ RLocks[n] \cap XLocks[a] = {}

(* A node that is about to run: a start of it is under way, or a sub-node runs. *)
Pending(p) == ~Active(status[p]) /\ (HasActive(p) \/ (p \in RunNode /\ starting[p]))

(* Nothing holds such a node back, neither a decision nor a lock.            *)
Ready(a) ==
  /\ a \notin RunNode => ~want[a] /\ held[a] = "Waiting"
  /\ ~Active(status[a]) => CannotXAcquire(a) = {} /\ CannotRAcquire(a) = {}

(* The walk up from it is what comes next, and all the way is free.          *)
PendingOK(p) ==
  Pending(p) => /\ \E rest \in Seq(Frame) : agenda = Up(p) \o rest
                /\ \A a \in Above(p) : Ready(a)

(* A group that was frozen or skipped has nothing that runs; it shows it, or  *)
(* is about to be updated.                                                   *)
TellsOf(f, g) == f = Stat(g) \/ (f.do = "done" /\ f.node = g /\ f.changed)
Coming(s, g)  == \E i \in DOMAIN s : TellsOf(s[i], g)
HeldOK(g) ==
  /\ ~want[g]
  /\ held[g] # "Waiting" => ~HasActive(g) /\ (status[g] = held[g] \/ Coming(agenda, g))

(* What runs has its locks; a name is locked in one way; the record of an     *)
(* rlock has a reader.                                                       *)
LocksOK(n) ==
  status[n] = "Running" => /\ \A r \in XLocks[n] : xby[r] = n
                           /\ \A r \in RLocks[n] : rby[r] = RLockRoot(n, r)
OneKind   == \A r \in Lock : xby[r] = None \/ rby[r] = None
Reader(n, r) == status[n] = "Running" /\ r \in RLocks[n] /\ RLockRoot(n, r) = rby[r]
Read      == \A r \in Lock : rby[r] # None => \E n \in Node : Reader(n, r)

LockInv ==
  /\ XLockHeld /\ OneKind /\ Read
  /\ \A n \in Node : status[n] # "Paused" /\ PendingOK(n) /\ LocksOK(n)
  /\ \A g \in Node \ RunNode : HeldOK(g)

(* A node that is about to run is the next to be updated.                    *)
LEMMA PendingAtHead ==
  ASSUME TypeOK, NEW p \in Node, PendingOK(p), Pending(p) PROVE AtHead(p)
<1>1. PICK rest \in Seq(Frame) : agenda = Up(p) \o rest
  BY DEF PendingOK
<1> QED
  BY <1>1, WalkUpFirst DEF AtHead

(* While no node is about to run, nodes above a node that runs do so too.     *)
LEMMA ActiveAbove ==
  ASSUME TypeOK, \A p \in Node : ~Pending(p),
         NEW n \in Node, status[n] = "Running", NEW a \in Above(n)
  PROVE  status[a] = "Running"
<1> DEFINE p == Path[n]
           B == {i \in DOMAIN p : \A j \in DOMAIN p : j <= i => status[p[j]] = "Running"}
<1>1. /\ p \in Seq(Node) /\ DOMAIN p = 1..Len(p) /\ Len(p) \in Nat /\ p[1] = n /\ 1 \in DOMAIN p
      /\ \E k \in DOMAIN p : p[k] = a
      /\ \A i \in 2..Len(p) : p[i] = Parent[p[i - 1]]
  <2>1. p \in Seq(Node) /\ Len(p) >= 1 /\ p[1] = n
    BY WalkType
  <2>2. \A i \in 2..Len(p) : p[i] = Parent[p[i - 1]]
    BY WalkAssumption
  <2>3. \E k \in DOMAIN p : p[k] = a
    BY DEF Above
  <2> HIDE DEF p
  <2> QED
    BY <2>1, <2>2, <2>3
<1>2. PICK b \in B : \A j \in B : j <= b
  <2>1. 1 \in B /\ B \in SUBSET (1..Len(p))
    BY <1>1
  <2> HIDE DEF B
  <2> QED
    BY <1>1, <2>1, LastPlace
<1>3. b \in 1..Len(p)
  BY <1>1
<1>4. b = Len(p)
  <2> SUFFICES ASSUME b # Len(p) PROVE FALSE
    OBVIOUS
  <2>1. b + 1 \in 2..Len(p) /\ (b + 1) - 1 = b
    BY <1>1, <1>3
  <2>2. p[b + 1] = Parent[p[b]] /\ p[b] \in Node /\ p[b + 1] \in Node /\ status[p[b]] = "Running"
    <3>1. p[b + 1] = Parent[p[b]]
      BY <1>1, <2>1
    <3>2. p[b] \in Node /\ p[b + 1] \in Node
      BY <1>1, <1>3, <2>1
    <3>3. status[p[b]] = "Running"
      BY <1>1, <1>2, <1>3
    <3> QED
      BY <3>1, <3>2, <3>3
  <2>3. p[b] \in Children(p[b + 1])
    BY <2>2, NodeAssumption, ParentHasChild
  <2>4. status[p[b + 1]] = "Running"
    BY <2>2, <2>3 DEF Pending, HasActive, Active
  <2>5. b + 1 \in B
    <3>1. ASSUME NEW j \in DOMAIN p, j <= b + 1 PROVE status[p[j]] = "Running"
      <4>1. j = b + 1 \/ j <= b
        BY <1>1, <1>3, <3>1
      <4> QED
        BY <1>2, <2>4, <4>1
    <3> QED
      BY <1>1, <2>1, <3>1
  <2> HIDE DEF B
  <2> QED
    BY <1>2, <1>3, <2>5
<1>5. PICK k \in 1..Len(p) : p[k] = a
  BY <1>1
<1> QED
  BY <1>1, <1>2, <1>4, <1>5

-----------------------------------------------------------------------------
(* What updateStatus does to the locks of an unattended tree.                *)

(* The new status, and what it says of the node.                             *)
LEMMA CalcFacts ==
  ASSUME Unattended, TypeOK, RunOK, AllLive, LockInv, NEW n \in Node, UpdateStep(n),
         NEW s, s = CalcStatus(n).st
  PROVE  /\ s # "Paused"
         /\ n \notin RunNode /\ held[n] # "Waiting" => s = held[n]
         /\ s = "Running" /\ status[n] # "Running" => Pending(n)
         /\ Pending(n) => s = "Running"
         /\ status[n] = "Running" /\ s # "Running" => ~HasActive(n)
         /\ s = "Running" => ~CalcStatus(n).oe
         /\ n \in RunNode /\ starting[n] => s = "Running"
<1>1. OnErrorStatus(n) \in {"Success", "Failed"} /\ status[n] # "Paused"
  BY OnErrorAssumption DEF OnErrorStatus, LockInv
<1>2. CASE n \in RunNode
  <2>1. s = CalcRunStatus(n).st /\ CalcStatus(n) = CalcRunStatus(n) /\ ~HasActive(n)
    <3>1. Kids[n] = <<>>
      BY <1>2, NodeAssumption
    <3> QED
      BY <1>2, <3>1 DEF CalcStatus, RunNode, HasActive, Children
  <2>2. /\ want[n] => IF manual[n] = "Running" THEN starting[n] /\ status[n] = "Running"
                      ELSE manual[n] # "Paused" /\ ~starting[n] /\ status[n] # "Running"
        /\ starting[n] => status[n] = "Running" \/ ~want[n]
    BY <1>2 DEF RunOK, ManualOK, StartShows
  <2>3. s # "Paused"
    BY <1>1, <2>1, <2>2 DEF CalcRunStatus, ErrorStatus, Plain, Stays
  <2>4. s = "Running" /\ status[n] # "Running" => starting[n]
    <3>1. status'[n] = s
      BY DEF UpdateStep, SetStatus, TypeOK
    <3> QED
      BY <1>2, <3>1, RunningFrom DEF AllLive
  <2>5. Pending(n) => s = "Running"
    BY <2>1, <2>2 DEF Pending, Active, CalcRunStatus, Plain
  <2>6. s = "Running" => ~CalcStatus(n).oe
    BY <1>1, <2>1 DEF CalcRunStatus, ErrorStatus, Plain
  <2>7. starting[n] => s = "Running"
    BY <2>1, <2>2 DEF CalcRunStatus, Plain
  <2> QED
    BY <1>2, <2>1, <2>3, <2>4, <2>5, <2>6, <2>7 DEF Pending, Active
<1>3. CASE n \notin RunNode
  <2>1. s = CalcParSeqStatus(n).st /\ CalcStatus(n) = CalcParSeqStatus(n)
    BY <1>3 DEF CalcStatus, RunNode
  <2>2. ~want[n] /\ (held[n] # "Waiting" => ~HasActive(n)) /\ held[n] \in {"Waiting", "Frozen", "Skipped"}
    BY <1>3 DEF LockInv, HeldOK, TypeOK
  <2>3. s # "Paused" /\ (held[n] # "Waiting" => s = held[n]) /\ (s = "Running" => ~CalcStatus(n).oe)
    BY <1>1, <2>1, <2>2 DEF CalcParSeqStatus, Plain
  <2>4. s = "Running" /\ status[n] # "Running" => HasActive(n)
    BY <1>1, <2>1, <2>2 DEF CalcParSeqStatus, Plain
  <2>5. HasActive(n) => s = "Running"
    BY <2>1, <2>2 DEF CalcParSeqStatus, Plain, SeqFailed
  <2> QED
    BY <1>3, <2>3, <2>4, <2>5 DEF Pending, Active
<1> QED
  BY <1>2, <1>3

(* A node that is ready gets its locks.                                      *)
LEMMA LocksFree ==
  ASSUME TypeOK, LockInv, NEW n \in Node, Ready(n), status[n] # "Running"
  PROVE  /\ XFree(n) = XLocks[n] /\ ROpen(n) = RLocks[n]
         /\ \A r \in XLocks[n] : rby[r] = None
         /\ \A r \in RLocks[n] : xby[r] = None
<1>1. XLocks[n] \subseteq Lock /\ RLocks[n] \subseteq Lock
  BY LockAssumption
<1>2. CannotXAcquire(n) = {} /\ CannotRAcquire(n) = {} /\ status[n] # "Paused"
  BY DEF Ready, Active, LockInv
<1>3. \A r \in XLocks[n] : xby[r] # n
  BY <1>1, <1>2, NodeAssumption DEF LockInv, XLockHeld, HoldsLocks
<1>4. \A r \in XLocks[n] : xby[r] = None /\ rby[r] = None
  BY <1>1, <1>2, <1>3 DEF CannotXAcquire, Taken
<1>5. ASSUME NEW r \in RLocks[n] PROVE rby[r] \in {None, RLockRoot(n, r)}
  <2>1. rby[r] \in {None, n, RLockRoot(n, r)}
    BY <1>1, <1>2 DEF CannotRAcquire, Taken
  <2>2. CASE rby[r] = n
    <3>1. PICK m \in Node : Reader(m, r)
      BY <1>1, <2>2, NodeAssumption DEF LockInv, Read
    <3>2. RLockRoot(m, r) = n /\ n \in Above(m)
      BY <2>2, <3>1, RLockRootType DEF Reader
    <3> QED
      BY <2>2, <3>2, RLockRootAbove
  <2> QED
    BY <2>1, <2>2
<1>6. \A r \in RLocks[n] : xby[r] = None
  BY <1>1, <1>2 DEF CannotRAcquire, Taken, LockInv, OneKind
<1> QED
  BY <1>4, <1>5, <1>6 DEF XFree, ROpen

GoesOn    == \E calls \in Seq(Frame) : agenda' = calls \o Tail(agenda)
BecomesActive(n) ==
  /\ Pending(n) /\ AcquireLocks(n) /\ agenda' = Tail(agenda)
  /\ status' = [status EXCEPT ![n] = "Running"]
Ends(n, s) ==
  /\ status[n] = "Running" /\ s # "Running" /\ ReleaseLocks(n) /\ GoesOn
  /\ ~HasActive(n) /\ ~(n \in RunNode /\ starting[n])
  /\ status' = [status EXCEPT ![n] = s]
Keeps(n, s) ==
  /\ (s = "Running" <=> status[n] = "Running") /\ ~Pending(n) /\ UNCHANGED lockVars /\ GoesOn
  /\ status' = [status EXCEPT ![n] = s]

LEMMA UpdateCases ==
  ASSUME Unattended, TypeOK, AgendaOK, RunOK, AllLive, LockInv, UpdateStatus,
         NEW n \in Node, UpdateStep(n)
  PROVE  \E s \in Status \ {"Paused"} :
           /\ BecomesActive(n) \/ Ends(n, s) \/ Keeps(n, s)
           /\ n \notin RunNode /\ held[n] # "Waiting" => s = held[n] /\ ~BecomesActive(n)
<1> DEFINE new   == CalcStatus(n)
           s     == new.st
           calls == IF status[n] # s /\ ~HasError(status[n]) /\ new.oe /\ OnSiblings[n] # "None"
                       /\ Parent[n] # None
                    THEN SiblingCalls(n) ELSE <<>>
<1>1. Head(agenda).node = n /\ agenda \in Seq(Frame) /\ agenda # <<>>
  BY DEF UpdateStep, AtHead, Stat, TypeOK
<1>2. /\ status' = [status EXCEPT ![n] = s]
      /\ \/ /\ ~HoldsLocks(status[n]) /\ HoldsLocks(s)
            /\ AcquireLocks(n) /\ agenda' = calls \o Tail(agenda)
         \/ /\ ~HoldsLocks(status[n]) /\ HoldsLocks(s)
            /\ AcquirePanics(n)
         \/ /\ HoldsLocks(status[n]) /\ ~HoldsLocks(s)
            /\ ReleaseLocks(n) /\ agenda' = calls \o Tail(agenda)
         \/ /\ HoldsLocks(status[n]) = HoldsLocks(s)
            /\ UNCHANGED lockVars /\ agenda' = calls \o Tail(agenda)
  BY <1>1, Zenon DEF UpdateStatus, SetStatus
<1>3. calls \in Seq(Frame)
  <2> HIDE DEF new, Frame
  <2>1. <<>> \in Seq(Frame)
    OBVIOUS
  <2> QED
    BY <2>1, SiblingCallsFree
<1>4. NodeTypeOK /\ s \in Status
  BY TypeParts, CalcType
<1>5. /\ s # "Paused"
      /\ n \notin RunNode /\ held[n] # "Waiting" => s = held[n] /\ held[n] # "Running"
      /\ s = "Running" /\ status[n] # "Running" => Pending(n)
      /\ Pending(n) => s = "Running"
      /\ status[n] = "Running" /\ s # "Running" => ~HasActive(n)
      /\ s = "Running" => calls = <<>>
      /\ n \in RunNode /\ starting[n] => s = "Running"
  BY CalcFacts DEF TypeOK
<1>6. status[n] # "Paused" /\ PendingOK(n)
  BY DEF LockInv
<1>7. Pending(n) => status[n] # "Running" /\ Ready(n)
  BY <1>6, WalkType DEF Pending, PendingOK, Active
<1>8. Tail(agenda) \in Seq(Frame) /\ <<>> \o Tail(agenda) = Tail(agenda)
  <2> HIDE DEF Frame
  <2> QED
    BY <1>1
<1> HIDE DEF s, calls, new
<1>9. CASE s = "Running" /\ status[n] # "Running"
  <2>1. ~AcquirePanics(n)
    BY <1>5, <1>7, <1>9, LocksFree DEF AcquirePanics
  <2>2. AcquireLocks(n) /\ agenda' = Tail(agenda)
    BY <1>2, <1>5, <1>6, <1>8, <1>9, <2>1 DEF HoldsLocks
  <2>3. BecomesActive(n)
    BY <1>2, <1>5, <1>9, <2>2 DEF BecomesActive
  <2> QED
    BY <1>4, <1>5, <1>9, <2>3
<1>10. CASE s # "Running" /\ status[n] = "Running"
  <2>1. ReleaseLocks(n) /\ GoesOn
    BY <1>2, <1>3, <1>5, <1>10 DEF HoldsLocks, GoesOn
  <2>2. Ends(n, s) /\ ~BecomesActive(n)
    BY <1>2, <1>5, <1>7, <1>10, <2>1 DEF Ends, BecomesActive
  <2> QED
    BY <1>4, <1>5, <2>2
<1>11. CASE s = "Running" <=> status[n] = "Running"
  <2>1. UNCHANGED lockVars /\ GoesOn
    BY <1>2, <1>3, <1>5, <1>6, <1>11 DEF HoldsLocks, GoesOn
  <2>2. ~Pending(n)
    BY <1>5, <1>7, <1>11
  <2>3. Keeps(n, s) /\ ~BecomesActive(n)
    BY <1>2, <1>11, <2>1, <2>2 DEF Keeps, BecomesActive
  <2> QED
    BY <1>4, <1>5, <2>3
<1> QED
  BY <1>9, <1>10, <1>11

(* On the way up from a node to one above it stands a sub-node of that one.   *)
LEMMA ChildOnTheWay ==
  ASSUME NEW m \in Node, NEW n \in Ancestors(m) PROVE \E c \in Above(m) : c \in Children(n)
<1>1. PICK i \in DOMAIN Path[m] : Path[m][i] = n
  BY DEF Ancestors, Above
<1>2. n # m /\ Path[m] \in Seq(Node) /\ Path[m][1] = m
  BY WalkType DEF Ancestors
<1>3. i \in 2..Len(Path[m]) /\ n \in Node
  BY <1>1, <1>2
<1>4. i - 1 \in DOMAIN Path[m] /\ Path[m][i - 1] \in Node
  BY <1>2, <1>3
<1>5. n = Parent[Path[m][i - 1]]
  BY <1>1, <1>3, WalkAssumption
<1>6. Path[m][i - 1] \in Children(n)
  BY <1>3, <1>4, <1>5, NodeAssumption, ParentHasChild
<1> QED
  BY <1>4, <1>6 DEF Above

(* The next node to be updated is the only one that may be about to run.     *)
LEMMA OnlyHeadPending ==
  ASSUME TypeOK, LockInv, NEW n \in Node, AtHead(n), NEW p \in Node, Pending(p) PROVE p = n
<1>1. AtHead(p)
  BY PendingAtHead DEF LockInv
<1> QED
  BY <1>1 DEF AtHead, Stat

(* The locks of a node that becomes active ...                               *)
LEMMA BecomesLocks ==
  ASSUME TypeOK, LockInv, NEW n \in Node, BecomesActive(n)
  PROVE  (\A m \in Node : LocksOK(m)') /\ OneKind' /\ Read'
<1>1. /\ XFree(n) = XLocks[n] /\ ROpen(n) = RLocks[n]
      /\ xby' = [r \in Lock |-> IF r \in XLocks[n] THEN n ELSE xby[r]]
      /\ rby' = [r \in Lock |-> IF r \in RFree(n) THEN RLockRoot(n, r) ELSE rby[r]]
  BY DEF BecomesActive, AcquireLocks, Take
<1>2. status[n] # "Running" /\ status'[n] = "Running" /\ \A m \in Node : m # n => status'[m] = status[m]
  BY DEF BecomesActive, Pending, Active, TypeOK
<1>3. PendingOK(n) /\ Ready(n)
  BY WalkType DEF LockInv, PendingOK, BecomesActive
<1>4. /\ \A r \in XLocks[n] : rby[r] = None /\ xby[r] = None
      /\ \A r \in RLocks[n] : xby[r] = None /\ rby[r] \in {None, RLockRoot(n, r)}
  BY <1>1, <1>2, <1>3, LocksFree DEF XFree, ROpen
<1>5. \A m \in Node : /\ XLocks[m] \subseteq Lock /\ RLocks[m] \subseteq Lock
                      /\ \A r \in RLocks[m] : RLockRoot(m, r) \in Node
  BY LockAssumption, RLockRootType, WalkType
<1>6. RFree(n) \subseteq RLocks[n] /\ XLocks[n] \cap RLocks[n] = {}
  BY LockAssumption DEF RFree
<1>7. ASSUME NEW m \in Node, status'[m] = "Running"
      PROVE  /\ \A r \in XLocks[m] : xby'[r] = m
             /\ \A r \in RLocks[m] : rby'[r] = RLockRoot(m, r)
  <2>1. CASE m = n
    BY <1>1, <1>4, <1>5, <2>1 DEF RFree
  <2>2. CASE m # n
    <3>1. LocksOK(m) /\ status[m] = "Running"
      BY <1>2, <1>7, <2>2 DEF LockInv
    <3> QED
      BY <1>1, <1>4, <1>5, <3>1, NodeAssumption DEF LocksOK, RFree
  <2> QED
    BY <2>1, <2>2
<1>8. OneKind'
  BY <1>1, <1>4, <1>6 DEF LockInv, OneKind
<1>9. ASSUME NEW r \in Lock, rby'[r] # None PROVE \E m \in Node : Reader(m, r)'
  <2>1. CASE r \in RFree(n)
    BY <1>1, <1>2, <1>6, <2>1 DEF Reader
  <2>2. CASE r \notin RFree(n)
    <3>1. rby'[r] = rby[r]
      BY <1>1, <2>2
    <3>2. PICK m \in Node : Reader(m, r)
      BY <1>9, <3>1 DEF LockInv, Read
    <3> QED
      BY <1>2, <3>1, <3>2 DEF Reader
  <2> QED
    BY <2>1, <2>2
<1> QED
  BY <1>7, <1>8, <1>9 DEF LocksOK, Read

(* ... and of one that ends: what runs below it would hold its rlocks, too.   *)
LEMMA EndsLocks ==
  ASSUME TypeOK, LockInv, NEW n \in Node, AtHead(n), NEW s, Ends(n, s)
  PROVE  (\A m \in Node : LocksOK(m)') /\ OneKind' /\ Read'
<1>1. /\ xby' = [r \in Lock |-> IF r \in XLocks[n] /\ xby[r] = n THEN None ELSE xby[r]]
      /\ rby' = [r \in Lock |-> IF r \in RLocks[n] /\ rby[r] = n THEN None ELSE rby[r]]
  BY DEF Ends, ReleaseLocks
<1>2. /\ status[n] = "Running" /\ status'[n] # "Running" /\ ~HasActive(n)
      /\ \A m \in Node : m # n => status'[m] = status[m]
  BY DEF Ends, TypeOK
<1>3. \A p \in Node : ~Pending(p)
  BY <1>2, OnlyHeadPending DEF Pending, Active
<1>4. ASSUME NEW m \in Node, status[m] = "Running", n \in Above(m) PROVE m = n
  <2> SUFFICES ASSUME m # n PROVE FALSE
    OBVIOUS
  <2>1. PICK c \in Above(m) : c \in Children(n)
    BY <1>4, ChildOnTheWay DEF Ancestors
  <2>2. status[c] = "Running"
    BY <1>3, <1>4, <2>1, ActiveAbove
  <2> QED
    BY <1>2, <2>1, <2>2 DEF HasActive, Active
<1>5. \A m \in Node : XLocks[m] \subseteq Lock /\ RLocks[m] \subseteq Lock
  BY LockAssumption
<1>6. ASSUME NEW m \in Node, status'[m] = "Running"
      PROVE  /\ \A r \in XLocks[m] : xby'[r] = m
             /\ \A r \in RLocks[m] : rby'[r] = RLockRoot(m, r)
  <2>1. m # n /\ status[m] = "Running" /\ LocksOK(m)
    BY <1>2, <1>6 DEF LockInv
  <2>2. \A r \in RLocks[m] : rby[r] = RLockRoot(m, r) /\ rby[r] # n
    BY <1>4, <2>1, RLockRootType DEF LocksOK
  <2>3. \A r \in XLocks[m] : xby[r] = m
    BY <2>1 DEF LocksOK
  <2> QED
    BY <1>1, <1>5, <2>1, <2>2, <2>3
<1>7. OneKind'
  BY <1>1 DEF LockInv, OneKind
<1>8. ASSUME NEW r \in Lock, rby'[r] # None PROVE \E m \in Node : Reader(m, r)'
  <2>1. rby'[r] = rby[r] /\ ~(r \in RLocks[n] /\ rby[r] = n) /\ rby[r] # None
    BY <1>1, <1>8
  <2>2. PICK m \in Node : Reader(m, r)
    BY <2>1 DEF LockInv, Read
  <2>3. CASE m # n
    BY <1>2, <2>1, <2>2, <2>3 DEF Reader
  <2>4. CASE m = n
    <3> DEFINE q == RLockRoot(n, r)
    <3>1. q \in Above(n) /\ q \in Node /\ r \in RLocks[n] /\ rby[r] = q /\ q # n
      BY <2>1, <2>2, <2>4, RLockRootType, WalkType DEF Reader
    <3>2. status[q] = "Running"
      BY <1>2, <1>3, <3>1, ActiveAbove
    <3>3. r \in RLocks[q]
      <4>1. n \in Above(n)
        BY WalkType
      <4> QED
        BY <3>1, <4>1, RLockRootAbove
    <3>4. RLockRoot(q, r) = q
      BY <3>1, <3>3, RLockRootAbove
    <3> QED
      BY <1>2, <2>1, <3>1, <3>2, <3>3, <3>4 DEF Reader
  <2> QED
    BY <2>3, <2>4
<1> QED
  BY <1>6, <1>7, <1>8 DEF LocksOK, Read

(* An update leaves no node about to run but the parent of one that now runs. *)
LEMMA ReadyAbove ==
  ASSUME TypeOK, NoNestedLocks, NEW n \in Node, BecomesActive(n),
         NEW a \in Ancestors(n), Ready(a), UNCHANGED held, want'[a] => want[a]
  PROVE  Ready(a)'
<1>1. /\ a \in Node /\ a \in Above(n) /\ status'[a] = status[a]
      /\ xby' = [r \in Lock |-> IF r \in XLocks[n] THEN n ELSE xby[r]]
      /\ rby' = [r \in Lock |-> IF r \in RFree(n) THEN RLockRoot(n, r) ELSE rby[r]]
  BY WalkType DEF BecomesActive, AcquireLocks, Take, Ancestors, TypeOK
<1>2. /\ XLocks[n] \cap (XLocks[a] \cup RLocks[a]) = {}
      /\ RFree(n) \cap XLocks[a] = {}
  BY DEF NoNestedLocks, RFree
<1>3. XLocks[a] \subseteq Lock /\ RLocks[a] \subseteq Lock
  BY <1>1, LockAssumption
<1>4. \A r \in XLocks[a] : xby'[r] = xby[r] /\ rby'[r] = rby[r]
  BY <1>1, <1>2, <1>3
<1>5. \A r \in RLocks[a] :
        xby'[r] = xby[r] /\ (rby'[r] = rby[r] \/ (rby'[r] = RLockRoot(a, r) /\ rby'[r] # None))
  <2>1. \A r \in RLocks[a] : RLockRoot(n, r) = RLockRoot(a, r) /\ RLockRoot(a, r) # None
    BY <1>1, RLockRootAbove, RLockRootType, WalkType, NodeAssumption
  <2> QED
    BY <1>1, <1>2, <1>3, <2>1
<1>6. CannotXAcquire(a) = {} => CannotXAcquire(a)' = {}
  BY <1>3, <1>4 DEF CannotXAcquire, Taken
<1>7. CannotRAcquire(a) = {} => CannotRAcquire(a)' = {}
  BY <1>3, <1>5 DEF CannotRAcquire, Taken
<1> QED
  BY <1>1, <1>6, <1>7 DEF Ready, Active

LEMMA UpdatePending ==
  ASSUME TypeOK, NoNestedLocks, LockInv, NEW n \in Node, UpdateStep(n), NEW s \in Status,
         BecomesActive(n) \/ Ends(n, s) \/ Keeps(n, s), NEW q \in Node, Pending(q)'
  PROVE  PendingOK(q)' /\ BecomesActive(n) /\ n \in Children(q)
<1>1. UNCHANGED <<held, starting>> /\ \A a \in Node : want'[a] => want[a]
  BY DEF UpdateStep, SetStatus, startVars, TypeOK
<1>2. \A p \in Node : Pending(p) => p = n
  BY OnlyHeadPending DEF UpdateStep
<1>3. \A c \in Children(q) : c \in Node
  BY ChildHasParent
<1>4. ~Ends(n, s) /\ ~Keeps(n, s)
  <2> SUFFICES ASSUME Ends(n, s) \/ Keeps(n, s) PROVE FALSE
    OBVIOUS
  <2>1. status' = [status EXCEPT ![n] = s] /\ (s = "Running" => status[n] = "Running")
    BY DEF Ends, Keeps
  <2>2. HasActive(q)' => HasActive(q)
    BY <1>3, <2>1 DEF HasActive, Active, TypeOK
  <2>3. CASE q # n
    BY <1>1, <1>2, <2>1, <2>2, <2>3 DEF Pending, Active, TypeOK
  <2>4. CASE q = n /\ Ends(n, s)
    BY <1>1, <2>2, <2>4 DEF Pending, Ends
  <2>5. CASE q = n /\ Keeps(n, s)
    BY <1>1, <2>1, <2>2, <2>5 DEF Pending, Active, Keeps, TypeOK
  <2> QED
    BY <2>3, <2>4, <2>5
<1>5. n \in Children(q) /\ q # n
  <2>1. /\ Pending(n) /\ status' = [status EXCEPT ![n] = "Running"]
        /\ \A m \in Node : m # n => status'[m] = status[m]
    BY <1>4 DEF BecomesActive, TypeOK
  <2>2. q # n
    BY <2>1 DEF Pending, Active, TypeOK
  <2>3. ~Pending(q)
    BY <1>2, <2>2
  <2> QED
    BY <1>1, <1>3, <2>1, <2>2, <2>3 DEF Pending, HasActive, Active
<1>6. Parent[n] = q /\ Parent[n] # None
  BY <1>5, ChildHasParent, NodeAssumption
<1>7. PICK rest \in Seq(Frame) : agenda = Up(n) \o rest
  BY <1>4 DEF LockInv, PendingOK, BecomesActive
<1>8. agenda' = Up(q) \o rest
  <2>1. agenda' = Tail(agenda)
    BY <1>4 DEF BecomesActive
  <2> QED
    BY <1>6, <1>7, <2>1, WalkUpFirst DEF Upper
<1>9. ASSUME NEW a \in Above(q) PROVE Ready(a)'
  <2>1. a \in Above(n) /\ Ready(a)
    BY <1>4, <1>6, WalkUp DEF LockInv, PendingOK, BecomesActive
  <2>2. a # n
    <3>1. Path[n] = <<n>> \o Path[q] /\ Path[q] \in Seq(Node) /\ \E k \in DOMAIN Path[q] : Path[q][k] = a
      BY <1>6, WalkAssumption, WalkType DEF Above
    <3>2. ASSUME NEW u \in Seq(Node), NEW k \in DOMAIN u
          PROVE  /\ 1 \in DOMAIN (<<n>> \o u) /\ (<<n>> \o u)[1] = n
                 /\ k + 1 \in DOMAIN (<<n>> \o u) /\ (<<n>> \o u)[k + 1] = u[k] /\ k + 1 # 1
      <4>1. k \in 1..Len(u) /\ Len(u) \in Nat
        OBVIOUS
      <4> QED
        BY <4>1
    <3>3. \A i, j \in DOMAIN Path[n] : Path[n][i] = Path[n][j] => i = j
      BY WalkAssumption
    <3>4. PICK k \in DOMAIN Path[q] : Path[q][k] = a
      BY <3>1
    <3>5. /\ 1 \in DOMAIN Path[n] /\ Path[n][1] = n
          /\ k + 1 \in DOMAIN Path[n] /\ Path[n][k + 1] = a /\ k + 1 # 1
      BY <3>1, <3>2, <3>4
    <3> QED
      BY <3>3, <3>5
  <2> QED
    BY <1>1, <1>4, <2>1, <2>2, ReadyAbove, WalkType DEF Ancestors
<1> QED
  BY <1>4, <1>5, <1>8, <1>9 DEF PendingOK

(* What is to come about a group stays to come, until it is the next.         *)
LEMMA ComingLater ==
  ASSUME NEW s \in Seq(Frame), NEW t \in Seq(Frame), NEW g, Coming(s, g) \/ Coming(t, g)
  PROVE  Coming(s \o t, g)
<1> HIDE DEF Frame
<1>1. CASE Coming(s, g)
  <2>1. PICK i \in DOMAIN s : TellsOf(s[i], g)
    BY <1>1 DEF Coming
  <2>2. i \in DOMAIN (s \o t) /\ (s \o t)[i] = s[i]
    BY ConcatPlaces
  <2> QED
    BY <2>1, <2>2 DEF Coming
<1>2. CASE Coming(t, g)
  <2>1. PICK i \in DOMAIN t : TellsOf(t[i], g)
    BY <1>2 DEF Coming
  <2>2. Len(s) + i \in DOMAIN (s \o t) /\ (s \o t)[Len(s) + i] = t[i]
    BY ConcatPlaces
  <2> QED
    BY <2>1, <2>2 DEF Coming
<1> QED
  BY <1>1, <1>2

LEMMA ComingBehind ==
  ASSUME NEW s \in Seq(Frame), s # <<>>, NEW g, Coming(s, g), ~TellsOf(Head(s), g)
  PROVE  Coming(Tail(s), g)
<1> HIDE DEF Frame
<1>1. PICK i \in DOMAIN s : TellsOf(s[i], g)
  BY DEF Coming
<1>2. i # 1
  <2>1. Head(s) = s[1]
    OBVIOUS
  <2> QED
    BY <1>1, <2>1
<1>3. i - 1 \in DOMAIN Tail(s) /\ Tail(s)[i - 1] = s[i]
  BY <1>2
<1> QED
  BY <1>1, <1>3 DEF Coming

LEMMA ComingChanged ==
  ASSUME NEW rest \in Seq(Frame), NEW sub, NEW g, Coming(rest, g)
  PROVE  Coming(Changed(sub, rest), g)
<1>1. ASSUME NEW f \in Frame, TellsOf(f, g) PROVE TellsOf([f EXCEPT !.changed = TRUE], g)
  <2>1. CASE f = Stat(g)
    <3>1. [f EXCEPT !.changed = TRUE] = f
      BY <2>1 DEF Stat
    <3> QED
      BY <1>1, <3>1
  <2>2. CASE f.do = "done"
    <3>1. /\ [f EXCEPT !.changed = TRUE].do = "done" /\ [f EXCEPT !.changed = TRUE].node = f.node
          /\ [f EXCEPT !.changed = TRUE].changed
      BY <2>2 DEF Frame
    <3>2. f.node = g
      BY <1>1 DEF TellsOf, Stat
    <3> QED
      BY <3>1, <3>2 DEF TellsOf
  <2> QED
    BY <1>1, <2>1, <2>2 DEF TellsOf
<1>2. PICK i \in DOMAIN rest : TellsOf(rest[i], g)
  BY DEF Coming
<1>3. \A k \in DOMAIN rest : rest[k] \in Frame
  OBVIOUS
<1>4. ASSUME NEW j PROVE Coming([rest EXCEPT ![j] = [rest[j] EXCEPT !.changed = TRUE]], g)
  <2> HIDE DEF TellsOf, Frame
  <2> QED
    BY <1>1, <1>2, <1>3 DEF Coming
<1> QED
  BY <1>4 DEF Changed

LEMMA ComingGoesOn ==
  ASSUME TypeOK, GoesOn, agenda # <<>>, NEW g, Coming(agenda, g), ~TellsOf(Head(agenda), g)
  PROVE  Coming(agenda, g)'
<1>1. PICK calls \in Seq(Frame) : agenda' = calls \o Tail(agenda)
  BY DEF GoesOn
<1>2. agenda \in Seq(Frame) /\ Tail(agenda) \in Seq(Frame)
  <2>1. agenda \in Seq(Frame)
    BY DEF TypeOK
  <2> HIDE DEF Frame
  <2> QED
    BY <2>1
<1>3. Coming(calls \o Tail(agenda), g)
  BY <1>2, ComingBehind, ComingLater
<1> QED
  BY <1>1, <1>3 DEF Coming

(* A frozen or skipped group ...                                             *)
LEMMA UpdateHeld ==
  ASSUME TypeOK, LockInv, NEW n \in Node, UpdateStep(n), NEW s \in Status,
         BecomesActive(n) \/ Ends(n, s) \/ Keeps(n, s),
         n \notin RunNode /\ held[n] # "Waiting" => s = held[n] /\ ~BecomesActive(n),
         NEW g \in Node \ RunNode
  PROVE  HeldOK(g)'
<1>1. held' = held /\ (want'[g] => want[g])
  BY DEF UpdateStep, SetStatus, TypeOK
<1>2. HeldOK(g)
  BY DEF LockInv
<1> SUFFICES ASSUME held[g] # "Waiting"
             PROVE  ~HasActive(g)' /\ (status'[g] = held[g] \/ Coming(agenda, g)')
  BY <1>1, <1>2 DEF HeldOK
<1>3. ~HasActive(g)'
  <2> SUFFICES ASSUME NEW c \in Children(g), status'[c] = "Running" PROVE FALSE
    BY DEF HasActive, Active
  <2>1. c \in Node /\ Parent[c] = g /\ status[c] # "Running"
    BY <1>2, ChildHasParent DEF HeldOK, HasActive, Active
  <2>2. c = n /\ BecomesActive(n)
    BY <2>1 DEF BecomesActive, Ends, Keeps, TypeOK
  <2>3. g \in Above(n)
    BY <2>1, <2>2, NodeAssumption, WalkUp, WalkType
  <2>4. Ready(g)
    BY <2>2, <2>3 DEF BecomesActive, LockInv, PendingOK
  <2> QED
    BY <2>4 DEF Ready
<1>4. CASE g = n
  <2>1. s = held[n] /\ (Ends(n, s) \/ Keeps(n, s))
    BY <1>4
  <2>2. status'[n] = s
    BY <2>1 DEF Ends, Keeps, TypeOK
  <2> QED
    BY <1>3, <1>4, <2>1, <2>2
<1>5. CASE g # n
  <2>1. status'[g] = status[g]
    BY <1>5 DEF BecomesActive, Ends, Keeps, TypeOK
  <2>2. GoesOn
    <3>1. CASE BecomesActive(n)
      <4>1. agenda' = Tail(agenda) /\ agenda \in Seq(Frame) /\ agenda # <<>>
        BY <3>1 DEF BecomesActive, UpdateStep, AtHead, TypeOK
      <4> HIDE DEF Frame
      <4>2. <<>> \in Seq(Frame) /\ <<>> \o Tail(agenda) = Tail(agenda)
        BY <4>1
      <4> QED
        BY <4>1, <4>2 DEF GoesOn
    <3> QED
      BY <3>1 DEF Ends, Keeps
  <2>3. agenda # <<>> /\ ~TellsOf(Head(agenda), g)
    BY <1>5 DEF UpdateStep, AtHead, Stat, TellsOf
  <2>4. Coming(agenda, g) => Coming(agenda, g)'
    BY <2>2, <2>3, ComingGoesOn
  <2>5. status[g] = held[g] \/ Coming(agenda, g)
    BY <1>2 DEF HeldOK
  <2> QED
    BY <1>3, <2>1, <2>4, <2>5
<1> QED
  BY <1>3, <1>4, <1>5

LEMMA HeldStays ==
  ASSUME UNCHANGED status, NEW g, HeldOK(g), held'[g] = held[g], want'[g] => want[g],
         Coming(agenda, g) => Coming(agenda, g)'
  PROVE  HeldOK(g)'
<1>1. HasActive(g)' = HasActive(g)
  BY DEF HasActive
<1> QED
  BY <1>1 DEF HeldOK

(* ... and what the calls other than updateStatus do to it.                   *)
LEMMA SkipHolds ==
  ASSUME Unattended, TypeOK, AgendaOK, LockInv, OpOnGroup, NEW g \in Node \ RunNode
  PROVE  HeldOK(g)'
<1> DEFINE f       == Head(agenda)
           n       == f.node
           skip    == f.op = "Skip" /\ status[n] \in {"Waiting", "Frozen"}
<1>1. /\ n \in Node /\ f.op \in {"Skip", "Freeze"} /\ status[n] # "Paused"
      /\ HeldOK(g) /\ Tail(agenda) \in Seq(Frame) /\ agenda # <<>> /\ f.do = "op"
  BY BehindOp DEF OpOnGroup, Next1, LockInv
<1>2. /\ want' = [want EXCEPT ![n] = FALSE]
      /\ held' = [held EXCEPT ![n] = IF skip THEN "Skipped" ELSE @]
      /\ UNCHANGED status
  BY <1>1 DEF OpOnGroup
<1>3. GoesOn
  BY OpOnGroupCalls DEF GoesOn
<1>4. Coming(agenda, g) => Coming(agenda, g)'
  <2>1. ~TellsOf(Head(agenda), g)
    BY <1>1 DEF TellsOf, Stat
  <2> QED
    BY <1>1, <1>3, <2>1, ComingGoesOn
<1>5. CASE g # n \/ ~skip
  <2>1. held'[g] = held[g] /\ (want'[g] => want[g])
    BY <1>1, <1>2, <1>5 DEF TypeOK
  <2> HIDE DEF f
  <2> QED
    BY <1>1, <1>2, <1>4, <2>1, HeldStays
<1>6. CASE g = n /\ skip
  <2>1. ~HasActive(g)
    <3>1. Pending(g) => AtHead(g)
      BY PendingAtHead DEF LockInv
    <3>2. ~AtHead(g)
      BY <1>1 DEF AtHead, Stat
    <3> QED
      BY <1>6, <3>1, <3>2 DEF Pending, Active
  <2>2. Coming(agenda', g)
    <3> DEFINE subs == IF f.rec
                       THEN [i \in DOMAIN Kids[n] |->
                               [do |-> "op", node |-> Kids[n][i], op |-> f.op,
                                rec |-> HasChild(Kids[n][i]), sub |-> TRUE]]
                       ELSE <<>>
               done == [do |-> "done", node |-> n, sub |-> f.sub, changed |-> TRUE]
    <3>1. agenda' = subs \o <<done>> \o Tail(agenda)
      BY <1>6 DEF OpOnGroup
    <3>2. done \in Frame /\ f.op \in Op /\ f.sub \in BOOLEAN
      BY <1>1, BehindOp DEF OpOnGroup, Frame
    <3>3. <<done>> \in Seq(Frame) /\ Coming(<<done>>, g)
      <4>1. TellsOf(done, g)
        BY <1>6 DEF TellsOf
      <4>2. <<done>> \in Seq(Frame) /\ 1 \in DOMAIN <<done>> /\ <<done>>[1] = done
        BY <3>2
      <4> QED
        BY <4>1, <4>2 DEF Coming
    <3>4. subs \in Seq(Frame)
      <4>1. Kids[n] \in Seq(Node) /\ DOMAIN Kids[n] = 1..Len(Kids[n]) /\ Len(Kids[n]) \in Nat
        BY <1>1, NodeAssumption
      <4>2. ASSUME NEW i \in 1..Len(Kids[n])
            PROVE  [do |-> "op", node |-> Kids[n][i], op |-> f.op,
                    rec |-> HasChild(Kids[n][i]), sub |-> TRUE] \in Frame
        <5>1. Kids[n][i] \in Node /\ HasChild(Kids[n][i]) \in BOOLEAN
          BY <4>1 DEF HasChild
        <5> QED
          BY <3>2, <5>1 DEF Frame
      <4> QED
        BY <4>1, <4>2
    <3> HIDE DEF subs, done
    <3>5. subs \o <<done>> \in Seq(Frame) /\ Coming(subs \o <<done>>, g)
      BY <3>3, <3>4, ComingLater, ConcatPlaces
    <3> QED
      BY <1>1, <3>1, <3>5, ComingLater
  <2>3. HasActive(g)' = HasActive(g)
    BY <1>2 DEF HasActive
  <2>4. ~want'[g]
    BY <1>1, <1>2, <1>6 DEF TypeOK
  <2>5. Coming(agenda, g)'
    BY <2>2 DEF Coming
  <2> QED
    BY <2>1, <2>3, <2>4, <2>5 DEF HeldOK
<1> QED
  BY <1>5, <1>6

LEMMA DoneHolds ==
  ASSUME TypeOK, LockInv, OpOnGroupDone, NEW g \in Node \ RunNode
  PROVE  HeldOK(g)'
<1> DEFINE f == Head(agenda)
           n == f.node
<1>1. UNCHANGED <<status, held, want>> /\ HeldOK(g)
  BY DEF OpOnGroupDone, nodeVars, LockInv
<1>2. /\ n \in Node /\ agenda \in Seq(Frame) /\ Tail(agenda) \in Seq(Frame)
      /\ agenda # <<>> /\ f.do = "done"
  <2>1. agenda \in Seq(Frame) /\ Next1("done")
    BY DEF TypeOK, OpOnGroupDone
  <2> QED
    BY <2>1, NextType, FrameType DEF Next1
<1>3. ASSUME Coming(agenda, g) PROVE Coming(agenda', g)
  <2>1. CASE f.changed
    <3>1. agenda' = Down(n) \o Up(n) \o Changed(f.sub, Tail(agenda))
      BY <2>1 DEF OpOnGroupDone
    <3>2. Coming(Up(n), n)
      <4>1. 1 \in DOMAIN Up(n) /\ Up(n)[1] = Stat(n)
        BY <1>2, WalkType DEF Up
      <4> QED
        BY <4>1 DEF Coming, TellsOf
    <3>3. g = n \/ ~TellsOf(f, g)
      BY <1>2 DEF TellsOf, Stat
    <3>4. Coming(Up(n), g) \/ Coming(Changed(f.sub, Tail(agenda)), g)
      BY <1>2, <1>3, <3>2, <3>3, ComingBehind, ComingChanged
    <3>5. /\ Down(n) \in Seq(Frame) /\ Up(n) \in Seq(Frame) /\ Down(n) \o Up(n) \in Seq(Frame)
          /\ Changed(f.sub, Tail(agenda)) \in Seq(Frame)
      BY <1>2, WalksAreFree, FlagType
    <3>6. Coming(Up(n), g) => Coming(Down(n) \o Up(n), g)
      BY <3>5, ComingLater
    <3> HIDE DEF f
    <3>7. Coming((Down(n) \o Up(n)) \o Changed(f.sub, Tail(agenda)), g)
      BY <3>4, <3>5, <3>6, ComingLater
    <3> QED
      BY <3>1, <3>7
  <2>2. CASE ~f.changed
    <3>1. agenda' = Tail(agenda) /\ ~TellsOf(f, g)
      BY <1>2, <2>2 DEF OpOnGroupDone, TellsOf, Stat
    <3> QED
      BY <1>2, <1>3, <3>1, ComingBehind
  <2> QED
    BY <2>1, <2>2
<1>4. Coming(agenda, g) => Coming(agenda, g)'
  BY <1>3 DEF Coming
<1> QED
  BY <1>1, <1>4, HeldStays

LEMMA OtherHeld ==
  ASSUME Unattended, TypeOK, AgendaOK, RunOK, LockInv, [Next]_vars, ~UpdateStatus,
         NEW g \in Node \ RunNode
  PROVE  HeldOK(g)'
<1>0. g \in Node /\ g \notin RunNode /\ HeldOK(g)
  BY DEF LockInv
<1>1. UNCHANGED status
  BY StatusChange
<1>2. CASE held' = held /\ (want'[g] => want[g]) /\ (Idle \/ UNCHANGED agenda)
  <2>1. Coming(agenda, g) => Coming(agenda, g)'
    BY <1>2 DEF Idle, Coming
  <2> QED
    BY <1>0, <1>1, <1>2, <2>1, HeldStays
<1>3. CASE Call
  <2>0. UNCHANGED goKept /\ conns' = conns \cup Started
    BY <1>3 DEF Call, goKept
  <2>1. ASSUME GoesOn, NEW d \in {"blocked", "sibling", "mark", "op", "end", "pick", "settle"}, Next1(d)
        PROVE  Coming(agenda, g) => Coming(agenda, g)'
    <3>1. agenda # <<>> /\ ~TellsOf(Head(agenda), g)
      BY <2>1 DEF Next1, TellsOf, Stat
    <3> QED
      BY <2>1, <3>1, ComingGoesOn
  <2>2. ASSUME agenda # <<>>
        PROVE  /\ Tail(agenda) \in Seq(Frame) /\ <<>> \in Seq(Frame) /\ <<>> \o Tail(agenda) = Tail(agenda)
    <3>1. agenda \in Seq(Frame)
      BY DEF TypeOK
    <3> HIDE DEF Frame
    <3> QED
      BY <2>2, <3>1
  <2>3. CASE UpdateBlocked \/ OpNotAllowed \/ Settle
    <3>1. /\ UNCHANGED <<held, want>> /\ agenda' = Tail(agenda)
          /\ \E d \in {"blocked", "op", "settle"} : Next1(d)
      BY <2>3, Zenon DEF UpdateBlocked, OpNotAllowed, Settle, nodeVars
    <3>2. GoesOn
      BY <2>2, <3>1 DEF GoesOn, Next1
    <3> QED
      BY <1>0, <1>1, <2>1, <3>1, <3>2, HeldStays
  <2>4. CASE Sibling
    <3> DEFINE f == Head(agenda)
    <3>1. /\ f.node \in Node /\ f.op \in Op /\ HasChild(f.node) \in BOOLEAN /\ {} \in SUBSET Resource
          /\ agenda # <<>>
      <4>1. agenda \in Seq(Frame) /\ Next1("sibling")
        BY <2>4 DEF TypeOK, Sibling
      <4> QED
        BY <4>1, NextType, FrameType DEF Next1, HasChild, Op
    <3>2. /\ held' = held /\ (want'[g] => want[g])
          /\ \/ agenda' = Tail(agenda)
             \/ \E calls \in Seq(Frame) : agenda' = calls \o Tail(agenda)
      <4>1. CASE nodeVars' = nodeVars /\ agenda' = Tail(agenda)
        BY <4>1 DEF nodeVars
      <4>2. CASE /\ want' = [m \in Node |-> want[m] /\ m \notin Ancestors(f.node)]
                 /\ agenda' = << [do |-> "op", node |-> f.node, op |-> f.op, rec |-> HasChild(f.node),
                                  sub |-> FALSE],
                                 [do |-> "end", node |-> f.node, op |-> f.op, before |-> ProviderNodes,
                                  keep |-> {}, failed |-> FALSE] >> \o Tail(agenda)
                 /\ UNCHANGED held
        <5>1. << [do |-> "op", node |-> f.node, op |-> f.op, rec |-> HasChild(f.node), sub |-> FALSE],
                 [do |-> "end", node |-> f.node, op |-> f.op, before |-> ProviderNodes,
                  keep |-> {}, failed |-> FALSE] >> \in Seq(Frame)
          BY <3>1 DEF Frame, ProviderNodes
        <5> HIDE DEF Frame
        <5> QED
          BY <1>0, <4>2, <5>1
      <4> QED
        BY <2>4, <4>1, <4>2 DEF Sibling, PerformOp
    <3>3. GoesOn
      BY <2>2, <3>1, <3>2 DEF GoesOn
    <3> QED
      BY <1>0, <1>1, <2>1, <2>4, <3>2, <3>3, HeldStays DEF Sibling
  <2>5. CASE EndOp \/ CheckEnd
    <3>1. UNCHANGED <<held, want>> /\ (Next1("end") \/ Next1("pick"))
      BY <2>5 DEF EndOp, CheckEnd, nodeVars
    <3>2. GoesOn
      <4>1. CASE EndOp
        <5> DEFINE f == Head(agenda)
                   lost == IF Unprovides(f.op) THEN Lost(f.before, f.keep) ELSE {}
                   u == (IF lost = {} THEN <<>> ELSE <<[do |-> "blocked"]>>)
                        \o (IF f.failed THEN <<>> ELSE Up(f.node))
        <5>1. /\ Up(f.node) \in Seq(Frame) /\ <<>> \in Seq(Frame) /\ <<[do |-> "blocked"]>> \in Seq(Frame)
          <6>1. agenda \in Seq(Frame) /\ Next1("end")
            BY <4>1 DEF TypeOK, EndOp
          <6>2. f.node \in Node
            BY <6>1, NextType, FrameType
          <6>3. <<[do |-> "blocked"]>> \in Seq(Frame)
            BY DEF Frame
          <6> HIDE DEF Frame
          <6> QED
            BY <6>2, <6>3, UpDownType
        <5>2. agenda' = u \o Tail(agenda)
          BY <4>1 DEF EndOp
        <5>3. u \in Seq(Frame)
          <6> HIDE DEF Frame, lost, f
          <6> QED
            BY <5>1, ConcatProperties
        <5> HIDE DEF u
        <5> QED
          BY <5>2, <5>3 DEF GoesOn
      <4>2. CASE CheckEnd
        <5>1. Tail(agenda) = <<>>
          BY <4>2, PickIsAlone DEF CheckEnd
        <5>2. agenda' \in Seq(Frame) /\ (agenda' = agenda' \o <<>>)
          <6>1. agenda' \in Seq(Frame)
            BY <4>2, CheckEndType, TypeParts DEF NodeTypeOK
          <6> HIDE DEF Frame
          <6> QED
            BY <6>1
        <5> QED
          BY <5>1, <5>2 DEF GoesOn
      <4> QED
        BY <2>5, <4>1, <4>2
    <3> QED
      BY <1>0, <1>1, <2>1, <3>1, <3>2, HeldStays
  <2>6. CASE Pick \/ MarkRunning
    <3>1. PICK m \in RunNode : BeginStep(m) \/ MarkStep(m)
      BY <2>0, <2>6, BeginKind, MarkKind
    <3>2. held' = held /\ (want'[g] => want[g])
      <4>1. \E b \in BOOLEAN : want' = [want EXCEPT ![m] = b]
        BY <3>1 DEF BeginStep, MarkStep, StartNode
      <4>2. held' = held
        BY <2>6 DEF Pick, MarkRunning
      <4> QED
        BY <1>0, <4>1, <4>2 DEF TypeOK
    <3>3. GoesOn /\ (Next1("pick") \/ Next1("mark"))
      <4>1. CASE Pick
        <5>1. PICK n \in RunNode : agenda' = Up(n) \o Tail(agenda)
          BY <4>1 DEF Pick
        <5> QED
          BY <4>1, <5>1, UpDownType DEF GoesOn, Pick, RunNode
      <4>2. CASE MarkRunning
        <5> DEFINE n == Head(agenda).node
        <5>1. n \in Node /\ agenda' = Down(n) \o Up(n) \o Tail(agenda) /\ Next1("mark")
          <6>1. agenda \in Seq(Frame) /\ Next1("mark")
            BY <4>2 DEF TypeOK, MarkRunning
          <6> QED
            BY <4>2, <6>1, NextType, FrameType DEF MarkRunning
        <5> HIDE DEF n
        <5>2. Down(n) \o Up(n) \in Seq(Frame)
          BY <5>1, WalksAreFree
        <5> QED
          BY <5>1, <5>2 DEF GoesOn
      <4> QED
        BY <2>6, <4>1, <4>2
    <3> QED
      BY <1>0, <1>1, <2>1, <3>2, <3>3, HeldStays
  <2>7. CASE OpOnRunNode
    <3> DEFINE f == Head(agenda)
               n == f.node
    <3>1. /\ n \in RunNode /\ want' = [want EXCEPT ![n] = TRUE] /\ UNCHANGED held
          /\ agenda' = Down(n) \o Up(n) \o Changed(f.sub, Tail(agenda))
          /\ Tail(agenda) \in Seq(Frame) /\ agenda \in Seq(Frame) /\ agenda # <<>> /\ f.do = "op"
      BY <2>7, BehindOp DEF OpOnRunNode, RunNode, TypeOK, Next1
    <3>2. want'[g] = want[g]
      BY <1>0, <3>1 DEF TypeOK
    <3>3. ASSUME Coming(agenda, g) PROVE Coming(agenda', g)
      <4>1. ~TellsOf(f, g)
        BY <3>1 DEF TellsOf, Stat
      <4>2. Coming(Changed(f.sub, Tail(agenda)), g)
        BY <3>1, <3>3, <4>1, ComingBehind, ComingChanged
      <4>3. Changed(f.sub, Tail(agenda)) \in Seq(Frame) /\ Down(n) \o Up(n) \in Seq(Frame)
        BY <3>1, FlagType, WalksAreFree DEF RunNode
      <4> HIDE DEF f
      <4>4. Coming((Down(n) \o Up(n)) \o Changed(f.sub, Tail(agenda)), g)
        BY <4>2, <4>3, ComingLater
      <4> QED
        BY <3>1, <4>4
    <3>4. Coming(agenda, g) => Coming(agenda, g)'
      BY <3>3 DEF Coming
    <3> QED
      BY <1>0, <1>1, <3>1, <3>2, <3>4, HeldStays
  <2>8. ~RunByHand /\ ~RunRefused
    BY HeadOp DEF RunByHand, RunRefused
  <2> QED
    BY <1>3, <2>3, <2>4, <2>5, <2>6, <2>7, <2>8, SkipHolds, DoneHolds, Zenon DEF Call, OperationStep
<1>4. CASE (Schedule \/ (MayExit /\ StopScheduler) \/ Unblock) /\ UNCHANGED <<goVars, ops>>
  BY <1>2, <1>4 DEF Schedule, StopScheduler, Unblock, nodeVars
<1>5. ASSUME NEW m \in RunNode, ProcStateChanged(m) \/ \E k \in Start : GoStep(m, k)
      PROVE  HeldOK(g)'
  BY <1>2, <1>5 DEF ProcStateChanged, GoStep, Connect, Exit, Connected, TerminalCreated,
                    TerminalFailed, CloseClient, treeVars, nodeVars
<1>6. ASSUME NEW m \in Node, NEW op \in Op, NEW rec \in BOOLEAN,
             NEW keep \in SUBSET (provided \cap MayKeep), UserOp(m, op, rec, keep)
      PROVE  HeldOK(g)'
  BY <1>6 DEF UserOp
<1>7. CASE UNCHANGED vars
  BY <1>2, <1>7 DEF vars, nodeVars
<1> QED
  BY <1>3, <1>4, <1>5, <1>6, <1>7, Zenon DEF Next, GoStep

(* The other calls make no node about to run but the one that pick starts.    *)
NobodyNext == \A n \in Node : ~AtHead(n)

LEMMA NotNext == ASSUME Idle \/ \E d : Next1(d) /\ d # "status" PROVE NobodyNext
BY DEF NobodyNext, AtHead, Idle, Next1, Stat

LEMMA OtherKinds ==
  ASSUME Unattended, TypeOK, AgendaOK, [Next]_vars, ~UpdateStatus
  PROVE  \/ UNCHANGED <<status, held, want, starting, xby, rby, agenda>>
         \/ NobodyNext /\ \A n \in RunNode : starting'[n] => starting[n]
         \/ Pick
<1>1. CASE Call
  <2>1. CASE UpdateBlocked \/ Sibling \/ OpOnRunNode \/ MarkRunning \/ OpOnGroup \/ OpOnGroupDone
             \/ OpNotAllowed \/ EndOp \/ CheckEnd \/ Settle
    <3>1. starting' = starting
      <4>1. CASE UpdateBlocked \/ Sibling \/ OpOnRunNode \/ MarkRunning \/ OpOnGroup
        BY <4>1 DEF UpdateBlocked, Sibling, OpOnRunNode, MarkRunning, OpOnGroup, startVars
      <4>2. CASE OpOnGroupDone \/ OpNotAllowed \/ EndOp \/ CheckEnd \/ Settle
        BY <4>2 DEF OpOnGroupDone, OpNotAllowed, EndOp, CheckEnd, Settle, startVars
      <4> QED
        BY <2>1, <4>1, <4>2
    <3>2. \E d \in {"blocked", "sibling", "op", "mark", "done", "end", "pick", "settle"} : Next1(d)
      <4>1. CASE UpdateBlocked \/ Sibling \/ OpOnRunNode \/ MarkRunning \/ OpOnGroup
        BY <4>1 DEF UpdateBlocked, Sibling, OpOnRunNode, MarkRunning, OpOnGroup
      <4>2. CASE OpOnGroupDone \/ OpNotAllowed \/ EndOp \/ CheckEnd \/ Settle
        BY <4>2 DEF OpOnGroupDone, OpNotAllowed, EndOp, CheckEnd, Settle
      <4> QED
        BY <2>1, <4>1, <4>2
    <3> QED
      BY <3>1, <3>2, NotNext
  <2>2. ~RunByHand /\ ~RunRefused
    BY HeadOp DEF RunByHand, RunRefused
  <2> QED
    BY <1>1, <2>1, <2>2, Zenon DEF Call, OperationStep
<1>2. CASE (Schedule \/ (MayExit /\ StopScheduler) \/ Unblock) /\ UNCHANGED <<goVars, ops>>
  BY <1>2, NotNext DEF Schedule, StopScheduler, Unblock, startVars
<1>3. ASSUME NEW m \in RunNode, ProcStateChanged(m)
      PROVE  NobodyNext /\ starting' = starting
  BY <1>3, NotNext DEF ProcStateChanged, startVars
<1>4. ASSUME NEW m \in RunNode, NEW k \in Start, Connected(m, k)
      PROVE  NobodyNext /\ \A n \in RunNode : starting'[n] => starting[n]
  BY <1>4, NotNext DEF Connected, TypeOK, RunNode
<1>5. ASSUME NEW m \in RunNode, NEW k \in Start,
             \/ Connect(m, k) \/ Exit(m, k)
             \/ TerminalCreated(m, k) \/ TerminalFailed(m, k) \/ CloseClient(m, k)
      PROVE  UNCHANGED <<status, held, want, starting, xby, rby, agenda>>
  BY <1>5 DEF Connect, Exit, TerminalCreated, TerminalFailed, CloseClient, treeVars, nodeVars,
              startVars, lockVars
<1>6. ASSUME NEW m \in Node, NEW op \in Op, NEW rec \in BOOLEAN,
             NEW keep \in SUBSET (provided \cap MayKeep), UserOp(m, op, rec, keep)
      PROVE  FALSE
  BY <1>6 DEF UserOp
<1>7. CASE UNCHANGED vars
  BY <1>7 DEF vars, nodeVars, startVars, lockVars
<1> QED
  BY <1>1, <1>2, <1>3, <1>4, <1>5, <1>6, <1>7, Zenon DEF Next

(* A node that pick starts has a free way up.                                *)
LEMMA PickReady ==
  ASSUME TypeOK, AgendaOK, LockInv, Next1("pick"), NEW n \in RunNode, n \in Runnable,
         NEW a \in Above(n)
  PROVE  Ready(a)
<1>1. a \in Node /\ ~Holds(a)
  BY WalkType DEF Runnable, Reaches, RunNode
<1>2. Fresh /\ Tail(agenda) = <<>>
  BY PickIsAlone
<1>3. CannotXAcquire(a) = {} /\ CannotRAcquire(a) = {}
  BY <1>1, <1>2 DEF Fresh, Holds, IsBlocked
<1>4. ASSUME a \notin RunNode PROVE ~want[a] /\ held[a] = "Waiting"
  <2>1. HeldOK(a) /\ held[a] \in {"Waiting", "Frozen", "Skipped"}
    BY <1>1, <1>4 DEF LockInv, TypeOK
  <2>2. ~Coming(agenda, a)
    <3>1. agenda \in Seq(Frame) /\ agenda # <<>> /\ ~TellsOf(Head(agenda), a)
      BY DEF TypeOK, Next1, TellsOf, Stat
    <3>2. ~Coming(<<>>, a)
      BY DEF Coming
    <3> QED
      BY <1>2, <3>1, <3>2, ComingBehind
  <2>3. held[a] = "Waiting"
    BY <1>1, <2>1, <2>2 DEF HeldOK, Holds, Finished
  <2> QED
    BY <2>1, <2>3 DEF HeldOK
<1> QED
  BY <1>3, <1>4 DEF Ready

LEMMA OtherPending ==
  ASSUME Unattended, TypeOK, AgendaOK, LockInv, [Next]_vars, ~UpdateStatus, NEW q \in Node
  PROVE  PendingOK(q)'
<1>1. UNCHANGED <<status, xby, rby>>
  BY StatusChange
<1>2. CASE UNCHANGED <<status, held, want, starting, xby, rby, agenda>>
  <2>1. PendingOK(q)
    BY DEF LockInv
  <2>2. Pending(q)' = Pending(q)
    BY <1>2 DEF Pending, HasActive
  <2>3. \A a \in Above(q) : Ready(a)' = Ready(a)
    BY <1>2 DEF Ready, CannotXAcquire, CannotRAcquire, Taken
  <2> QED
    BY <1>2, <2>1, <2>2, <2>3 DEF PendingOK
<1>3. ASSUME NobodyNext PROVE ~Pending(q)
  BY <1>3, PendingAtHead DEF NobodyNext, LockInv
<1>4. CASE NobodyNext /\ \A n \in RunNode : starting'[n] => starting[n]
  BY <1>1, <1>3, <1>4 DEF PendingOK, Pending, HasActive
<1>5. CASE Pick
  <2>1. PICK n \in RunNode : IsFirstRunnable(n) /\ StartNode(n) /\ agenda' = Up(n) \o Tail(agenda)
    BY <1>5 DEF Pick
  <2>2. Next1("pick") /\ held' = held
    BY <1>5 DEF Pick
  <2>3. NobodyNext
    BY <2>2, NotNext
  <2>4. CASE q # n
    BY <1>1, <1>3, <2>1, <2>3, <2>4 DEF PendingOK, Pending, HasActive, StartNode, TypeOK
  <2>5. CASE q = n
    <3>1. Tail(agenda) = <<>> /\ <<>> \in Seq(Frame)
      <4>1. Tail(agenda) = <<>>
        BY <2>2, PickIsAlone
      <4> HIDE DEF Frame
      <4> QED
        BY <4>1
    <3>2. \A a \in Above(n) : Ready(a)
      BY <2>1, <2>2, PickReady DEF IsFirstRunnable
    <3>3. ASSUME NEW a \in Above(n) PROVE Ready(a)'
      <4>1. Ready(a) /\ a \in Node
        BY <3>2, WalkType DEF RunNode
      <4>2. want'[a] => want[a]
        BY <2>1, <4>1 DEF StartNode, TypeOK
      <4> QED
        BY <1>1, <2>2, <4>1, <4>2 DEF Ready, CannotXAcquire, CannotRAcquire, Taken
    <3> QED
      BY <2>1, <2>5, <3>1, <3>3 DEF PendingOK
  <2> QED
    BY <2>4, <2>5
<1> QED
  BY <1>2, <1>4, <1>5, OtherKinds

-----------------------------------------------------------------------------
(* The inductive invariant of the locks.                                    *)

LEMMA UpdateIsCall ==
  ASSUME Unattended, TypeOK, AllLive, [Next]_vars, UpdateStatus
  PROVE  UNCHANGED goKept /\ conns' = conns \cup Started
<1>1. proc' = proc /\ ~Idle
  BY DEF UpdateStatus, SetStatus, Next1, Idle
<1>2. CASE Call
  BY <1>2 DEF Call, goKept
<1>3. ~(Schedule \/ (MayExit /\ StopScheduler) \/ Unblock)
  BY <1>1 DEF Schedule, StopScheduler, Unblock
<1>4. ASSUME NEW m \in RunNode, ProcStateChanged(m) \/ \E k \in Start : GoStep(m, k) PROVE FALSE
  <2>1. PICK k \in Start : Connect(m, k) \/ Exit(m, k)
    BY <1>1, <1>4 DEF ProcStateChanged, GoStep, Connected, TerminalCreated, TerminalFailed,
                      CloseClient, AllLive
  <2>2. proc \in [Node -> [Start -> ProcState]] /\ m \in Node
    BY DEF TypeOK, RunNode
  <2>3. PICK s \in {"refused", "alive", "ok", "err"} :
          proc[m][k] # s /\ proc' = [proc EXCEPT ![m][k] = s]
    BY <2>1, Zenon DEF Connect, Exit, SetProc
  <2>4. proc'[m][k] # proc[m][k]
    BY <2>2, <2>3
  <2> QED
    BY <1>1, <2>4
<1>5. ASSUME NEW m \in Node, NEW op \in Op, NEW rec \in BOOLEAN,
             NEW keep \in SUBSET (provided \cap MayKeep), UserOp(m, op, rec, keep)
      PROVE  FALSE
  BY <1>5 DEF UserOp
<1>6. CASE UNCHANGED vars
  BY <1>1, <1>6 DEF vars, goVars, goKept, Started
<1> QED
  BY <1>2, <1>3, <1>4, <1>5, <1>6, Zenon DEF Next, GoStep

LEMMA LockNext ==
  ASSUME Unattended, NoNestedLocks, TypeOK, AgendaOK, RunOK, AllLive, LockInv, [Next]_vars
  PROVE  LockInv'
<1>1. XLockHeld'
  BY XLockHeldNext DEF LockInv
<1>2. CASE UpdateStatus
  <2>1. PICK n \in Node : UpdateStep(n)
    BY <1>2, UpdateIsCall, UpdateKind
  <2>2. PICK s \in Status \ {"Paused"} :
          /\ BecomesActive(n) \/ Ends(n, s) \/ Keeps(n, s)
          /\ n \notin RunNode /\ held[n] # "Waiting" => s = held[n] /\ ~BecomesActive(n)
    BY <1>2, <2>1, UpdateCases
  <2>3. OneKind' /\ Read' /\ \A m \in Node : LocksOK(m)'
    <3>1. CASE BecomesActive(n)
      BY <3>1, BecomesLocks
    <3>2. CASE Ends(n, s)
      BY <2>1, <3>2, EndsLocks DEF UpdateStep
    <3>3. CASE Keeps(n, s)
      <4>1. UNCHANGED <<xby, rby>> /\ \A m \in Node : status'[m] = "Running" <=> status[m] = "Running"
        BY <3>3 DEF Keeps, lockVars, TypeOK
      <4> QED
        BY <4>1 DEF LockInv, OneKind, Read, Reader, LocksOK
    <3> QED
      BY <2>2, <3>1, <3>2, <3>3
  <2>4. \A m \in Node : status'[m] # "Paused"
    BY <2>2 DEF LockInv, BecomesActive, Ends, Keeps, TypeOK
  <2>5. \A m \in Node : PendingOK(m)'
    <3> SUFFICES ASSUME NEW m \in Node PROVE PendingOK(m)'
      OBVIOUS
    <3>1. CASE Pending(m)'
      BY <2>1, <2>2, <3>1, UpdatePending
    <3>2. CASE ~Pending(m)'
      BY <3>2 DEF PendingOK
    <3> QED
      BY <3>1, <3>2
  <2>6. \A g \in Node \ RunNode : HeldOK(g)'
    BY <2>1, <2>2, UpdateHeld
  <2> QED
    BY <1>1, <2>3, <2>4, <2>5, <2>6 DEF LockInv
<1>3. CASE ~UpdateStatus
  <2>1. UNCHANGED <<status, xby, rby>>
    BY <1>3, StatusChange
  <2>2. OneKind' /\ Read' /\ \A m \in Node : status'[m] # "Paused" /\ LocksOK(m)'
    BY <2>1 DEF LockInv, OneKind, Read, Reader, LocksOK
  <2>3. \A m \in Node : PendingOK(m)'
    BY <1>3, OtherPending
  <2>4. \A g \in Node \ RunNode : HeldOK(g)'
    BY <1>3, OtherHeld
  <2> QED
    BY <1>1, <2>2, <2>3, <2>4 DEF LockInv
<1> QED
  BY <1>2, <1>3

LEMMA InitLocks == Init => LockInv
<1> SUFFICES ASSUME Init PROVE LockInv
  OBVIOUS
<1>1. \A n \in Node : status[n] \in {"Waiting", "Frozen"} /\ ~starting[n] /\ ~want[n]
  BY DEF Init
<1>2. \A n \in Node : ~HasActive(n)
  BY <1>1, ChildHasParent DEF HasActive, Active
<1>3. \A n \in Node : PendingOK(n)
  BY <1>1, <1>2 DEF PendingOK, Pending, RunNode
<1>4. \A g \in Node \ RunNode : HeldOK(g)
  <2>1. ASSUME NEW g \in Node \ RunNode, held[g] # "Waiting" PROVE status[g] = held[g]
    BY <2>1 DEF Init
  <2> QED
    BY <1>1, <1>2, <2>1 DEF HeldOK
<1>5. XLockHeld /\ OneKind /\ Read
  BY DEF Init, XLockHeld, OneKind, Read
<1> QED
  BY <1>1, <1>3, <1>4, <1>5 DEF LockInv, LocksOK

LEMMA LockInvariant ==
  ASSUME Unattended, Terminals = {}, NoNestedLocks PROVE Spec => [](HeadlessInv /\ LockInv)
<1>1. HeadlessInv /\ LockInv /\ [Next]_vars => LockInv'
  BY LockNext DEF HeadlessInv, TreeInv
<1> QED
  BY <1>1, InitLocks, HeadlessInvariant, PTL DEF Spec

(* While a node of a headless run holds an exclusive lock, nobody else that   *)
(* runs lists the name, and all readers of a name have the same root, at     *)
(* every step of every handler.                                              *)
THEOREM LocksAreExclusive ==
  Unattended /\ Terminals = {} /\ NoNestedLocks => (Spec => []LocksExclude)
<1> SUFFICES ASSUME Unattended, Terminals = {}, NoNestedLocks PROVE Spec => []LocksExclude
  OBVIOUS
<1>1. LockInv => LocksExclude
  <2> SUFFICES ASSUME LockInv, NEW r \in Lock
               PROVE  /\ \A n \in XHolders(r) : XHolders(r) \cup RHolders(r) = {n}
                      /\ \A n, m \in RHolders(r) : RLockRoot(n, r) = RLockRoot(m, r)
    BY DEF LocksExclude
  <2>1. ASSUME NEW n \in XHolders(r) PROVE n \in Node /\ xby[r] = n
    BY <2>1 DEF XHolders, HoldsLocks, LockInv, LocksOK
  <2>2. ASSUME NEW n \in RHolders(r) PROVE n \in Node /\ rby[r] = RLockRoot(n, r) /\ rby[r] # None
    <3>1. n \in Node /\ r \in RLocks[n] /\ rby[r] = RLockRoot(n, r)
      BY <2>2 DEF RHolders, HoldsLocks, LockInv, LocksOK
    <3> QED
      BY <3>1, RLockRootType, WalkType, NodeAssumption
  <2>3. xby[r] = None \/ rby[r] = None
    BY DEF LockInv, OneKind
  <2> QED
    BY <2>1, <2>2, <2>3, NodeAssumption
<1> QED
  BY <1>1, LockInvariant, PTL

(* What runs in a headless run has its locks, and they are recorded for the   *)
(* node itself or the root of its rlock.                                     *)
THEOREM LocksAreRecorded ==
  Unattended /\ Terminals = {} /\ NoNestedLocks => (Spec => []LocksRecorded)
<1> SUFFICES ASSUME Unattended, Terminals = {}, NoNestedLocks PROVE Spec => []LocksRecorded
  OBVIOUS
<1>1. LockInv => LocksRecorded
  BY DEF LockInv, LocksOK, LocksRecorded, HoldsLocks
<1> QED
  BY <1>1, LockInvariant, PTL

(* No rlock is recorded in a headless run that no running node reads.         *)
THEOREM RLocksAreUsed ==
  Unattended /\ Terminals = {} /\ NoNestedLocks => (Spec => []RLockHeld)
<1> SUFFICES ASSUME Unattended, Terminals = {}, NoNestedLocks PROVE Spec => []RLockHeld
  OBVIOUS
<1>1. LockInv => RLockHeld
  BY DEF LockInv, Read, Reader, RLockHeld, RHolders, HoldsLocks
<1> QED
  BY <1>1, LockInvariant, PTL

(* In a headless run acquireLocks does not panic: no handler is cut short, and *)
(* every node that becomes running gets all of its locks.                    *)
THEOREM LockingNeverPanics ==
  Unattended /\ Terminals = {} /\ NoNestedLocks => (Spec => NoLockPanics)
<1> SUFFICES ASSUME Unattended, Terminals = {}, NoNestedLocks PROVE Spec => NoLockPanics
  OBVIOUS
<1>1. ASSUME HeadlessInv, LockInv, [Next]_vars, NEW n \in Node,
             ~HoldsLocks(status[n]), HoldsLocks(status'[n])
      PROVE  XFree(n) = XLocks[n] /\ ROpen(n) = RLocks[n]
  <2>1. TypeOK /\ AgendaOK /\ RunOK /\ AllLive
    BY <1>1 DEF HeadlessInv, TreeInv
  <2>2. UpdateStatus
    BY <1>1, StatusChange
  <2>3. PICK m \in Node : UpdateStep(m)
    BY <1>1, <2>1, <2>2, UpdateIsCall, UpdateKind
  <2>4. PICK s \in Status \ {"Paused"} : BecomesActive(m) \/ Ends(m, s) \/ Keeps(m, s)
    BY <1>1, <2>1, <2>2, <2>3, UpdateCases
  <2>5. n = m /\ BecomesActive(m)
    BY <1>1, <2>1, <2>4 DEF BecomesActive, Ends, Keeps, HoldsLocks, TypeOK
  <2> QED
    BY <2>5 DEF BecomesActive, AcquireLocks
<1>2. HeadlessInv /\ LockInv /\ [Next]_vars =>
        [\A n \in Node : ~HoldsLocks(status[n]) /\ HoldsLocks(status'[n]) =>
           XFree(n) = XLocks[n] /\ ROpen(n) = RLocks[n]]_vars
  BY <1>1
<1> QED
  BY <1>2, LockInvariant, PTL DEF Spec, NoLockPanics
=============================================================================
