--------------------------- MODULE RunTreeProofs ---------------------------
(***************************************************************************)
(* Proofs about RunTree, for every tree and every bound.                   *)
(***************************************************************************)
EXTENDS RunTree, FiniteSetTheorems, SequenceTheorems, WellFoundedInduction, TLAPS

USE DEF Start

-----------------------------------------------------------------------------
(* The shape of the tree.                                                   *)

(* A set of places of a list has a last one.                                 *)
LEMMA LastPlace ==
  ASSUME NEW len \in Nat, NEW S \in SUBSET (1..len), S # {}
  PROVE  \E i \in S : \A j \in S : j <= i
<1> DEFINE later(i) == {j \in S : j > i}
           T == {later(i) : i \in S}
<1>1. IsFiniteSet(1..len) /\ T \subseteq SUBSET (1..len) /\ T # {}
  <2>1. IsFiniteSet(1..len)
    BY FS_Interval
  <2>2. T \subseteq SUBSET (1..len) /\ T # {}
    OBVIOUS
  <2> QED
    BY <2>1, <2>2
<1>2. \E U \in T : \A V \in T : ~(<<V, U>> \in StrictSubsetOrdering(1..len))
  <2>1. T \subseteq FiniteSubsetsOf(1..len)
    BY <1>1, FS_FiniteSubsetsOfFinite
  <2> HIDE DEF T
  <2> QED
    BY <1>1, <2>1, FS_StrictSubsetOrderingWellFounded, WFMin
<1>3. PICK i \in S : \A k \in S : ~(<<later(k), later(i)>> \in StrictSubsetOrdering(1..len))
  BY <1>2
<1>4. ASSUME NEW j \in S, j > i PROVE FALSE
  <2>1. later(j) \subseteq later(i) /\ j \in later(i) /\ j \notin later(j)
    <3>1. i \in Int /\ j \in Int /\ S \subseteq Int
      OBVIOUS
    <3>2. \A k \in Int : k > j => k > i
      BY <1>4, <3>1
    <3>3. ~(j > j)
      BY <3>1
    <3> QED
      BY <1>4, <3>1, <3>2, <3>3
  <2> QED
    BY <1>1, <1>3, <2>1 DEF StrictSubsetOrdering
<1>5. i \in Int /\ S \subseteq Int
  OBVIOUS
<1> QED
  BY <1>4, <1>5

LEMMA WalkType ==
  ASSUME NEW n \in Node
  PROVE  /\ Path[n] \in Seq(Node) /\ Len(Path[n]) >= 1 /\ Path[n][1] = n
         /\ PostOrder[n] \in Seq(Node)
         /\ Above(n) \subseteq Node /\ n \in Above(n)
<1>1. Path[n] \in Seq(Node) /\ PostOrder[n] \in Seq(Node) /\ Path[n] # <<>> /\ Path[n][1] = n
  <2>1. Path[n] \in Seq(Node) /\ PostOrder[n] \in Seq(Node)
        /\ Path[n] = <<n>> \o IF Parent[n] = None THEN <<>> ELSE Path[Parent[n]]
    BY WalkAssumption
  <2>2. (IF Parent[n] = None THEN <<>> ELSE Path[Parent[n]]) \in Seq(Node)
    <3>1. Parent[n] # None => Parent[n] \in Node
      BY DEF Parent
    <3> QED
      BY <3>1, WalkAssumption
  <2> QED
    BY <2>1, <2>2
<1>2. Len(Path[n]) >= 1
  BY <1>1
<1> QED
  BY <1>1, <1>2 DEF Above

LEMMA ParentType == ASSUME NEW n \in Node PROVE Parent[n] \in Node \cup {None}
BY DEF Parent

(* getRLockRoot finds a node of the tree, at or above the node that asks.    *)
LEMMA RLockRootType ==
  ASSUME NEW n \in Node, NEW r, r \in RLocks[n]
  PROVE  RLockRoot(n, r) \in Above(n)
<1> DEFINE listed == {i \in DOMAIN Path[n] : r \in RLocks[Path[n][i]]}
<1>1. 1 \in listed /\ listed \subseteq 1..Len(Path[n])
  BY WalkType
<1>2. \E i \in listed : \A j \in listed : j <= i
  <2> HIDE DEF listed
  <2>1. Len(Path[n]) \in Nat
    BY WalkType
  <2> QED
    BY <1>1, <2>1, LastPlace
<1> DEFINE last == CHOOSE i \in listed : \A j \in listed : j <= i
<1>3. last \in listed
  <2> HIDE DEF listed
  <2> QED
    BY <1>2
<1>4. RLockRoot(n, r) = Path[n][last]
  BY DEF RLockRoot
<1> QED
  BY <1>3, <1>4 DEF Above

-----------------------------------------------------------------------------
(* The agenda.                                                              *)

(* What a call on the agenda is about.                                       *)
LEMMA FrameType ==
  ASSUME NEW f \in Frame
  PROVE  /\ f.do \in {"status", "mark", "sibling", "op", "done", "end"} => f.node \in Node
         /\ f.do = "sibling" => f.op \in {"Skip", "Freeze"}
         /\ f.do = "op" => f.op \in Op /\ f.rec \in BOOLEAN /\ f.sub \in BOOLEAN
         /\ f.do = "done" => f.sub \in BOOLEAN /\ f.changed \in BOOLEAN
         /\ f.do = "end" => /\ f.op \in Op /\ f.before \in SUBSET Node
                            /\ f.keep \in SUBSET Resource /\ f.failed \in BOOLEAN
BY DEF Frame

LEMMA StatType == ASSUME NEW n \in Node PROVE Stat(n) \in Frame
BY DEF Stat, Frame

LEMMA UpDownType ==
  ASSUME NEW n \in Node
  PROVE  Up(n) \in Seq(Frame) /\ Down(n) \in Seq(Frame)
<1>1. \A s \in Seq(Node) : [i \in DOMAIN s |-> Stat(s[i])] \in Seq(Frame)
  <2> SUFFICES ASSUME NEW s \in Seq(Node)
               PROVE  [i \in DOMAIN s |-> Stat(s[i])] \in Seq(Frame)
    OBVIOUS
  <2>1. \A i \in 1..Len(s) : Stat(s[i]) \in Frame
    BY StatType
  <2>2. DOMAIN s = 1..Len(s) /\ Len(s) \in Nat
    OBVIOUS
  <2> QED
    BY <2>1, <2>2
<1> QED
  BY <1>1, WalkType DEF Up, Down

(* The head of the agenda and its rest.                                      *)
LEMMA NextType ==
  ASSUME agenda \in Seq(Frame), NEW d, Next1(d)
  PROVE  Head(agenda) \in Frame /\ Head(agenda).do = d /\ Tail(agenda) \in Seq(Frame)
BY DEF Next1

(* The calls that performOnErrorSiblings makes.                              *)
LEMMA SiblingCallsType ==
  ASSUME NEW n \in Node, Parent[n] # None, OnSiblings[n] # "None"
  PROVE  SiblingCalls(n) \in Seq(Frame)
<1> DEFINE kids == Kids[Parent[n]]
           at   == CHOOSE i \in DOMAIN kids : kids[i] = n
           call(i) == [do |-> "sibling", node |-> kids[IF i < at THEN i ELSE i + 1],
                       op |-> OnSiblings[n]]
<1>1. kids \in Seq(Node) /\ OnSiblings[n] \in {"Skip", "Freeze"}
  BY ParentType, NodeAssumption, OnErrorAssumption
<1>2. Len(kids) \in Nat /\ DOMAIN kids = 1..Len(kids)
  BY <1>1
<1>3. \E p \in Node : n \in Children(p)
  BY DEF Parent
<1>4. n \in Children(Parent[n])
  BY <1>3 DEF Parent
<1>5. Len(kids) >= 1
  BY <1>2, <1>4 DEF Children
<1>6. ASSUME NEW i \in 1..(Len(kids) - 1) PROVE call(i) \in Frame
  <2>1. (IF i < at THEN i ELSE i + 1) \in 1..Len(kids)
    BY <1>2
  <2>2. kids[IF i < at THEN i ELSE i + 1] \in Node
    BY <1>1, <2>1
  <2> QED
    BY <1>1, <2>2 DEF Frame
<1>7. SiblingCalls(n) = [i \in 1..(Len(kids) - 1) |-> call(i)]
  BY DEF SiblingCalls
<1>8. Len(kids) - 1 \in Nat
  BY <1>2, <1>5
<1> HIDE DEF call, kids
<1> QED
  BY <1>6, <1>7, <1>8

(* A flag of a call that is set in place.                                    *)
LEMMA FlagType ==
  ASSUME NEW rest \in Seq(Frame), NEW sub
  PROVE  Changed(sub, rest) \in Seq(Frame) /\ [rest EXCEPT ![1].failed = TRUE] \in Seq(Frame)
<1>1. ASSUME NEW f \in Frame
      PROVE  [f EXCEPT !.failed = TRUE] \in Frame /\ [f EXCEPT !.changed = TRUE] \in Frame
  BY DEF Frame
<1>2. ASSUME NEW i, NEW g, i \in DOMAIN rest => g \in Frame
      PROVE  [rest EXCEPT ![i] = g] \in Seq(Frame)
  <2>1. CASE i \in 1..Len(rest)
    BY <1>2, <2>1, ExceptSeq
  <2>2. CASE i \notin 1..Len(rest)
    <3>1. rest = [k \in 1..Len(rest) |-> rest[k]] /\ DOMAIN rest = 1..Len(rest)
      OBVIOUS
    <3>2. [rest EXCEPT ![i] = g] = [k \in 1..Len(rest) |-> rest[k]]
      BY <2>2, <3>1, Zenon
    <3> QED
      BY <3>1, <3>2
  <2> QED
    BY <2>1, <2>2
<1>3. \A i \in DOMAIN rest : rest[i] \in Frame
  OBVIOUS
<1>4. \A i : [rest EXCEPT ![i] = [rest[i] EXCEPT !.changed = TRUE]] \in Seq(Frame)
  BY <1>1, <1>2, <1>3
<1>5. [rest EXCEPT ![1] = [rest[1] EXCEPT !.failed = TRUE]] \in Seq(Frame)
  BY <1>1, <1>2, <1>3
<1> QED
  BY <1>4, <1>5 DEF Changed

-----------------------------------------------------------------------------
(* Types.                                                                   *)

(* The part of TypeOK about the variables of NodeState.                      *)
NodeTypeOK ==
  /\ status \in [Node -> Status] /\ manual \in [Node -> Status]
  /\ held \in [Node -> {"Waiting", "Frozen", "Skipped"}]
  /\ want \in [Node -> BOOLEAN] /\ starting \in [Node -> BOOLEAN]
  /\ startErr \in [Node -> BOOLEAN] /\ timedOut \in [Node -> BOOLEAN]
  /\ nproc \in [Node -> Int]
  /\ starts \in [Node -> 0..MaxStarts] /\ client \in [Node -> 0..MaxStarts]
  /\ proc \in [Node -> [Start -> ProcState]]
  /\ xby \in [Lock -> Node \cup {None}] /\ rby \in [Lock -> Node \cup {None}]
  /\ provided \subseteq Resource /\ blocked \subseteq Node
  /\ agenda \in Seq(Frame)

(* updateStatus gives a node a status.                                       *)
LEMMA CalcType ==
  ASSUME NodeTypeOK, NEW n \in Node
  PROVE  CalcStatus(n).st \in Status
<1>1. CalcRunStatus(n).st \in Status
  BY OnErrorAssumption
     DEF CalcRunStatus, Plain, ErrorStatus, OnErrorStatus, NodeTypeOK, Status
<1>2. CalcParSeqStatus(n).st \in Status
  BY OnErrorAssumption DEF CalcParSeqStatus, Plain, OnErrorStatus, NodeTypeOK, Status
<1> QED
  BY <1>1, <1>2 DEF CalcStatus

(* The tables of the locks, when locks are taken or released.                *)
LEMMA TakeType ==
  ASSUME NodeTypeOK, NEW n \in Node, NEW X \in SUBSET XLocks[n], NEW R \in SUBSET RLocks[n],
         Take(n, X, R)
  PROVE  xby' \in [Lock -> Node \cup {None}] /\ rby' \in [Lock -> Node \cup {None}]
<1>1. \A r \in R : RLockRoot(n, r) \in Node
  BY RLockRootType, WalkType
<1> QED
  BY <1>1 DEF Take, NodeTypeOK

LEMMA LocksType ==
  ASSUME NodeTypeOK, NEW n \in Node,
         AcquireLocks(n) \/ AcquirePanics(n) \/ ReleaseLocks(n) \/ UNCHANGED lockVars
  PROVE  xby' \in [Lock -> Node \cup {None}] /\ rby' \in [Lock -> Node \cup {None}]
<1>1. CASE AcquireLocks(n)
  BY <1>1, TakeType DEF AcquireLocks, RFree
<1>2. CASE AcquirePanics(n)
  <2>1. XFree(n) \subseteq XLocks[n] /\ RFree(n) \subseteq RLocks[n]
    BY DEF XFree, RFree
  <2>2. PICK X \in SUBSET XLocks[n], R \in SUBSET RLocks[n] : Take(n, X, R)
    BY <1>2, <2>1 DEF AcquirePanics
  <2> QED
    BY <2>2, TakeType
<1>3. CASE ReleaseLocks(n)
  BY <1>3 DEF ReleaseLocks, NodeTypeOK
<1>4. CASE UNCHANGED lockVars
  BY <1>4 DEF lockVars, NodeTypeOK
<1> QED
  BY <1>1, <1>2, <1>3, <1>4

LEMMA SetStatusType ==
  ASSUME NodeTypeOK, NEW n \in Node, NEW s \in Status, SetStatus(n, s)
  PROVE  /\ status' \in [Node -> Status] /\ nproc' \in [Node -> Int]
         /\ want' \in [Node -> BOOLEAN] /\ provided' \subseteq Resource
<1>1. status' \in [Node -> Status] /\ want' \in [Node -> BOOLEAN]
  BY DEF SetStatus, NodeTypeOK
<1>2. nproc' \in [Node -> Int]
  BY DEF SetStatus, CountProc, NodeTypeOK
<1>3. provided' \subseteq Resource
  BY PropertyAssumption DEF SetStatus, NodeTypeOK
<1> QED
  BY <1>1, <1>2, <1>3

LEMMA UpdateStatusType == ASSUME NodeTypeOK, UpdateStatus PROVE NodeTypeOK'
<1> DEFINE n     == Head(agenda).node
           prev  == status[n]
           new   == CalcStatus(n)
           calls == IF prev # new.st /\ ~HasError(prev) /\ new.oe /\ OnSiblings[n] # "None"
                       /\ Parent[n] # None
                    THEN SiblingCalls(n) ELSE <<>>
<1>1. agenda \in Seq(Frame)
  BY DEF NodeTypeOK
<1>2. n \in Node /\ Tail(agenda) \in Seq(Frame)
  BY <1>1, NextType, FrameType DEF UpdateStatus
<1>3. new.st \in Status
  BY <1>2, CalcType
<1>4. calls \in Seq(Frame)
  BY <1>2, SiblingCallsType
<1>5. SetStatus(n, new.st)
  BY DEF UpdateStatus
<1>6. agenda' = calls \o Tail(agenda) \/ agenda' = <<>>
  BY DEF UpdateStatus
<1>7. AcquireLocks(n) \/ AcquirePanics(n) \/ ReleaseLocks(n) \/ UNCHANGED lockVars
  BY DEF UpdateStatus
<1> HIDE DEF n, new, calls
<1>8. agenda' \in Seq(Frame)
  <2>1. calls \o Tail(agenda) \in Seq(Frame)
    BY <1>2, <1>4
  <2>2. <<>> \in Seq(Frame)
    OBVIOUS
  <2> QED
    BY <1>6, <2>1, <2>2, Zenon
<1>9. xby' \in [Lock -> Node \cup {None}] /\ rby' \in [Lock -> Node \cup {None}]
  BY <1>2, <1>7, LocksType
<1>10. /\ status' \in [Node -> Status] /\ nproc' \in [Node -> Int]
       /\ want' \in [Node -> BOOLEAN] /\ provided' \subseteq Resource
  BY <1>2, <1>3, <1>5, SetStatusType
<1> QED
  BY <1>5, <1>8, <1>9, <1>10 DEF SetStatus, startVars, NodeTypeOK

LEMMA UpdateBlockedType == ASSUME NodeTypeOK, UpdateBlocked PROVE NodeTypeOK'
BY NextType DEF UpdateBlocked, NodeTypeOK, nodeVars, startVars, lockVars

LEMMA StartNodeType ==
  ASSUME NodeTypeOK, NEW n \in Node, StartNode(n)
  PROVE  /\ starts' \in [Node -> 0..MaxStarts] /\ client' \in [Node -> 0..MaxStarts]
         /\ proc' \in [Node -> [Start -> ProcState]] /\ want' \in [Node -> BOOLEAN]
         /\ starting' \in [Node -> BOOLEAN] /\ startErr' \in [Node -> BOOLEAN]
         /\ timedOut' \in [Node -> BOOLEAN]
<1>1. MaxStarts \in Nat
  BY BoundAssumption
<1>2. starts[n] + 1 \in Start /\ starts' \in [Node -> 0..MaxStarts]
      /\ client' \in [Node -> 0..MaxStarts]
  BY <1>1 DEF StartNode, NodeTypeOK
<1>3. proc' \in [Node -> [Start -> ProcState]]
  BY DEF StartNode, NodeTypeOK, ProcState
<1> QED
  BY <1>2, <1>3 DEF StartNode, NodeTypeOK

(* The operations that a node allows.                                        *)
LEMMA AllowedOpsType ==
  ASSUME NEW n \in Node, NEW rec PROVE AllowedOps(n, rec) \subseteq Op
BY DEF AllowedOps, Op

LEMMA ManualStatusType == ASSUME NEW op \in Op PROVE ManualStatus(op) \in Status
BY DEF ManualStatus, Op, Status

LEMMA PerformOpType ==
  ASSUME NodeTypeOK, NEW n \in Node, NEW op, NEW rec \in BOOLEAN,
         NEW keep \in SUBSET Resource, NEW rest \in Seq(Frame), PerformOp(n, op, rec, keep, rest),
         UNCHANGED <<startVars, proc, lockVars, blocked>>
  PROVE  NodeTypeOK'
<1> DEFINE perform == [do |-> "op", node |-> n, op |-> op, rec |-> rec, sub |-> FALSE]
           end     == [do |-> "end", node |-> n, op |-> op, before |-> ProviderNodes,
                       keep |-> keep, failed |-> FALSE]
<1>1. CASE op \in AllowedOps(n, rec)
  <2>1. op \in Op /\ ProviderNodes \in SUBSET Node
    BY <1>1, AllowedOpsType DEF ProviderNodes
  <2>2. perform \in Frame /\ end \in Frame
    BY <2>1 DEF Frame
  <2>3. agenda' = <<perform, end>> \o rest
    BY <1>1 DEF PerformOp
  <2>4. agenda' \in Seq(Frame)
    <3> HIDE DEF perform, end
    <3>1. <<perform, end>> \in Seq(Frame)
      BY <2>2
    <3>2. <<perform, end>> \o rest \in Seq(Frame)
      BY <3>1, ConcatProperties
    <3> QED
      BY <2>3, <3>2, Zenon
  <2>5. want' \in [Node -> BOOLEAN] /\ UNCHANGED <<status, held, manual, nproc, provided>>
    BY <1>1 DEF PerformOp, NodeTypeOK
  <2> QED
    BY <2>4, <2>5 DEF NodeTypeOK, startVars, lockVars
<1>2. CASE op \notin AllowedOps(n, rec)
  BY <1>2 DEF PerformOp, NodeTypeOK, nodeVars, startVars, lockVars
<1> QED
  BY <1>1, <1>2

LEMMA SiblingType == ASSUME NodeTypeOK, Sibling PROVE NodeTypeOK'
<1> DEFINE f == Head(agenda)
<1>1. f.node \in Node /\ Tail(agenda) \in Seq(Frame)
  BY NextType, FrameType DEF Sibling, NodeTypeOK
<1>2. CASE PerformOp(f.node, f.op, HasChild(f.node), {}, Tail(agenda))
  <2>1. HasChild(f.node) \in BOOLEAN /\ {} \in SUBSET Resource
    BY DEF HasChild
  <2>2. UNCHANGED <<startVars, proc, lockVars, blocked>>
    BY DEF Sibling
  <2> HIDE DEF f
  <2> QED
    BY <1>1, <1>2, <2>1, <2>2, PerformOpType
<1>3. CASE agenda' = Tail(agenda) /\ UNCHANGED nodeVars
  BY <1>1, <1>3 DEF Sibling, NodeTypeOK, nodeVars, startVars, lockVars
<1> QED
  BY <1>2, <1>3 DEF Sibling

(* The head of the agenda is performOp of a node that allows the operation.   *)
LEMMA OpType ==
  ASSUME agenda \in Seq(Frame), Next1("op")
  PROVE  /\ Head(agenda).node \in Node /\ Head(agenda).op \in Op
         /\ Head(agenda).rec \in BOOLEAN /\ Head(agenda).sub \in BOOLEAN
         /\ Tail(agenda) \in Seq(Frame)
BY NextType, FrameType

(* updateStatusesDown and updateStatusesUp before the rest.                   *)
LEMMA DownUpType ==
  ASSUME NEW n \in Node, NEW rest \in Seq(Frame)
  PROVE  Down(n) \o Up(n) \o rest \in Seq(Frame) /\ Up(n) \o rest \in Seq(Frame)
<1>1. Down(n) \o Up(n) \in Seq(Frame)
  BY UpDownType, ConcatProperties
<1> QED
  BY <1>1, UpDownType, ConcatProperties

LEMMA OpOnRunNodeType == ASSUME NodeTypeOK, OpOnRunNode PROVE NodeTypeOK'
<1> DEFINE f == Head(agenda)
<1>1. f.node \in Node /\ f.op \in Op /\ Tail(agenda) \in Seq(Frame)
  BY OpType DEF OpOnRunNode, NodeTypeOK
<1>2. agenda' = Down(f.node) \o Up(f.node) \o Changed(f.sub, Tail(agenda))
  BY DEF OpOnRunNode
<1>3. agenda' \in Seq(Frame)
  BY <1>1, <1>2, FlagType, DownUpType
<1>4. manual' \in [Node -> Status]
  BY <1>1, ManualStatusType DEF OpOnRunNode, NodeTypeOK
<1>5. want' \in [Node -> BOOLEAN] /\ startErr' \in [Node -> BOOLEAN]
  BY <1>1 DEF OpOnRunNode, NodeTypeOK
<1> QED
  BY <1>3, <1>4, <1>5 DEF OpOnRunNode, NodeTypeOK, lockVars

LEMMA RunByHandType == ASSUME NodeTypeOK, RunByHand PROVE NodeTypeOK'
<1> DEFINE n == Head(agenda).node
<1>1. n \in Node /\ Tail(agenda) \in Seq(Frame)
  BY OpType DEF RunByHand, NodeTypeOK
<1>2. StartNode(n) /\ agenda' = Up(n) \o <<[do |-> "mark", node |-> n]>> \o Tail(agenda)
  BY DEF RunByHand
<1>3. agenda' \in Seq(Frame)
  <2>1. <<[do |-> "mark", node |-> n]>> \in Seq(Frame)
    BY <1>1 DEF Frame
  <2>2. Up(n) \o <<[do |-> "mark", node |-> n]>> \in Seq(Frame)
    BY <1>1, <2>1, DownUpType
  <2> QED
    BY <1>1, <1>2, <2>2, ConcatProperties
<1> HIDE DEF n
<1> QED
  BY <1>1, <1>2, <1>3, StartNodeType DEF RunByHand, NodeTypeOK, lockVars

LEMMA MarkRunningType == ASSUME NodeTypeOK, MarkRunning PROVE NodeTypeOK'
<1> DEFINE n == Head(agenda).node
<1>1. n \in Node /\ Tail(agenda) \in Seq(Frame)
  BY NextType, FrameType DEF MarkRunning, NodeTypeOK
<1>2. agenda' = Down(n) \o Up(n) \o Tail(agenda)
  BY DEF MarkRunning
<1>3. agenda' \in Seq(Frame)
  BY <1>1, <1>2, DownUpType
<1> QED
  BY <1>1, <1>3 DEF MarkRunning, NodeTypeOK, startVars, lockVars, Status

LEMMA RunRefusedType == ASSUME NodeTypeOK, RunRefused PROVE NodeTypeOK'
<1>1. agenda' = [Tail(agenda) EXCEPT ![1].failed = TRUE] /\ Tail(agenda) \in Seq(Frame)
  BY OpType DEF RunRefused, NodeTypeOK
<1>2. agenda' \in Seq(Frame)
  BY <1>1, FlagType
<1> QED
  BY <1>2 DEF RunRefused, NodeTypeOK, nodeVars, startVars, lockVars

LEMMA OpOnGroupType == ASSUME NodeTypeOK, OpOnGroup PROVE NodeTypeOK'
<1> DEFINE f      == Head(agenda)
           n      == f.node
           decide == status[n] = "Paused" /\ f.op \in {"Fail", "Success"}
           reset  == status[n] = "Paused" /\ f.op = "Reset"
           free   == \/ held[n] = "Frozen" /\ f.op \in {"Reset", "Thaw"}
                     \/ held[n] = "Skipped" /\ f.op = "Reset"
           skip   == f.op = "Skip" /\ status[n] \in {"Waiting", "Frozen"}
           sub(i) == [do |-> "op", node |-> Kids[n][i], op |-> f.op,
                      rec |-> HasChild(Kids[n][i]), sub |-> TRUE]
           subs   == IF f.rec THEN [i \in DOMAIN Kids[n] |-> sub(i)] ELSE <<>>
           done   == [do |-> "done", node |-> n, sub |-> f.sub,
                      changed |-> want[n] \/ decide \/ reset \/ free \/ skip]
<1>1. n \in Node /\ f.op \in Op /\ f.sub \in BOOLEAN /\ Tail(agenda) \in Seq(Frame)
  BY OpType DEF OpOnGroup, NodeTypeOK
<1>2. agenda' = subs \o <<done>> \o Tail(agenda)
  BY DEF OpOnGroup
<1>3. subs \in Seq(Frame)
  <2>1. Kids[n] \in Seq(Node) /\ DOMAIN Kids[n] = 1..Len(Kids[n]) /\ Len(Kids[n]) \in Nat
    BY <1>1, NodeAssumption
  <2>2. ASSUME NEW i \in 1..Len(Kids[n]) PROVE sub(i) \in Frame
    <3>1. Kids[n][i] \in Node /\ HasChild(Kids[n][i]) \in BOOLEAN
      BY <2>1 DEF HasChild
    <3> QED
      BY <1>1, <3>1 DEF Frame
  <2> HIDE DEF sub
  <2> QED
    BY <2>1, <2>2
<1>4. done \in Frame
  <2>1. want[n] \in BOOLEAN /\ done.changed \in BOOLEAN
    BY <1>1 DEF NodeTypeOK
  <2> QED
    BY <1>1, <2>1 DEF Frame
<1>5. agenda' \in Seq(Frame)
  <2> HIDE DEF subs, done
  <2>1. <<done>> \in Seq(Frame)
    BY <1>4
  <2>2. subs \o <<done>> \in Seq(Frame)
    BY <1>3, <2>1, ConcatProperties
  <2> QED
    BY <1>1, <1>2, <2>2, ConcatProperties
<1>6. want' \in [Node -> BOOLEAN]
  BY <1>1 DEF OpOnGroup, NodeTypeOK
<1>7. manual' \in [Node -> Status]
  BY <1>1, ManualStatusType DEF OpOnGroup, NodeTypeOK
<1>8. held' \in [Node -> {"Waiting", "Frozen", "Skipped"}]
  BY <1>1 DEF OpOnGroup, NodeTypeOK
<1> QED
  BY <1>5, <1>6, <1>7, <1>8 DEF OpOnGroup, NodeTypeOK, startVars, lockVars

LEMMA OpOnGroupDoneType == ASSUME NodeTypeOK, OpOnGroupDone PROVE NodeTypeOK'
<1> DEFINE f == Head(agenda)
<1>1. f.node \in Node /\ Tail(agenda) \in Seq(Frame)
  BY NextType, FrameType DEF OpOnGroupDone, NodeTypeOK
<1>2. Down(f.node) \o Up(f.node) \o Changed(f.sub, Tail(agenda)) \in Seq(Frame)
  BY <1>1, FlagType, DownUpType
<1>3. agenda' \in Seq(Frame)
  BY <1>1, <1>2 DEF OpOnGroupDone
<1> QED
  BY <1>3 DEF OpOnGroupDone, NodeTypeOK, nodeVars, startVars, lockVars

LEMMA OpNotAllowedType == ASSUME NodeTypeOK, OpNotAllowed PROVE NodeTypeOK'
BY OpType DEF OpNotAllowed, NodeTypeOK, nodeVars, startVars, lockVars

LEMMA EndOpType == ASSUME NodeTypeOK, EndOp PROVE NodeTypeOK'
<1> DEFINE f    == Head(agenda)
           lost == IF Unprovides(f.op) THEN Lost(f.before, f.keep) ELSE {}
           blk  == IF lost = {} THEN <<>> ELSE <<[do |-> "blocked"]>>
           up   == IF f.failed THEN <<>> ELSE Up(f.node)
<1>1. f.node \in Node /\ Tail(agenda) \in Seq(Frame)
  BY NextType, FrameType DEF EndOp, NodeTypeOK
<1>2. agenda' = blk \o up \o Tail(agenda)
  BY DEF EndOp
<1>3. blk \in Seq(Frame) /\ up \in Seq(Frame)
  <2>1. <<[do |-> "blocked"]>> \in Seq(Frame)
    BY DEF Frame
  <2>2. <<>> \in Seq(Frame)
    OBVIOUS
  <2> HIDE DEF lost, f
  <2> QED
    BY <1>1, <2>1, <2>2, UpDownType
<1>4. agenda' \in Seq(Frame)
  <2> HIDE DEF blk, up
  <2>1. blk \o up \in Seq(Frame)
    BY <1>3, ConcatProperties
  <2> QED
    BY <1>1, <1>2, <2>1, ConcatProperties
<1>5. provided' \subseteq Resource
  BY DEF EndOp, NodeTypeOK
<1> QED
  BY <1>4, <1>5 DEF EndOp, NodeTypeOK, startVars, lockVars

LEMMA OperationStepType == ASSUME NodeTypeOK, OperationStep PROVE NodeTypeOK'
BY SiblingType, OpOnRunNodeType, RunByHandType, MarkRunningType, RunRefusedType, OpOnGroupType,
   OpOnGroupDoneType, OpNotAllowedType, EndOpType, Zenon DEF OperationStep

EndTypeOK == halted \in BOOLEAN /\ ended \in {"no", "finished", "stopped"}

LEMMA PickType == ASSUME NodeTypeOK, EndTypeOK, Pick PROVE NodeTypeOK' /\ EndTypeOK'
<1>1. PICK n \in RunNode : StartNode(n) /\ agenda' = Up(n) \o Tail(agenda)
  BY DEF Pick
<1>2. n \in Node /\ Tail(agenda) \in Seq(Frame)
  BY NextType DEF Pick, NodeTypeOK, RunNode
<1>3. agenda' \in Seq(Frame)
  BY <1>1, <1>2, DownUpType
<1> QED
  BY <1>1, <1>2, <1>3, StartNodeType DEF Pick, NodeTypeOK, EndTypeOK, lockVars, endVars

LEMMA CheckEndType == ASSUME NodeTypeOK, EndTypeOK, CheckEnd PROVE NodeTypeOK' /\ EndTypeOK'
<1> DEFINE settle == [do |-> "settle", before |-> SchedState]
           calls  == <<[do |-> "blocked"], settle>>
<1>1. Tail(agenda) \in Seq(Frame) /\ Root \in Node
  BY NextType, NodeAssumption DEF CheckEnd, NodeTypeOK
<1>2. IsFiniteSet(provided) /\ IsFiniteSet({r \in Lock : xby[r] # None})
      /\ IsFiniteSet({r \in Lock : rby[r] # None})
  <2>1. IsFiniteSet(Resource) /\ IsFiniteSet(Lock)
    BY PropertyAssumption, LockAssumption
  <2> QED
    BY <2>1, FS_Subset DEF NodeTypeOK
<1>3. SchedState \in [Node -> Status] \X (SUBSET Node) \X Nat \X Nat \X Nat
  BY <1>2, FS_CardinalityType DEF SchedState, NodeTypeOK
<1>4. calls \in Seq(Frame)
  <2>1. settle \in Frame /\ [do |-> "blocked"] \in Frame
    BY <1>3 DEF Frame
  <2> HIDE DEF settle
  <2> QED
    BY <2>1
<1>5. Down(Root) \o calls \in Seq(Frame)
  BY <1>1, <1>4, UpDownType, ConcatProperties
<1>6. agenda' = Down(Root) \o calls \/ agenda' = Tail(agenda)
  BY DEF CheckEnd
<1>7. agenda' \in Seq(Frame)
  BY <1>1, <1>5, <1>6
<1> QED
  BY <1>7 DEF CheckEnd, NodeTypeOK, EndTypeOK, nodeVars, startVars, lockVars

LEMMA SettleType == ASSUME NodeTypeOK, EndTypeOK, Settle PROVE NodeTypeOK' /\ EndTypeOK'
<1>1. Tail(agenda) \in Seq(Frame)
  BY NextType DEF Settle, NodeTypeOK
<1> QED
  BY <1>1 DEF Settle, NodeTypeOK, EndTypeOK, nodeVars, startVars, lockVars

LEMMA ScheduleType == ASSUME NodeTypeOK, EndTypeOK, Schedule PROVE NodeTypeOK' /\ EndTypeOK'
<1>1. <<[do |-> "blocked"], [do |-> "pick"]>> \in Seq(Frame)
  BY DEF Frame
<1>2. Root \in Node /\ agenda' = Down(Root) \o <<[do |-> "blocked"], [do |-> "pick"]>>
  BY NodeAssumption DEF Schedule
<1>3. agenda' \in Seq(Frame)
  BY <1>1, <1>2, UpDownType, ConcatProperties
<1>4. timedOut' \in [Node -> BOOLEAN]
  BY DEF Schedule, NodeTypeOK
<1> QED
  BY <1>3, <1>4 DEF Schedule, NodeTypeOK, EndTypeOK, nodeVars, lockVars, endVars

-----------------------------------------------------------------------------
(* The goroutines.                                                          *)

GoTypeOK ==
  /\ conns \subseteq RunNode \X Start /\ terms \subseteq RunNode \X Start
  /\ closing \subseteq RunNode \X Start /\ notify \subseteq RunNode
  /\ ops \in 0..MaxOps

LEMMA TypeParts == TypeOK <=> NodeTypeOK /\ EndTypeOK /\ GoTypeOK
BY DEF TypeOK, NodeTypeOK, EndTypeOK, GoTypeOK

LEMMA TypePartsNext == NodeTypeOK' /\ EndTypeOK' /\ GoTypeOK' => TypeOK'
BY DEF TypeOK, NodeTypeOK, EndTypeOK, GoTypeOK

LEMMA CallType == ASSUME TypeOK, Call PROVE TypeOK'
<1>1. NodeTypeOK /\ EndTypeOK /\ GoTypeOK
  BY TypeParts
<1>2. NodeTypeOK' /\ EndTypeOK'
  <2>1. CASE (UpdateStatus \/ UpdateBlocked \/ OperationStep) /\ UNCHANGED endVars
    <3>1. NodeTypeOK'
      BY <1>1, <2>1, UpdateStatusType, UpdateBlockedType, OperationStepType, Zenon
    <3> QED
      BY <1>1, <2>1, <3>1 DEF EndTypeOK, endVars
  <2>2. CASE Pick \/ CheckEnd \/ Settle
    BY <1>1, <2>2, PickType, CheckEndType, SettleType, Zenon
  <2> QED
    BY <2>1, <2>2, Zenon DEF Call
<1>3. GoTypeOK'
  BY <1>1 DEF Call, GoTypeOK, Started
<1> QED
  BY <1>2, <1>3, TypePartsNext

(* The goroutines without the tree lock.                                     *)
LEMMA GoroutineType ==
  ASSUME TypeOK, NEW n \in RunNode, NEW k \in Start,
         Connect(n, k) \/ Exit(n, k) \/ TerminalCreated(n, k) \/ CloseClient(n, k)
  PROVE  TypeOK'
<1>1. NodeTypeOK /\ EndTypeOK /\ GoTypeOK
  BY TypeParts
<1>2. UNCHANGED treeVars
  BY DEF Connect, Exit, TerminalCreated, CloseClient
<1>3. proc' \in [Node -> [Start -> ProcState]]
  <2>1. ASSUME NEW s \in ProcState, SetProc(n, k, s) PROVE proc' \in [Node -> [Start -> ProcState]]
    BY <1>1, <2>1 DEF SetProc, NodeTypeOK, RunNode
  <2>2. UNCHANGED proc => proc' \in [Node -> [Start -> ProcState]]
    BY <1>1 DEF NodeTypeOK
  <2>3. {"refused", "alive", "ok", "err"} \subseteq ProcState
    BY DEF ProcState
  <2>4. (\E s \in {"refused", "alive", "ok", "err"} : SetProc(n, k, s)) \/ UNCHANGED proc
    BY DEF Connect, Exit, TerminalCreated, CloseClient
  <2> QED
    BY <2>1, <2>2, <2>3, <2>4
<1>4. conns' \subseteq RunNode \X Start /\ terms' \subseteq RunNode \X Start
      /\ closing' \subseteq RunNode \X Start /\ notify' \subseteq RunNode
  BY <1>1 DEF Connect, Exit, TerminalCreated, CloseClient, GoTypeOK
<1>5. NodeTypeOK' /\ EndTypeOK'
  BY <1>1, <1>2, <1>3 DEF NodeTypeOK, EndTypeOK, treeVars, nodeVars, startVars, lockVars, endVars
<1>6. GoTypeOK'
  BY <1>1, <1>2, <1>4 DEF GoTypeOK, treeVars
<1> QED
  BY <1>5, <1>6, TypePartsNext

LEMMA HandlerType ==
  ASSUME TypeOK, NEW n \in RunNode, NEW k \in Start,
         Connected(n, k) \/ ProcStateChanged(n) \/ TerminalFailed(n, k)
  PROVE  TypeOK'
<1> USE DEF nodeVars, startVars, lockVars, endVars
<1>1. NodeTypeOK /\ EndTypeOK /\ GoTypeOK /\ n \in Node
  BY TypeParts DEF RunNode
<1>2. Up(n) \in Seq(Frame)
  BY <1>1, UpDownType
<1>3. CASE Connected(n, k)
  <2>. k \in 0..MaxStarts
    OBVIOUS
  <2>1. client' \in [Node -> 0..MaxStarts]
    BY <1>1, <1>3 DEF Connected, NodeTypeOK
  <2>2. NodeTypeOK' /\ EndTypeOK'
    BY <1>1, <1>2, <1>3, <2>1 DEF Connected, NodeTypeOK, EndTypeOK
  <2>3. GoTypeOK'
    BY <1>1, <1>3 DEF Connected, GoTypeOK
  <2> QED
    BY <2>2, <2>3, TypePartsNext
<1>4. CASE ProcStateChanged(n)
  <2>1. NodeTypeOK' /\ EndTypeOK' /\ GoTypeOK'
    BY <1>1, <1>2, <1>4 DEF ProcStateChanged, NodeTypeOK, EndTypeOK, GoTypeOK
  <2> QED
    BY <2>1, TypePartsNext
<1>5. CASE TerminalFailed(n, k)
  <2>1. NodeTypeOK' /\ EndTypeOK'
    BY <1>1, <1>5 DEF TerminalFailed, NodeTypeOK, EndTypeOK
  <2>2. client[n] # 0 => client[n] \in Start
    BY <1>1, BoundAssumption DEF NodeTypeOK
  <2>3. GoTypeOK'
    BY <1>1, <1>5, <2>2 DEF TerminalFailed, GoTypeOK
  <2> QED
    BY <2>1, <2>3, TypePartsNext
<1> QED
  BY <1>3, <1>4, <1>5

LEMMA UserOpType ==
  ASSUME TypeOK, NEW n \in Node, NEW op \in Op, NEW rec \in BOOLEAN,
         NEW keep \in SUBSET (provided \cap MayKeep), UserOp(n, op, rec, keep)
  PROVE  TypeOK'
<1>1. NodeTypeOK /\ EndTypeOK /\ GoTypeOK
  BY TypeParts
<1>2. keep \in SUBSET Resource /\ <<>> \in Seq(Frame)
  BY <1>1 DEF NodeTypeOK
<1>3. PerformOp(n, op, rec, keep, <<>>) /\ UNCHANGED <<startVars, proc, lockVars, blocked>>
  BY DEF UserOp
<1>4. NodeTypeOK'
  BY <1>1, <1>2, <1>3, PerformOpType
<1>5. EndTypeOK' /\ GoTypeOK'
  BY <1>1, BoundAssumption DEF UserOp, EndTypeOK, GoTypeOK, endVars, goVars
<1> QED
  BY <1>4, <1>5, TypePartsNext

LEMMA OtherType ==
  ASSUME TypeOK, (Schedule \/ StopScheduler \/ Unblock) /\ UNCHANGED <<goVars, ops>>
  PROVE  TypeOK'
<1>1. NodeTypeOK /\ EndTypeOK /\ GoTypeOK
  BY TypeParts
<1>2. NodeTypeOK' /\ EndTypeOK'
  <2>1. CASE Schedule
    BY <1>1, <2>1, ScheduleType
  <2>2. CASE StopScheduler
    BY <1>1, <2>2 DEF StopScheduler, NodeTypeOK, EndTypeOK, nodeVars, startVars, lockVars
  <2>3. CASE Unblock
    BY <1>1, <2>3 DEF Unblock, NodeTypeOK, EndTypeOK, nodeVars, startVars, lockVars, endVars
  <2> QED
    BY <2>1, <2>2, <2>3
<1>3. GoTypeOK'
  BY <1>1 DEF GoTypeOK, goVars
<1> QED
  BY <1>2, <1>3, TypePartsNext

LEMMA InitType == Init => TypeOK
<1> SUFFICES ASSUME Init PROVE TypeOK
  OBVIOUS
<1>1. NodeTypeOK
  <2>1. FrozenInFile \subseteq Node /\ MaxStarts \in Nat
    BY PropertyAssumption, BoundAssumption
  <2>2. status \in [Node -> Status] /\ manual \in [Node -> Status]
    BY DEF Init, Status
  <2>3. proc \in [Node -> [Start -> ProcState]]
    BY DEF Init, ProcState
  <2>4. starts \in [Node -> 0..MaxStarts] /\ client \in [Node -> 0..MaxStarts]
    BY <2>1 DEF Init
  <2> QED
    BY <2>2, <2>3, <2>4 DEF Init, NodeTypeOK
<1>2. EndTypeOK
  BY DEF Init, EndTypeOK
<1>3. GoTypeOK
  <2>1. 0 \in 0..MaxOps
    BY BoundAssumption
  <2> QED
    BY <2>1 DEF Init, GoTypeOK
<1> QED
  BY <1>1, <1>2, <1>3, TypeParts

LEMMA NextTypeOK == TypeOK /\ [Next]_vars => TypeOK'
<1> SUFFICES ASSUME TypeOK, [Next]_vars PROVE TypeOK'
  OBVIOUS
<1>1. CASE Call
  BY <1>1, CallType
<1>2. CASE (Schedule \/ (MayExit /\ StopScheduler) \/ Unblock) /\ UNCHANGED <<goVars, ops>>
  BY <1>2, OtherType
<1>3. ASSUME NEW n \in RunNode, ProcStateChanged(n) PROVE TypeOK'
  <2>1. 1 \in Start
    BY BoundAssumption
  <2> QED
    BY <1>3, <2>1, HandlerType
<1>4. ASSUME NEW n \in RunNode, NEW k \in Start,
             \/ Connect(n, k) \/ Exit(n, k) \/ Connected(n, k)
             \/ TerminalCreated(n, k) \/ TerminalFailed(n, k) \/ CloseClient(n, k)
      PROVE  TypeOK'
  BY <1>4, GoroutineType, HandlerType
<1>5. ASSUME NEW n \in Node, NEW op \in Op, NEW rec \in BOOLEAN,
             NEW keep \in SUBSET (provided \cap MayKeep), UserOp(n, op, rec, keep)
      PROVE  TypeOK'
  BY <1>5, UserOpType
<1>6. CASE UNCHANGED vars
  BY <1>6 DEF vars, TypeOK, nodeVars, startVars, lockVars, endVars, goVars
<1> QED
  BY <1>1, <1>2, <1>3, <1>4, <1>5, <1>6 DEF Next

(* Every variable keeps its type: in particular, a call on the agenda is of a *)
(* node of the tree, and the owner of a lock is one, whatever calls whatever.  *)
THEOREM TypeCorrect == Spec => []TypeOK
BY InitType, NextTypeOK, PTL DEF Spec

-----------------------------------------------------------------------------
(* What only updateStatus changes.                                          *)

LEMMA StatusChange ==
  ASSUME [Next]_vars
  PROVE  UpdateStatus \/ UNCHANGED <<status, nproc, xby, rby>>
<1> USE DEF nodeVars, lockVars
<1>1. CASE Call
  <2>1. CASE UpdateBlocked \/ Pick \/ CheckEnd \/ Settle
    BY <2>1 DEF UpdateBlocked, Pick, CheckEnd, Settle
  <2>2. CASE OperationStep
    <3>1. CASE Sibling
      BY <3>1 DEF Sibling, PerformOp
    <3>2. CASE OpOnRunNode \/ RunByHand \/ MarkRunning \/ RunRefused
      BY <3>2 DEF OpOnRunNode, RunByHand, MarkRunning, RunRefused
    <3>3. CASE OpOnGroup \/ OpOnGroupDone \/ OpNotAllowed \/ EndOp
      BY <3>3 DEF OpOnGroup, OpOnGroupDone, OpNotAllowed, EndOp
    <3> QED
      BY <2>2, <3>1, <3>2, <3>3, Zenon DEF OperationStep
  <2> QED
    BY <1>1, <2>1, <2>2, Zenon DEF Call
<1>2. CASE (Schedule \/ (MayExit /\ StopScheduler) \/ Unblock) /\ UNCHANGED <<goVars, ops>>
  BY <1>2 DEF Schedule, StopScheduler, Unblock
<1>3. ASSUME NEW n \in RunNode, ProcStateChanged(n)
      PROVE  UNCHANGED <<status, nproc, xby, rby>>
  BY <1>3 DEF ProcStateChanged
<1>4. ASSUME NEW n \in RunNode, NEW k \in Start,
             \/ Connect(n, k) \/ Exit(n, k) \/ Connected(n, k)
             \/ TerminalCreated(n, k) \/ TerminalFailed(n, k) \/ CloseClient(n, k)
      PROVE  UNCHANGED <<status, nproc, xby, rby>>
  BY <1>4 DEF Connect, Exit, Connected, TerminalCreated, TerminalFailed, CloseClient, treeVars
<1>5. ASSUME NEW n \in Node, NEW op \in Op, NEW rec \in BOOLEAN,
             NEW keep \in SUBSET (provided \cap MayKeep), UserOp(n, op, rec, keep)
      PROVE  UNCHANGED <<status, nproc, xby, rby>>
  BY <1>5 DEF UserOp, PerformOp
<1>6. CASE UNCHANGED vars
  BY <1>6 DEF vars
<1> QED
  BY <1>1, <1>2, <1>3, <1>4, <1>5, <1>6, Zenon DEF Next

(* The node that updateStatus is about, and what it does to it.               *)
LEMMA UpdateStatusStep ==
  ASSUME TypeOK, UpdateStatus
  PROVE  \E n \in Node, s \in Status :
           /\ SetStatus(n, s)
           /\ \/ ~HoldsLocks(status[n]) /\ HoldsLocks(s) /\ (AcquireLocks(n) \/ AcquirePanics(n))
              \/ HoldsLocks(status[n]) /\ ~HoldsLocks(s) /\ ReleaseLocks(n)
              \/ HoldsLocks(status[n]) = HoldsLocks(s) /\ UNCHANGED lockVars
<1> DEFINE n == Head(agenda).node
           s == CalcStatus(n).st
<1>1. NodeTypeOK /\ n \in Node
  BY TypeParts, NextType, FrameType DEF UpdateStatus, NodeTypeOK
<1>2. s \in Status
  BY <1>1, CalcType
<1>3. /\ SetStatus(n, s)
      /\ \/ ~HoldsLocks(status[n]) /\ HoldsLocks(s) /\ (AcquireLocks(n) \/ AcquirePanics(n))
         \/ HoldsLocks(status[n]) /\ ~HoldsLocks(s) /\ ReleaseLocks(n)
         \/ HoldsLocks(status[n]) = HoldsLocks(s) /\ UNCHANGED lockVars
  BY Zenon DEF UpdateStatus
<1> HIDE DEF n, s
<1> QED
  BY <1>1, <1>2, <1>3

LEMMA XLockHeldNext == TypeOK /\ XLockHeld /\ [Next]_vars => XLockHeld'
<1> SUFFICES ASSUME TypeOK, XLockHeld, [Next]_vars PROVE XLockHeld'
  OBVIOUS
<1>1. CASE UpdateStatus
  <2>1. PICK n \in Node, s \in Status :
          /\ SetStatus(n, s)
          /\ \/ ~HoldsLocks(status[n]) /\ HoldsLocks(s) /\ (AcquireLocks(n) \/ AcquirePanics(n))
             \/ HoldsLocks(status[n]) /\ ~HoldsLocks(s) /\ ReleaseLocks(n)
             \/ HoldsLocks(status[n]) = HoldsLocks(s) /\ UNCHANGED lockVars
    BY <1>1, UpdateStatusStep
  <2>2. /\ status \in [Node -> Status] /\ xby \in [Lock -> Node \cup {None}]
        /\ status' = [status EXCEPT ![n] = s]
    BY <2>1 DEF TypeOK, SetStatus
  <2> SUFFICES ASSUME NEW r \in Lock, xby'[r] # None
               PROVE  HoldsLocks(status'[xby'[r]]) /\ r \in XLocks[xby'[r]]
    BY DEF XLockHeld
  <2>3. CASE ~HoldsLocks(status[n]) /\ HoldsLocks(s) /\ (AcquireLocks(n) \/ AcquirePanics(n))
    <3>1. xby'[r] = xby[r] \/ (xby'[r] = n /\ r \in XLocks[n])
      BY <2>3 DEF AcquireLocks, AcquirePanics, Take, XFree
    <3> QED
      BY <2>2, <2>3, <3>1 DEF XLockHeld
  <2>4. CASE HoldsLocks(status[n]) /\ ~HoldsLocks(s) /\ ReleaseLocks(n)
    <3>1. xby'[r] = xby[r] /\ ~(r \in XLocks[n] /\ xby[r] = n)
      BY <2>4 DEF ReleaseLocks
    <3> QED
      BY <2>2, <3>1 DEF XLockHeld
  <2>5. CASE HoldsLocks(status[n]) = HoldsLocks(s) /\ UNCHANGED lockVars
    BY <2>2, <2>5 DEF XLockHeld, lockVars
  <2> QED
    BY <2>1, <2>3, <2>4, <2>5
<1>2. CASE UNCHANGED <<status, nproc, xby, rby>>
  BY <1>2 DEF XLockHeld
<1> QED
  BY <1>1, <1>2, StatusChange

(* The table of the exclusive locks has no stale entry, at no step of any     *)
(* handler, with any number of nested calls, and also after a panic.         *)
THEOREM ExclusiveLocksHeld == Spec => []XLockHeld
<1>1. Init => XLockHeld
  BY DEF Init, XLockHeld
<1> QED
  BY <1>1, InitType, NextTypeOK, XLockHeldNext, PTL DEF Spec

-----------------------------------------------------------------------------
(* The number of processes.                                                 *)

(* The run nodes below a that are running.                                   *)
RunningBelow(a) == {m \in RunNode : a \in Above(m) /\ Active(status[m])}

LEMMA NProcExactNext == TypeOK /\ NProcExact /\ [Next]_vars => NProcExact'
<1> SUFFICES ASSUME TypeOK, NProcExact, [Next]_vars PROVE NProcExact'
  OBVIOUS
<1>1. CASE UpdateStatus
  <2>1. PICK n \in Node, s \in Status : SetStatus(n, s)
    BY <1>1, UpdateStatusStep
  <2>2. /\ status \in [Node -> Status] /\ status' = [status EXCEPT ![n] = s]
        /\ CountProc(n, s)
    BY <2>1 DEF TypeOK, SetStatus
  <2> SUFFICES ASSUME NEW a \in Node PROVE nproc'[a] = Cardinality(RunningBelow(a)')
    BY DEF NProcExact, RunningBelow
  <2>3. IsFiniteSet(RunningBelow(a)) /\ nproc[a] = Cardinality(RunningBelow(a))
    <3>1. RunningBelow(a) \subseteq Node /\ IsFiniteSet(Node)
      BY NodeAssumption DEF RunningBelow, RunNode
    <3>2. nproc[a] = Cardinality(RunningBelow(a))
      BY DEF NProcExact, RunningBelow
    <3> QED
      BY <3>1, <3>2, FS_Subset
  <2>4. CASE a \notin Above(n) \/ Kind[n] # "run" \/ Active(s) = Active(status[n])
    <3>1. RunningBelow(a)' = RunningBelow(a)
      BY <2>2, <2>4 DEF RunningBelow, RunNode
    <3>2. nproc'[a] = nproc[a]
      BY <2>2, <2>4 DEF CountProc, Counts
    <3> QED
      BY <2>3, <3>1, <3>2
  <2>5. CASE a \in Above(n) /\ Kind[n] = "run" /\ Active(s) /\ ~Active(status[n])
    <3>1. RunningBelow(a)' = RunningBelow(a) \cup {n} /\ n \notin RunningBelow(a)
      BY <2>2, <2>5 DEF RunningBelow, RunNode
    <3>2. nproc'[a] = nproc[a] + 1
      BY <2>2, <2>5 DEF CountProc, Counts
    <3>3. Cardinality(RunningBelow(a) \cup {n}) = Cardinality(RunningBelow(a)) + 1
      BY <2>3, <3>1, FS_AddElement
    <3> QED
      BY <2>3, <3>1, <3>2, <3>3
  <2>6. CASE a \in Above(n) /\ Kind[n] = "run" /\ ~Active(s) /\ Active(status[n])
    <3>1. RunningBelow(a)' = RunningBelow(a) \ {n} /\ n \in RunningBelow(a)
      BY <2>2, <2>6 DEF RunningBelow, RunNode
    <3>2. nproc'[a] = nproc[a] - 1
      BY <2>2, <2>6 DEF CountProc, Counts
    <3>3. Cardinality(RunningBelow(a) \ {n}) = Cardinality(RunningBelow(a)) - 1
      BY <2>3, <3>1, FS_RemoveElement
    <3> QED
      BY <2>3, <3>1, <3>2, <3>3
  <2> QED
    BY <2>4, <2>5, <2>6 DEF Active
<1>2. CASE UNCHANGED <<status, nproc, xby, rby>>
  BY <1>2 DEF NProcExact
<1> QED
  BY <1>1, <1>2, StatusChange

(* NProc never drifts from the processes that it counts, whatever order the   *)
(* statuses of the tree are updated in.                                      *)
THEOREM ProcessesCounted == Spec => []NProcExact
<1>1. Init => NProcExact
  <2> SUFFICES ASSUME Init, NEW n \in Node
               PROVE  nproc[n] = Cardinality(RunningBelow(n))
    BY DEF NProcExact, RunningBelow
  <2>1. RunningBelow(n) = {}
    BY DEF Init, RunningBelow, RunNode, Active
  <2> QED
    BY <2>1, FS_EmptySet DEF Init
<1> QED
  BY <1>1, InitType, NextTypeOK, NProcExactNext, PTL DEF Spec

-----------------------------------------------------------------------------
(* The agenda: which call has which other call behind it.                   *)

(* Calls without a condition.                                                *)
Free(s) == \A i \in DOMAIN s : s[i].do \in {"status", "blocked", "sibling", "done", "settle"}

MarksOK(s, S)  == \A i \in DOMAIN s : s[i].do = "mark" => s[i].node \in S
EndFollows(s)  == \A i \in DOMAIN s : s[i].do = "op" =>
                    \E j \in DOMAIN s : i < j /\ s[j].do = "end"
HasEnd(s)      == \E i \in DOMAIN s : s[i].do = "end"
OpsOK(s)       == \A i \in DOMAIN s : s[i].do \in {"op", "end"} => s[i].op \in {"Skip", "Freeze"}
PickIsLast(s, fresh) ==
  \A i \in DOMAIN s : s[i].do = "pick" =>
    i = Len(s) /\ (IF i = 1 THEN fresh ELSE s[i - 1].do = "blocked")

(* A "mark" is of one of the nodes S, the operations below a PerformOp stand  *)
(* before its "end", nobody but on_error operates on an unattended tree, and  *)
(* the pick of a cycle comes last, after its "blocked" (fresh: this is done). *)
CallsOK(s, S, fresh) ==
  MarksOK(s, S) /\ EndFollows(s) /\ (Unattended => OpsOK(s)) /\ PickIsLast(s, fresh)

(* Two agendas with the same calls: flags of calls may differ.               *)
SameCalls(s, t) ==
  /\ Len(s) = Len(t)
  /\ \A i \in DOMAIN s : /\ s[i].do = t[i].do
                         /\ s[i].do = "mark" => s[i].node = t[i].node
                         /\ s[i].do \in {"op", "end"} => s[i].op = t[i].op

LEMMA EmptyOK == ASSUME NEW S, NEW F PROVE CallsOK(<<>>, S, F)
BY DEF CallsOK, MarksOK, EndFollows, OpsOK, PickIsLast

LEMMA FreeOK ==
  ASSUME NEW s \in Seq(Frame), Free(s), NEW S, NEW F PROVE CallsOK(s, S, F)
BY DEF Free, CallsOK, MarksOK, EndFollows, OpsOK, PickIsLast

LEMMA TailOK ==
  ASSUME NEW s \in Seq(Frame), s # <<>>, NEW S, NEW F, CallsOK(s, S, F)
  PROVE  /\ CallsOK(Tail(s), S, TRUE)
         /\ Head(s).do # "blocked" => CallsOK(Tail(s), S, FALSE)
         /\ Head(s).do = "op" => HasEnd(Tail(s))
<1>1. /\ Len(s) \in Nat \ {0} /\ Len(Tail(s)) = Len(s) - 1 /\ Head(s) = s[1]
      /\ \A i \in DOMAIN Tail(s) : i + 1 \in DOMAIN s /\ Tail(s)[i] = s[i + 1] /\ i \in Nat \ {0}
      /\ \A i \in DOMAIN s : i \in Nat \ {0} /\ (i # 1 => i - 1 \in DOMAIN Tail(s))
  OBVIOUS
<1> HIDE DEF Frame
<1>2. MarksOK(Tail(s), S) /\ (Unattended => OpsOK(Tail(s)))
  BY <1>1 DEF CallsOK, MarksOK, OpsOK
<1>3. EndFollows(Tail(s))
  <2> SUFFICES ASSUME NEW i \in DOMAIN Tail(s), Tail(s)[i].do = "op"
               PROVE  \E j \in DOMAIN Tail(s) : i < j /\ Tail(s)[j].do = "end"
    BY DEF EndFollows
  <2>1. PICK j \in DOMAIN s : i + 1 < j /\ s[j].do = "end"
    BY <1>1 DEF CallsOK, EndFollows
  <2>2. j - 1 \in DOMAIN Tail(s) /\ Tail(s)[j - 1] = s[j] /\ i < j - 1
    BY <1>1, <2>1
  <2> QED
    BY <2>1, <2>2
<1>4. PickIsLast(Tail(s), TRUE)
  BY <1>1 DEF CallsOK, PickIsLast
<1>5. Head(s).do # "blocked" => PickIsLast(Tail(s), FALSE)
  BY <1>1 DEF CallsOK, PickIsLast
<1>6. Head(s).do = "op" => HasEnd(Tail(s))
  <2> SUFFICES ASSUME Head(s).do = "op" PROVE HasEnd(Tail(s))
    OBVIOUS
  <2>1. PICK j \in DOMAIN s : 1 < j /\ s[j].do = "end"
    BY <1>1 DEF CallsOK, EndFollows
  <2>2. j - 1 \in DOMAIN Tail(s) /\ Tail(s)[j - 1] = s[j]
    BY <1>1, <2>1
  <2> QED
    BY <2>1, <2>2 DEF HasEnd
<1> QED
  BY <1>2, <1>3, <1>4, <1>5, <1>6 DEF CallsOK

(* Where the calls of a longer agenda come from.                             *)
LEMMA ConcatPlaces ==
  ASSUME NEW s \in Seq(Frame), NEW t \in Seq(Frame)
  PROVE  /\ s \o t \in Seq(Frame) /\ Len(s) \in Nat /\ Len(t) \in Nat
         /\ Len(s \o t) = Len(s) + Len(t) /\ DOMAIN (s \o t) = 1..(Len(s) + Len(t))
         /\ DOMAIN s = 1..Len(s) /\ DOMAIN t = 1..Len(t)
         /\ \A i \in DOMAIN s : (s \o t)[i] = s[i]
         /\ \A i \in DOMAIN t : (s \o t)[Len(s) + i] = t[i]
         /\ \A i \in DOMAIN (s \o t) :
              \/ i \in DOMAIN s /\ (s \o t)[i] = s[i]
              \/ i > Len(s) /\ i - Len(s) \in DOMAIN t /\ (s \o t)[i] = t[i - Len(s)]
OBVIOUS

(* What may be put in front of a rest that does not begin with a pick.        *)
LEMMA FrontOK ==
  ASSUME NEW s \in Seq(Frame), NEW t \in Seq(Frame), NEW S, NEW F,
         \A i \in DOMAIN s : s[i].do # "pick",
         MarksOK(s, S), Unattended => OpsOK(s), EndFollows(s) \/ HasEnd(t),
         CallsOK(t, S, FALSE)
  PROVE  CallsOK(s \o t, S, F)
<1> DEFINE u == s \o t
<1>1. /\ u \in Seq(Frame) /\ Len(s) \in Nat /\ Len(t) \in Nat /\ Len(u) = Len(s) + Len(t)
      /\ DOMAIN u = 1..(Len(s) + Len(t)) /\ DOMAIN s = 1..Len(s) /\ DOMAIN t = 1..Len(t)
      /\ \A i \in DOMAIN s : u[i] = s[i]
      /\ \A i \in DOMAIN t : u[Len(s) + i] = t[i]
      /\ \A i \in DOMAIN u : \/ i \in DOMAIN s /\ u[i] = s[i]
                             \/ i > Len(s) /\ i - Len(s) \in DOMAIN t /\ u[i] = t[i - Len(s)]
  BY ConcatPlaces
<1> HIDE DEF u, Frame
<1>2. MarksOK(u, S) /\ (Unattended => OpsOK(u))
  BY <1>1 DEF CallsOK, MarksOK, OpsOK
<1>3. EndFollows(u)
  <2> SUFFICES ASSUME NEW i \in DOMAIN u, u[i].do = "op"
               PROVE  \E j \in DOMAIN u : i < j /\ u[j].do = "end"
    BY DEF EndFollows
  <2>1. CASE i \in DOMAIN s /\ u[i] = s[i]
    <3>1. CASE EndFollows(s)
      <4>1. PICK j \in DOMAIN s : i < j /\ s[j].do = "end"
        BY <2>1, <3>1 DEF EndFollows
      <4> QED
        BY <1>1, <4>1
    <3>2. CASE HasEnd(t)
      <4>1. PICK j \in DOMAIN t : t[j].do = "end"
        BY <3>2 DEF HasEnd
      <4>2. Len(s) + j \in DOMAIN u /\ i < Len(s) + j
        BY <1>1, <2>1, <4>1
      <4> QED
        BY <1>1, <4>1, <4>2
    <3> QED
      BY <3>1, <3>2
  <2>2. CASE i > Len(s) /\ i - Len(s) \in DOMAIN t /\ u[i] = t[i - Len(s)]
    <3>1. PICK j \in DOMAIN t : i - Len(s) < j /\ t[j].do = "end"
      BY <2>2 DEF CallsOK, EndFollows
    <3>2. Len(s) + j \in DOMAIN u /\ i < Len(s) + j /\ u[Len(s) + j].do = "end"
      BY <1>1, <3>1
    <3> QED
      BY <3>2
  <2> QED
    BY <1>1, <2>1, <2>2
<1>4. PickIsLast(u, F)
  <2> SUFFICES ASSUME NEW i \in DOMAIN u, u[i].do = "pick"
               PROVE  i = Len(u) /\ (IF i = 1 THEN F ELSE u[i - 1].do = "blocked")
    BY DEF PickIsLast
  <2>1. i > Len(s) /\ i - Len(s) \in DOMAIN t /\ t[i - Len(s)].do = "pick"
    BY <1>1
  <2>2. i - Len(s) = Len(t) /\ i - Len(s) # 1 /\ t[i - Len(s) - 1].do = "blocked"
    BY <2>1 DEF CallsOK, PickIsLast
  <2>3. i - Len(s) - 1 \in DOMAIN t /\ Len(s) + (i - Len(s) - 1) = i - 1 /\ i # 1
    <3>1. Len(s) \in Nat /\ Len(t) \in Nat /\ i \in Int /\ DOMAIN t = 1..Len(t)
      BY <1>1
    <3>2. i - Len(s) \in 1..Len(t) /\ i - Len(s) # 1 /\ i > Len(s)
      BY <2>1, <2>2, <3>1
    <3>3. i - Len(s) - 1 \in 1..Len(t) /\ Len(s) + (i - Len(s) - 1) = i - 1 /\ i # 1
      BY <3>1, <3>2
    <3> QED
      BY <3>1, <3>3
  <2>4. u[i - 1] = t[i - Len(s) - 1]
    BY <1>1, <2>3
  <2> QED
    BY <1>1, <2>2, <2>3, <2>4
<1>5. CallsOK(u, S, F)
  BY <1>2, <1>3, <1>4 DEF CallsOK
<1> QED
  BY <1>5 DEF u

LEMMA FreeFrontOK ==
  ASSUME NEW s \in Seq(Frame), NEW t \in Seq(Frame), NEW S, NEW F, Free(s), CallsOK(t, S, FALSE)
  PROVE  CallsOK(s \o t, S, F)
<1>1. /\ \A i \in DOMAIN s : s[i].do # "pick"
      /\ MarksOK(s, S) /\ OpsOK(s) /\ EndFollows(s)
  BY DEF Free, MarksOK, OpsOK, EndFollows
<1> QED
  BY <1>1, FrontOK

LEMMA SameOK ==
  ASSUME NEW s \in Seq(Frame), NEW t \in Seq(Frame), SameCalls(s, t), NEW S, NEW F,
         CallsOK(t, S, F)
  PROVE  CallsOK(s, S, F)
<1>1. Len(s) \in Nat /\ DOMAIN s = 1..Len(s) /\ DOMAIN t = DOMAIN s
      /\ \A i \in DOMAIN s : i # 1 => i - 1 \in DOMAIN s
  BY DEF SameCalls
<1> HIDE DEF Frame
<1>2. MarksOK(s, S) /\ (Unattended => OpsOK(s))
  BY <1>1 DEF SameCalls, CallsOK, MarksOK, OpsOK
<1>3. EndFollows(s)
  BY <1>1 DEF SameCalls, CallsOK, EndFollows
<1>4. PickIsLast(s, F)
  BY <1>1 DEF SameCalls, CallsOK, PickIsLast
<1> QED
  BY <1>2, <1>3, <1>4 DEF CallsOK

(* More nodes, and a rest that may begin with a pick.                        *)
LEMMA WeakerOK ==
  ASSUME NEW s \in Seq(Frame), NEW S, NEW T, S \subseteq T, NEW F \in BOOLEAN, CallsOK(s, S, FALSE)
  PROVE  CallsOK(s, T, F)
BY DEF CallsOK, MarksOK, PickIsLast

LEMMA FlagsOnly ==
  ASSUME NEW rest \in Seq(Frame), NEW sub
  PROVE  /\ SameCalls(Changed(sub, rest), rest)
         /\ SameCalls([rest EXCEPT ![1].failed = TRUE], rest)
<1>1. ASSUME NEW i, NEW g, i \in DOMAIN rest => /\ g.do = rest[i].do
                                                /\ g.do = "mark" => g.node = rest[i].node
                                                /\ g.do \in {"op", "end"} => g.op = rest[i].op
      PROVE  SameCalls([rest EXCEPT ![i] = g], rest)
  BY <1>1 DEF SameCalls
<1>2. ASSUME NEW f \in Frame
      PROVE  /\ [f EXCEPT !.changed = TRUE].do = f.do /\ [f EXCEPT !.failed = TRUE].do = f.do
             /\ f.do = "mark" => /\ [f EXCEPT !.changed = TRUE].node = f.node
                                 /\ [f EXCEPT !.failed = TRUE].node = f.node
             /\ f.do \in {"op", "end"} => /\ [f EXCEPT !.changed = TRUE].op = f.op
                                          /\ [f EXCEPT !.failed = TRUE].op = f.op
  BY DEF Frame
<1>3. \A i \in DOMAIN rest : rest[i] \in Frame
  OBVIOUS
<1>4. \A i : SameCalls([rest EXCEPT ![i] = [rest[i] EXCEPT !.changed = TRUE]], rest)
  BY <1>1, <1>2, <1>3
<1>5. SameCalls([rest EXCEPT ![1] = [rest[1] EXCEPT !.failed = TRUE]], rest)
  BY <1>1, <1>2, <1>3
<1>6. SameCalls(rest, rest)
  BY DEF SameCalls
<1> QED
  BY <1>4, <1>5, <1>6 DEF Changed

LEMMA WalksAreFree ==
  ASSUME NEW n \in Node
  PROVE  /\ Up(n) \in Seq(Frame) /\ Down(n) \in Seq(Frame) /\ Down(n) \o Up(n) \in Seq(Frame)
         /\ Free(Up(n)) /\ Free(Down(n)) /\ Free(Down(n) \o Up(n))
<1>1. Up(n) \in Seq(Frame) /\ Down(n) \in Seq(Frame)
  BY UpDownType
<1>2. Free(Up(n)) /\ Free(Down(n))
  BY DEF Free, Up, Down, Stat
<1>3. Down(n) \o Up(n) \in Seq(Frame) /\ Free(Down(n) \o Up(n))
  <2> HIDE DEF Frame
  <2> QED
    BY <1>1, <1>2, ConcatPlaces DEF Free
<1> QED
  BY <1>1, <1>2, <1>3

-----------------------------------------------------------------------------
(* The agenda of a reachable state.                                         *)

Starting == {n \in RunNode : starting[n]}
Fresh    == \A n \in Node \ blocked : ~IsBlocked(n)
AgendaOK == CallsOK(agenda, Starting, Fresh)

LEMMA FreshStays == ASSUME UNCHANGED <<provided, lockVars, blocked>> PROVE Fresh' = Fresh
BY DEF Fresh, IsBlocked, MissingRequired, CannotXAcquire, CannotRAcquire, Taken, lockVars


(* What the head of the agenda leaves behind.                                *)
LEMMA BehindOK ==
  ASSUME TypeOK, AgendaOK, agenda # <<>>
  PROVE  /\ Tail(agenda) \in Seq(Frame)
         /\ CallsOK(Tail(agenda), Starting, TRUE)
         /\ Head(agenda).do # "blocked" => CallsOK(Tail(agenda), Starting, FALSE)
<1>1. agenda \in Seq(Frame) /\ CallsOK(agenda, Starting, Fresh)
  BY DEF TypeOK, AgendaOK
<1>2. Tail(agenda) \in Seq(Frame)
  BY <1>1
<1> QED
  BY <1>1, <1>2, TailOK

(* The operations that somebody may be about to perform.                     *)
LEMMA HeadOp ==
  ASSUME AgendaOK, Unattended, Next1("op") \/ Next1("end"), TypeOK
  PROVE  Head(agenda).op \in {"Skip", "Freeze"}
<1>1. agenda # <<>> /\ 1 \in DOMAIN agenda /\ Head(agenda) = agenda[1]
  BY DEF Next1, TypeOK
<1> QED
  BY <1>1 DEF AgendaOK, CallsOK, OpsOK, Next1

(* ... when it is performOp of a node.                                       *)
LEMMA BehindOp ==
  ASSUME TypeOK, AgendaOK, Next1("op")
  PROVE  /\ Head(agenda).node \in Node /\ Head(agenda).op \in Op
         /\ Head(agenda).rec \in BOOLEAN /\ Head(agenda).sub \in BOOLEAN
         /\ Tail(agenda) \in Seq(Frame) /\ CallsOK(Tail(agenda), Starting, FALSE)
         /\ HasEnd(Tail(agenda))
         /\ Unattended => Head(agenda).op \in {"Skip", "Freeze"}
<1>1. agenda \in Seq(Frame)
  BY DEF TypeOK
<1>2. /\ Head(agenda).node \in Node /\ Head(agenda).op \in Op
      /\ Head(agenda).rec \in BOOLEAN /\ Head(agenda).sub \in BOOLEAN
      /\ Tail(agenda) \in Seq(Frame)
  BY <1>1, OpType
<1>3. CallsOK(Tail(agenda), Starting, FALSE) /\ HasEnd(Tail(agenda))
  <2>1. agenda # <<>> /\ Head(agenda).do = "op" /\ CallsOK(agenda, Starting, Fresh)
    BY DEF Next1, AgendaOK
  <2> QED
    BY <1>1, <2>1, TailOK
<1>4. Unattended => Head(agenda).op \in {"Skip", "Freeze"}
  BY HeadOp
<1> QED
  BY <1>2, <1>3, <1>4

LEMMA SiblingCallsFree ==
  ASSUME NEW n \in Node, Parent[n] # None, OnSiblings[n] # "None"
  PROVE  SiblingCalls(n) \in Seq(Frame) /\ Free(SiblingCalls(n))
<1>1. SiblingCalls(n) \in Seq(Frame)
  BY SiblingCallsType
<1>2. Free(SiblingCalls(n))
  BY DEF Free, SiblingCalls
<1> QED
  BY <1>1, <1>2

LEMMA UpdateStatusAgenda == ASSUME TypeOK, AgendaOK, UpdateStatus PROVE AgendaOK'
<1> DEFINE n     == Head(agenda).node
           new   == CalcStatus(n)
           calls == IF status[n] # new.st /\ ~HasError(status[n]) /\ new.oe
                       /\ OnSiblings[n] # "None" /\ Parent[n] # None
                    THEN SiblingCalls(n) ELSE <<>>
<1>1. n \in Node /\ Tail(agenda) \in Seq(Frame) /\ CallsOK(Tail(agenda), Starting, FALSE)
  <2>1. agenda \in Seq(Frame) /\ Next1("status")
    BY DEF TypeOK, UpdateStatus
  <2> QED
    BY <2>1, BehindOK, NextType, FrameType DEF Next1
<1>2. agenda' = calls \o Tail(agenda) \/ agenda' = <<>>
  BY DEF UpdateStatus
<1>3. Starting' = Starting
  BY DEF UpdateStatus, SetStatus, startVars, Starting
<1>4. calls \in Seq(Frame) /\ Free(calls)
  <2>1. <<>> \in Seq(Frame) /\ Free(<<>>)
    BY DEF Free
  <2> HIDE DEF n, new
  <2> QED
    BY <1>1, <2>1, SiblingCallsFree
<1> HIDE DEF calls, n
<1>5. CallsOK(calls \o Tail(agenda), Starting, Fresh')
  BY <1>1, <1>4, FreeFrontOK
<1> QED
  BY <1>2, <1>3, <1>5, EmptyOK DEF AgendaOK

LEMMA UpdateBlockedAgenda == ASSUME TypeOK, AgendaOK, UpdateBlocked PROVE AgendaOK'
<1>1. CallsOK(Tail(agenda), Starting, TRUE)
  BY BehindOK DEF UpdateBlocked, Next1
<1>2. Fresh'
  <2> SUFFICES ASSUME NEW n \in Node, n \notin blocked' PROVE ~IsBlocked(n)'
    BY DEF Fresh
  <2>1. ~IsBlocked(n) /\ UNCHANGED <<provided, xby, rby>>
    BY DEF UpdateBlocked, nodeVars, lockVars
  <2> QED
    BY <2>1 DEF IsBlocked, MissingRequired, CannotXAcquire, CannotRAcquire, Taken
<1>3. Starting' = Starting /\ agenda' = Tail(agenda)
  BY DEF UpdateBlocked, startVars, Starting
<1>4. CallsOK(agenda', Starting', TRUE)
  BY <1>1, <1>3
<1>5. Fresh' = TRUE
  BY <1>2 DEF Fresh
<1> QED
  BY <1>4, <1>5 DEF AgendaOK

(* PerformOp, from the user or from on_error.                                *)
LEMMA PerformOpAgenda ==
  ASSUME TypeOK, NEW n \in Node, NEW op, NEW rec \in BOOLEAN, NEW keep \in SUBSET Resource,
         NEW rest \in Seq(Frame), CallsOK(rest, Starting, FALSE),
         Unattended => op \in {"Skip", "Freeze"}, NEW F \in BOOLEAN,
         PerformOp(n, op, rec, keep, rest)
  PROVE  CallsOK(agenda', Starting, F)
<1> DEFINE perform == [do |-> "op", node |-> n, op |-> op, rec |-> rec, sub |-> FALSE]
           end     == [do |-> "end", node |-> n, op |-> op, before |-> ProviderNodes,
                       keep |-> keep, failed |-> FALSE]
           calls   == <<perform, end>>
<1>1. CASE op \in AllowedOps(n, rec)
  <2>1. perform \in Frame /\ end \in Frame
    <3>1. op \in Op /\ ProviderNodes \in SUBSET Node
      BY <1>1, AllowedOpsType DEF ProviderNodes
    <3> QED
      BY <3>1 DEF Frame
  <2>2. agenda' = calls \o rest
    BY <1>1 DEF PerformOp
  <2>3. /\ perform.do = "op" /\ end.do = "end" /\ perform.op = op /\ end.op = op
    OBVIOUS
  <2>4. /\ calls \in Seq(Frame) /\ \A i \in DOMAIN calls : calls[i].do # "pick"
        /\ MarksOK(calls, Starting) /\ (Unattended => OpsOK(calls)) /\ EndFollows(calls)
    <3> HIDE DEF perform, end
    <3> QED
      BY <2>1, <2>3 DEF MarksOK, OpsOK, EndFollows
  <2> HIDE DEF calls
  <2> QED
    BY <2>2, <2>4, FrontOK
<1>2. CASE op \notin AllowedOps(n, rec)
  BY <1>2, WeakerOK DEF PerformOp
<1> QED
  BY <1>1, <1>2

LEMMA SiblingAgenda == ASSUME TypeOK, AgendaOK, Sibling PROVE AgendaOK'
<1> DEFINE f == Head(agenda)
<1>1. /\ f.node \in Node /\ f.op \in {"Skip", "Freeze"}
      /\ Tail(agenda) \in Seq(Frame) /\ CallsOK(Tail(agenda), Starting, FALSE)
  <2>1. agenda \in Seq(Frame) /\ Next1("sibling")
    BY DEF TypeOK, Sibling
  <2> QED
    BY <2>1, BehindOK, NextType, FrameType DEF Next1
<1>2. Starting' = Starting
  BY DEF Sibling, startVars, Starting
<1>3. Fresh' \in BOOLEAN
  BY DEF Fresh
<1>4. CASE PerformOp(f.node, f.op, HasChild(f.node), {}, Tail(agenda))
  <2>1. HasChild(f.node) \in BOOLEAN /\ {} \in SUBSET Resource
    BY DEF HasChild
  <2> HIDE DEF f
  <2>2. CallsOK(agenda', Starting, Fresh')
    BY <1>1, <1>3, <1>4, <2>1, PerformOpAgenda
  <2> QED
    BY <1>2, <2>2 DEF AgendaOK
<1>5. CASE agenda' = Tail(agenda)
  BY <1>1, <1>2, <1>3, <1>5, WeakerOK DEF AgendaOK
<1> QED
  BY <1>4, <1>5 DEF Sibling

LEMMA OpOnRunNodeAgenda == ASSUME TypeOK, AgendaOK, OpOnRunNode PROVE AgendaOK'
<1> DEFINE f    == Head(agenda)
           rest == Changed(f.sub, Tail(agenda))
<1>1. f.node \in Node /\ Tail(agenda) \in Seq(Frame) /\ CallsOK(Tail(agenda), Starting, FALSE)
  BY BehindOp DEF OpOnRunNode
<1>2. rest \in Seq(Frame) /\ CallsOK(rest, Starting, FALSE)
  BY <1>1, FlagType, FlagsOnly, SameOK
<1>3. Starting' = Starting /\ agenda' = Down(f.node) \o Up(f.node) \o rest
  BY DEF OpOnRunNode, Starting
<1> HIDE DEF f, rest
<1>4. CallsOK(Down(f.node) \o Up(f.node) \o rest, Starting, Fresh')
  BY <1>1, <1>2, WalksAreFree, FreeFrontOK
<1> QED
  BY <1>3, <1>4 DEF AgendaOK

LEMMA RunByHandAgenda == ASSUME TypeOK, AgendaOK, RunByHand PROVE AgendaOK'
<1> DEFINE n    == Head(agenda).node
           mark == <<[do |-> "mark", node |-> n]>>
<1>1. n \in RunNode /\ Tail(agenda) \in Seq(Frame) /\ CallsOK(Tail(agenda), Starting, FALSE)
  <2>1. Next1("op")
    BY DEF RunByHand
  <2>2. n \in Node /\ Tail(agenda) \in Seq(Frame) /\ CallsOK(Tail(agenda), Starting, FALSE)
    BY <2>1, BehindOp
  <2>3. Kind[n] = "run"
    BY DEF RunByHand, AllowedOps, MayRun
  <2> QED
    BY <2>2, <2>3 DEF RunNode
<1>2. starting' = [starting EXCEPT ![n] = TRUE] /\ agenda' = Up(n) \o mark \o Tail(agenda)
  BY DEF RunByHand, StartNode
<1>3. Starting \subseteq Starting' /\ n \in Starting'
  BY <1>1, <1>2 DEF Starting, TypeOK, RunNode
<1>4. CallsOK(Tail(agenda), Starting', FALSE)
  BY <1>1, <1>3, WeakerOK
<1>5. /\ mark \in Seq(Frame) /\ mark[1] = [do |-> "mark", node |-> n] /\ DOMAIN mark = {1}
  BY <1>1 DEF Frame, RunNode
<1>6. /\ Up(n) \o mark \in Seq(Frame) /\ EndFollows(Up(n) \o mark) /\ OpsOK(Up(n) \o mark)
      /\ MarksOK(Up(n) \o mark, Starting')
      /\ \A i \in DOMAIN (Up(n) \o mark) : (Up(n) \o mark)[i].do # "pick"
  <2>1. Up(n) \in Seq(Frame) /\ Free(Up(n))
    BY <1>1, WalksAreFree DEF RunNode
  <2>2. /\ Up(n) \o mark \in Seq(Frame)
        /\ \A i \in DOMAIN (Up(n) \o mark) :
             \/ (Up(n) \o mark)[i].do \in {"status", "blocked", "sibling", "done", "settle"}
             \/ (Up(n) \o mark)[i] = [do |-> "mark", node |-> n]
    <3> HIDE DEF mark
    <3>1. /\ Up(n) \o mark \in Seq(Frame)
          /\ \A i \in DOMAIN (Up(n) \o mark) :
               \/ i \in DOMAIN Up(n) /\ (Up(n) \o mark)[i] = Up(n)[i]
               \/ i - Len(Up(n)) \in DOMAIN mark /\ (Up(n) \o mark)[i] = mark[i - Len(Up(n))]
      BY <1>5, <2>1, ConcatPlaces
    <3> QED
      BY <1>5, <2>1, <3>1 DEF Free
  <2>3. EndFollows(Up(n) \o mark) /\ OpsOK(Up(n) \o mark)
        /\ \A i \in DOMAIN (Up(n) \o mark) : (Up(n) \o mark)[i].do # "pick"
    <3> HIDE DEF mark, n
    <3>1. ASSUME NEW u, \A i \in DOMAIN u :
                   \/ u[i].do \in {"status", "blocked", "sibling", "done", "settle"}
                   \/ u[i] = [do |-> "mark", node |-> n]
          PROVE  \A i \in DOMAIN u : u[i].do \notin {"op", "end", "pick"}
      BY <3>1
    <3>2. \A i \in DOMAIN (Up(n) \o mark) : (Up(n) \o mark)[i].do \notin {"op", "end", "pick"}
      BY <2>2, <3>1
    <3> QED
      BY <3>2 DEF EndFollows, OpsOK
  <2>4. MarksOK(Up(n) \o mark, Starting')
    <3> HIDE DEF mark, n
    <3> QED
      BY <1>3, <2>2 DEF MarksOK
  <2> QED
    BY <2>2, <2>3, <2>4
<1> HIDE DEF mark, n
<1>7. CallsOK(Up(n) \o mark \o Tail(agenda), Starting', Fresh')
  BY <1>1, <1>4, <1>6, FrontOK
<1> QED
  BY <1>2, <1>7 DEF AgendaOK

LEMMA MarkRunningAgenda == ASSUME TypeOK, AgendaOK, MarkRunning PROVE AgendaOK'
<1> DEFINE n == Head(agenda).node
<1>1. n \in Node /\ Tail(agenda) \in Seq(Frame) /\ CallsOK(Tail(agenda), Starting, FALSE)
  <2>1. agenda \in Seq(Frame) /\ Next1("mark")
    BY DEF TypeOK, MarkRunning
  <2> QED
    BY <2>1, BehindOK, NextType, FrameType DEF Next1
<1>2. Starting' = Starting /\ agenda' = Down(n) \o Up(n) \o Tail(agenda)
  BY DEF MarkRunning, startVars, Starting
<1> HIDE DEF n
<1>3. CallsOK(Down(n) \o Up(n) \o Tail(agenda), Starting, Fresh')
  BY <1>1, WalksAreFree, FreeFrontOK
<1> QED
  BY <1>2, <1>3 DEF AgendaOK

LEMMA RunRefusedAgenda == ASSUME TypeOK, AgendaOK, RunRefused PROVE AgendaOK'
<1>1. Tail(agenda) \in Seq(Frame) /\ CallsOK(Tail(agenda), Starting, FALSE)
  BY BehindOp DEF RunRefused
<1>2. Starting' = Starting /\ agenda' = [Tail(agenda) EXCEPT ![1].failed = TRUE]
  BY DEF RunRefused, startVars, Starting
<1>3. Fresh' \in BOOLEAN
  BY DEF Fresh
<1>4. agenda' \in Seq(Frame) /\ CallsOK(agenda', Starting, FALSE)
  BY <1>1, <1>2, FlagType, FlagsOnly, SameOK
<1> QED
  BY <1>2, <1>3, <1>4, WeakerOK DEF AgendaOK

(* The calls for the sub-nodes, and the end of its own call.                 *)
LEMMA OpOnGroupCalls ==
  ASSUME TypeOK, AgendaOK, OpOnGroup
  PROVE  \E s \in Seq(Frame) :
           /\ agenda' = s \o Tail(agenda)
           /\ \A i \in DOMAIN s : s[i].do = "done" \/ (s[i].do = "op" /\ s[i].op = Head(agenda).op)
<1> DEFINE f       == Head(agenda)
           n       == f.node
           sub(i)  == [do |-> "op", node |-> Kids[n][i], op |-> f.op,
                       rec |-> HasChild(Kids[n][i]), sub |-> TRUE]
           subs    == IF f.rec THEN [i \in DOMAIN Kids[n] |-> sub(i)] ELSE <<>>
           done(c) == [do |-> "done", node |-> n, sub |-> f.sub, changed |-> c]
<1>1. /\ n \in Node /\ f.op \in Op /\ f.sub \in BOOLEAN /\ Tail(agenda) \in Seq(Frame)
  BY BehindOp DEF OpOnGroup
<1>2. PICK c \in BOOLEAN : agenda' = subs \o <<done(c)>> \o Tail(agenda)
  <2>1. want[n] \in BOOLEAN
    BY <1>1 DEF TypeOK
  <2> QED
    BY <2>1 DEF OpOnGroup
<1>4. subs \in Seq(Frame) /\ \A i \in DOMAIN subs : subs[i].do = "op" /\ subs[i].op = f.op
  <2>1. Kids[n] \in Seq(Node) /\ DOMAIN Kids[n] = 1..Len(Kids[n]) /\ Len(Kids[n]) \in Nat
    BY <1>1, NodeAssumption
  <2>2. ASSUME NEW i \in 1..Len(Kids[n])
        PROVE  sub(i) \in Frame /\ sub(i).do = "op" /\ sub(i).op = f.op
    <3>1. Kids[n][i] \in Node /\ HasChild(Kids[n][i]) \in BOOLEAN
      BY <2>1 DEF HasChild
    <3> QED
      BY <1>1, <3>1 DEF Frame
  <2> HIDE DEF sub
  <2> QED
    BY <2>1, <2>2
<1>5. done(c) \in Frame /\ done(c).do = "done"
  BY <1>1 DEF Frame
<1> HIDE DEF subs, done, f
<1>6. subs \o <<done(c)>> \in Seq(Frame)
      /\ \A i \in DOMAIN (subs \o <<done(c)>>) :
           \/ (subs \o <<done(c)>>)[i].do = "op" /\ (subs \o <<done(c)>>)[i].op = f.op
           \/ (subs \o <<done(c)>>)[i].do = "done"
  <2>1. <<done(c)>> \in Seq(Frame) /\ \A i \in DOMAIN <<done(c)>> : <<done(c)>>[i] = done(c)
    BY <1>5
  <2>2. /\ subs \o <<done(c)>> \in Seq(Frame)
        /\ \A i \in DOMAIN (subs \o <<done(c)>>) :
             \/ i \in DOMAIN subs /\ (subs \o <<done(c)>>)[i] = subs[i]
             \/ /\ i - Len(subs) \in DOMAIN <<done(c)>>
                /\ (subs \o <<done(c)>>)[i] = <<done(c)>>[i - Len(subs)]
    BY <1>4, <2>1, ConcatPlaces
  <2> QED
    BY <1>4, <1>5, <2>1, <2>2
<1> QED
  BY <1>1, <1>2, <1>6 DEF f

LEMMA OpOnGroupAgenda == ASSUME TypeOK, AgendaOK, OpOnGroup PROVE AgendaOK'
<1>1. /\ Tail(agenda) \in Seq(Frame) /\ CallsOK(Tail(agenda), Starting, FALSE)
      /\ HasEnd(Tail(agenda)) /\ (Unattended => Head(agenda).op \in {"Skip", "Freeze"})
  BY BehindOp DEF OpOnGroup
<1>2. PICK s \in Seq(Frame) :
        /\ agenda' = s \o Tail(agenda)
        /\ \A i \in DOMAIN s : s[i].do = "done" \/ (s[i].do = "op" /\ s[i].op = Head(agenda).op)
  BY OpOnGroupCalls
<1>3. Starting' = Starting
  BY DEF OpOnGroup, startVars, Starting
<1>4. /\ \A i \in DOMAIN s : s[i].do # "pick"
      /\ MarksOK(s, Starting) /\ (Unattended => OpsOK(s))
  BY <1>1, <1>2 DEF MarksOK, OpsOK
<1>5. CallsOK(s \o Tail(agenda), Starting, Fresh')
  BY <1>1, <1>2, <1>4, FrontOK
<1> QED
  BY <1>2, <1>3, <1>5 DEF AgendaOK

LEMMA OpOnGroupDoneAgenda == ASSUME TypeOK, AgendaOK, OpOnGroupDone PROVE AgendaOK'
<1> DEFINE f    == Head(agenda)
           rest == Changed(f.sub, Tail(agenda))
<1>1. f.node \in Node /\ Tail(agenda) \in Seq(Frame) /\ CallsOK(Tail(agenda), Starting, FALSE)
  <2>1. agenda \in Seq(Frame) /\ Next1("done")
    BY DEF TypeOK, OpOnGroupDone
  <2> QED
    BY <2>1, BehindOK, NextType, FrameType DEF Next1
<1>2. rest \in Seq(Frame) /\ CallsOK(rest, Starting, FALSE)
  BY <1>1, FlagType, FlagsOnly, SameOK
<1>3. /\ Starting' = Starting
      /\ agenda' = Down(f.node) \o Up(f.node) \o rest \/ agenda' = Tail(agenda)
  BY DEF OpOnGroupDone, startVars, Starting
<1> HIDE DEF f, rest
<1>4. CallsOK(Down(f.node) \o Up(f.node) \o rest, Starting, Fresh')
  BY <1>1, <1>2, WalksAreFree, FreeFrontOK
<1>5. CallsOK(Tail(agenda), Starting, Fresh')
  <2>1. Fresh' \in BOOLEAN
    BY DEF Fresh
  <2> QED
    BY <1>1, <2>1, WeakerOK
<1> QED
  BY <1>3, <1>4, <1>5 DEF AgendaOK

LEMMA OpNotAllowedAgenda == ASSUME TypeOK, AgendaOK, OpNotAllowed PROVE AgendaOK'
<1>1. Tail(agenda) \in Seq(Frame) /\ CallsOK(Tail(agenda), Starting, FALSE)
  BY BehindOp DEF OpNotAllowed
<1>2. Starting' = Starting /\ agenda' = Tail(agenda) /\ Fresh' \in BOOLEAN
  BY DEF OpNotAllowed, startVars, Starting, Fresh
<1> QED
  BY <1>1, <1>2, WeakerOK DEF AgendaOK

LEMMA EndOpAgenda == ASSUME TypeOK, AgendaOK, EndOp PROVE AgendaOK'
<1> DEFINE f    == Head(agenda)
           lost == IF Unprovides(f.op) THEN Lost(f.before, f.keep) ELSE {}
           blk  == IF lost = {} THEN <<>> ELSE <<[do |-> "blocked"]>>
           up   == IF f.failed THEN <<>> ELSE Up(f.node)
<1>1. f.node \in Node /\ Tail(agenda) \in Seq(Frame) /\ CallsOK(Tail(agenda), Starting, FALSE)
  <2>1. agenda \in Seq(Frame) /\ Next1("end")
    BY DEF TypeOK, EndOp
  <2> QED
    BY <2>1, BehindOK, NextType, FrameType DEF Next1
<1>2. agenda' = blk \o up \o Tail(agenda) /\ Starting' = Starting
  BY DEF EndOp, startVars, Starting
<1>3. blk \o up \in Seq(Frame) /\ Free(blk \o up)
  <2>1. /\ <<[do |-> "blocked"]>> \in Seq(Frame) /\ Free(<<[do |-> "blocked"]>>)
        /\ <<>> \in Seq(Frame) /\ Free(<<>>)
    BY DEF Frame, Free
  <2>2. blk \in Seq(Frame) /\ up \in Seq(Frame) /\ Free(blk) /\ Free(up)
    <3> HIDE DEF lost, f
    <3> QED
      BY <1>1, <2>1, WalksAreFree
  <2> HIDE DEF blk, up, Frame
  <2> QED
    BY <2>2, ConcatPlaces DEF Free
<1> HIDE DEF blk, up
<1>4. CallsOK(blk \o up \o Tail(agenda), Starting, Fresh')
  BY <1>1, <1>3, FreeFrontOK
<1> QED
  BY <1>2, <1>4 DEF AgendaOK

LEMMA PickAgenda == ASSUME TypeOK, AgendaOK, Pick PROVE AgendaOK'
<1>1. PICK n \in RunNode : StartNode(n) /\ agenda' = Up(n) \o Tail(agenda)
  BY DEF Pick
<1>2. n \in Node /\ Tail(agenda) \in Seq(Frame) /\ CallsOK(Tail(agenda), Starting, FALSE)
  <2>1. Next1("pick")
    BY DEF Pick
  <2> QED
    BY <2>1, BehindOK DEF RunNode, Next1
<1>3. Starting \subseteq Starting'
  BY <1>1 DEF StartNode, Starting, TypeOK
<1>4. CallsOK(Tail(agenda), Starting', FALSE)
  BY <1>2, <1>3, WeakerOK
<1>5. CallsOK(Up(n) \o Tail(agenda), Starting', Fresh')
  BY <1>2, <1>4, WalksAreFree, FreeFrontOK
<1> QED
  BY <1>1, <1>5 DEF AgendaOK

LEMMA CheckEndAgenda == ASSUME TypeOK, AgendaOK, CheckEnd PROVE AgendaOK'
<1> DEFINE settle == [do |-> "settle", before |-> SchedState]
           calls  == <<[do |-> "blocked"], settle>>
<1>1. Tail(agenda) \in Seq(Frame) /\ CallsOK(Tail(agenda), Starting, FALSE)
  <2>1. Next1("pick")
    BY DEF CheckEnd
  <2> QED
    BY <2>1, BehindOK DEF Next1
<1>2. /\ Starting' = Starting /\ Fresh' \in BOOLEAN
      /\ agenda' = Down(Root) \o calls \/ agenda' = Tail(agenda)
  BY DEF CheckEnd, startVars, Starting, Fresh
<1>3. CASE agenda' = Down(Root) \o calls
  <2>1. /\ Down(Root) \in Seq(Node \cup Frame) /\ Free(Down(Root)) /\ Free(calls)
    BY WalksAreFree, NodeAssumption DEF Free
  <2>2. Free(Down(Root) \o calls)
    <3>1. calls \in Seq(Node \cup {[do |-> "blocked"], settle})
      OBVIOUS
    <3> HIDE DEF calls
    <3> QED
      BY <2>1, <3>1 DEF Free
  <2>3. agenda' \in Seq(Frame)
    BY CheckEndType, TypeParts DEF NodeTypeOK
  <2> QED
    BY <1>2, <1>3, <2>2, <2>3, FreeOK DEF AgendaOK
<1>4. CASE agenda' = Tail(agenda)
  BY <1>1, <1>2, <1>4, WeakerOK DEF AgendaOK
<1> QED
  BY <1>2, <1>3, <1>4

LEMMA SettleAgenda == ASSUME TypeOK, AgendaOK, Settle PROVE AgendaOK'
<1>1. Tail(agenda) \in Seq(Frame) /\ CallsOK(Tail(agenda), Starting, FALSE)
  <2>1. Next1("settle")
    BY DEF Settle
  <2> QED
    BY <2>1, BehindOK DEF Next1
<1>2. Starting' = Starting /\ Fresh' \in BOOLEAN /\ agenda' = Tail(agenda)
  BY DEF Settle, startVars, Starting, Fresh
<1> QED
  BY <1>1, <1>2, WeakerOK DEF AgendaOK

(* A cycle updates everything, then what is blocked, and then picks.         *)
LEMMA ScheduleAgenda == ASSUME TypeOK, AgendaOK, Schedule PROVE AgendaOK'
<1> DEFINE calls == <<[do |-> "blocked"], [do |-> "pick"]>>
           u     == Down(Root) \o calls
<1>1. agenda' = u
  BY DEF Schedule
<1>2. Down(Root) \in Seq(Frame) /\ Free(Down(Root)) /\ calls \in Seq(Frame)
  BY WalksAreFree, NodeAssumption, SMTT(30) DEF Frame
<1>3. /\ Len(calls) = 2 /\ DOMAIN calls = {1, 2}
      /\ calls[1].do = "blocked" /\ calls[2].do = "pick"
  OBVIOUS
<1>4. /\ Len(u) = Len(Down(Root)) + 2 /\ Len(Down(Root)) \in Nat
      /\ \A i \in DOMAIN calls : u[Len(Down(Root)) + i] = calls[i]
      /\ \A i \in DOMAIN u :
           \/ i \in DOMAIN Down(Root) /\ u[i] = Down(Root)[i]
           \/ /\ i > Len(Down(Root)) /\ i - Len(Down(Root)) \in DOMAIN calls
              /\ u[i] = calls[i - Len(Down(Root))] /\ i \in Int
  <2> HIDE DEF calls
  <2>1. /\ Len(u) = Len(Down(Root)) + Len(calls) /\ DOMAIN u = 1..(Len(Down(Root)) + Len(calls))
        /\ Len(Down(Root)) \in Nat
        /\ \A i \in DOMAIN calls : u[Len(Down(Root)) + i] = calls[i]
        /\ \A i \in DOMAIN u :
             \/ i \in DOMAIN Down(Root) /\ u[i] = Down(Root)[i]
             \/ /\ i > Len(Down(Root)) /\ i - Len(Down(Root)) \in DOMAIN calls
                /\ u[i] = calls[i - Len(Down(Root))]
    BY <1>2, ConcatPlaces
  <2> QED
    BY <1>3, <2>1
<1> HIDE DEF u, calls
<1>5. MarksOK(u, Starting') /\ EndFollows(u) /\ OpsOK(u)
  BY <1>2, <1>3, <1>4 DEF Free, MarksOK, EndFollows, OpsOK
<1>6. PickIsLast(u, Fresh')
  <2> SUFFICES ASSUME NEW i \in DOMAIN u, u[i].do = "pick"
               PROVE  i = Len(u) /\ i # 1 /\ u[i - 1].do = "blocked"
    BY DEF PickIsLast
  <2>1. i - Len(Down(Root)) = 2 /\ i \in Int
    BY <1>2, <1>3, <1>4 DEF Free
  <2>2. i - 1 = Len(Down(Root)) + 1
    BY <1>4, <2>1
  <2> QED
    BY <1>3, <1>4, <2>1, <2>2
<1> QED
  BY <1>1, <1>5, <1>6 DEF AgendaOK, CallsOK

LEMMA UserOpAgenda ==
  ASSUME TypeOK, AgendaOK, NEW n \in Node, NEW op \in Op, NEW rec \in BOOLEAN,
         NEW keep \in SUBSET (provided \cap MayKeep), UserOp(n, op, rec, keep)
  PROVE  AgendaOK'
<1>1. /\ PerformOp(n, op, rec, keep, <<>>) /\ ~Unattended /\ Starting' = Starting
      /\ Fresh' \in BOOLEAN /\ keep \in SUBSET Resource /\ <<>> \in Seq(Frame)
  BY DEF UserOp, startVars, Starting, Fresh, TypeOK
<1>2. CallsOK(agenda', Starting, Fresh')
  BY <1>1, EmptyOK, PerformOpAgenda
<1> QED
  BY <1>1, <1>2 DEF AgendaOK

LEMMA AgendaNext == ASSUME TypeOK, AgendaOK, [Next]_vars PROVE AgendaOK'
<1>1. CASE Call
  <2>1. CASE OperationStep
    BY <2>1, SiblingAgenda, OpOnRunNodeAgenda, RunByHandAgenda, MarkRunningAgenda,
       RunRefusedAgenda, OpOnGroupAgenda, OpOnGroupDoneAgenda, OpNotAllowedAgenda, EndOpAgenda,
       Zenon DEF OperationStep
  <2> QED
    BY <1>1, <2>1, UpdateStatusAgenda, UpdateBlockedAgenda, PickAgenda, CheckEndAgenda,
       SettleAgenda, Zenon DEF Call
<1>2. CASE (Schedule \/ (MayExit /\ StopScheduler) \/ Unblock) /\ UNCHANGED <<goVars, ops>>
  <2>1. CASE StopScheduler
    BY <2>1, FreshStays DEF StopScheduler, AgendaOK, Starting, nodeVars, startVars
  <2>2. CASE Unblock
    BY <2>2, EmptyOK DEF Unblock, Idle, AgendaOK
  <2> QED
    BY <1>2, <2>1, <2>2, ScheduleAgenda
<1>3. ASSUME NEW n \in RunNode, NEW k \in Start, Connected(n, k) \/ ProcStateChanged(n)
      PROVE  AgendaOK'
  BY <1>3, WalksAreFree, FreeOK DEF Connected, ProcStateChanged, AgendaOK, RunNode
<1>4. ASSUME NEW n \in RunNode, NEW k \in Start,
             \/ Connect(n, k) \/ Exit(n, k)
             \/ TerminalCreated(n, k) \/ TerminalFailed(n, k) \/ CloseClient(n, k)
      PROVE  AgendaOK'
  BY <1>4, FreshStays DEF Connect, Exit, TerminalCreated, TerminalFailed, CloseClient, treeVars,
                          nodeVars, startVars, AgendaOK, Starting
<1>5. ASSUME NEW n \in Node, NEW op \in Op, NEW rec \in BOOLEAN,
             NEW keep \in SUBSET (provided \cap MayKeep), UserOp(n, op, rec, keep)
      PROVE  AgendaOK'
  BY <1>5, UserOpAgenda
<1>6. CASE UNCHANGED vars
  <2>1. UNCHANGED <<starting, provided, lockVars, blocked, agenda>>
    BY <1>6 DEF vars, nodeVars, startVars, lockVars, endVars, goVars
  <2> QED
    BY <2>1, FreshStays DEF AgendaOK, Starting
<1>7. 1 \in Start
  BY BoundAssumption
<1> QED
  BY <1>1, <1>2, <1>3, <1>4, <1>5, <1>6, <1>7, Zenon DEF Next

LEMMA InitAgenda == Init => AgendaOK
BY EmptyOK DEF Init, AgendaOK

-----------------------------------------------------------------------------
(* Whose decision it is.                                                    *)

(* A node with sub-nodes is the parent of one, and only such a node is above  *)
(* another one.                                                              *)
LEMMA AncestorsAreGroups == ASSUME NEW n \in Node PROVE Ancestors(n) \cap RunNode = {}
<1> SUFFICES ASSUME NEW a \in Ancestors(n) PROVE a \in Node /\ Kids[a] # <<>>
  BY NodeAssumption
<1>1. PICK i \in DOMAIN Path[n] : Path[n][i] = a
  BY DEF Ancestors, Above
<1>2. a # n /\ Path[n] \in Seq(Node) /\ Path[n][1] = n
  BY WalkType DEF Ancestors
<1>3. i \in 2..Len(Path[n]) /\ a \in Node
  BY <1>1, <1>2
<1>4. i - 1 \in DOMAIN Path[n] /\ Path[n][i - 1] \in Node
  BY <1>2, <1>3
<1>5. a = Parent[Path[n][i - 1]]
  BY <1>1, <1>3, WalkAssumption
<1>6. Path[n][i - 1] \in Children(a)
  <2>1. a # None
    BY <1>3, NodeAssumption
  <2> QED
    BY <1>3, <1>4, <1>5, <2>1 DEF Parent
<1> QED
  BY <1>3, <1>6 DEF Children

(* The first call of a walk up is the update of the node itself.             *)
AtHead(n) == agenda # <<>> /\ Head(agenda) = Stat(n)

LEMMA UpIsFirst ==
  ASSUME NEW n \in Node, NEW rest \in Seq(Frame), agenda' = Up(n) \o rest \/ agenda' = Up(n)
  PROVE  AtHead(n)'
<1>1. Up(n) \in Seq(Frame) /\ Len(Up(n)) >= 1 /\ Up(n)[1] = Stat(n)
  <2>1. /\ Path[n] \in Seq(Node) /\ 1 \in DOMAIN Path[n] /\ Path[n][1] = n
        /\ DOMAIN Path[n] = 1..Len(Path[n]) /\ Len(Path[n]) >= 1 /\ Len(Path[n]) \in Nat
    BY WalkType
  <2>2. DOMAIN Up(n) = DOMAIN Path[n] /\ Up(n)[1] = Stat(n)
    BY <2>1 DEF Up
  <2>3. Up(n) \in Seq(Frame)
    BY UpDownType
  <2>4. Len(Up(n)) = Len(Path[n])
    <3> HIDE DEF Frame
    <3> QED
      BY <2>1, <2>2, <2>3
  <2> QED
    BY <2>1, <2>2, <2>3, <2>4
<1>2. agenda' \in Seq(Frame) /\ agenda' # <<>> /\ agenda'[1] = Stat(n)
  <2> HIDE DEF Frame
  <2>1. 1 \in DOMAIN Up(n)
    BY <1>1
  <2>2. /\ Up(n) \o rest \in Seq(Frame) /\ 1 \in DOMAIN (Up(n) \o rest)
        /\ (Up(n) \o rest)[1] = Stat(n)
    BY <1>1, <2>1, ConcatPlaces
  <2>3. ASSUME NEW s \in Seq(Frame), 1 \in DOMAIN s PROVE s # <<>>
    BY <2>3
  <2>4. CASE agenda' = Up(n) \o rest
    BY <2>2, <2>3, <2>4
  <2>5. CASE agenda' = Up(n)
    BY <1>1, <2>1, <2>3, <2>5
  <2> QED
    BY <2>4, <2>5
<1> QED
  BY <1>2 DEF AtHead, Stat

(* So is that of a walk down from a run node.                                *)
LEMMA DownIsFirst ==
  ASSUME NEW n \in RunNode, NEW rest \in Seq(Frame), agenda' = Down(n) \o Up(n) \o rest
  PROVE  AtHead(n)'
<1>1. n \in Node /\ Down(n) = <<Stat(n)>>
  <2>1. n \in Node /\ Kids[n] = <<>>
    BY NodeAssumption DEF RunNode
  <2>2. PostOrder[n] = <<n>>
    BY <2>1, WalkAssumption
  <2>3. DOMAIN <<n>> = {1} /\ <<n>>[1] = n
    OBVIOUS
  <2>4. Down(n) = [i \in {1} |-> Stat(n)]
    BY <2>2, <2>3 DEF Down
  <2>5. <<Stat(n)>> = [i \in {1} |-> Stat(n)]
    OBVIOUS
  <2> QED
    BY <2>1, <2>4, <2>5
<1>2. Down(n) \in Seq(Frame) /\ Up(n) \in Seq(Frame)
  BY <1>1, UpDownType
<1>3. agenda' \in Seq(Frame) /\ agenda' # <<>> /\ agenda'[1] = Stat(n)
  <2>1. Len(Down(n)) = 1 /\ Down(n)[1] = Stat(n) /\ 1 \in DOMAIN Down(n)
    BY <1>1
  <2> HIDE DEF Frame
  <2>2. Down(n) \o Up(n) \in Seq(Frame) /\ (Down(n) \o Up(n))[1] = Stat(n)
        /\ 1 \in DOMAIN (Down(n) \o Up(n))
    BY <1>2, <2>1, ConcatPlaces
  <2> QED
    BY <2>2, ConcatPlaces
<1> QED
  BY <1>3 DEF AtHead, Stat

-----------------------------------------------------------------------------
(* The kinds of steps, seen from the run nodes.                             *)

NoneAtHead == \A n \in RunNode : ~AtHead(n)
goKept     == <<notify, terms, closing>>

(* Nothing of a run node changes, but a timeout may be noticed.              *)
QuietStep ==
  /\ NoneAtHead
  /\ UNCHANGED <<status, nproc, starting, startErr, starts, client, proc, conns, goKept>>
  /\ \A n \in RunNode :
       /\ want'[n] = want[n] /\ manual'[n] = manual[n]
       /\ timedOut'[n] # timedOut[n] => status[n] = "Running"

UpdateStep(n) ==
  /\ AtHead(n)
  /\ SetStatus(n, CalcStatus(n).st)
  /\ UNCHANGED <<conns, goKept>>

(* A start, by the scheduler (which looks at the order, at the limits and at   *)
(* what is required) or by hand.                                             *)
BeginStep(n) ==
  /\ NoneAtHead /\ ~Active(status[n])
  /\ Unattended => /\ Next1("pick") /\ n \in Runnable
                   /\ \A a \in Above(n) : ~AtMaxProc(a) /\ Requires[a] \subseteq provided
  /\ StartNode(n)
  /\ conns' = conns \cup Started
  /\ AtHead(n)'
  /\ UNCHANGED <<status, nproc, manual, goKept>>

(* A run node gets a manual status by an operation ...                       *)
DecideStep(n, s) ==
  /\ NoneAtHead /\ ~Active(status[n])
  /\ want' = [want EXCEPT ![n] = TRUE] /\ manual' = [manual EXCEPT ![n] = s]
  /\ s \in Status \ {"Running", "Paused"}
  /\ Unattended => s \in {"Skipped", "Frozen"} /\ status[n] \in {"Waiting", "Frozen"}
  /\ AtHead(n)'
  /\ \A m \in RunNode : startErr'[m] # startErr[m] => m = n /\ startErr[n]
  /\ UNCHANGED <<status, nproc, starting, timedOut, starts, client, proc, conns, goKept>>

(* ... or because it was started.                                            *)
MarkStep(n) ==
  /\ NoneAtHead /\ starting[n]
  /\ want' = [want EXCEPT ![n] = TRUE] /\ manual' = [manual EXCEPT ![n] = "Running"]
  /\ AtHead(n)'
  /\ UNCHANGED <<status, nproc, startVars, proc, conns, goKept>>

GoStep(n, k) ==
  \/ Connect(n, k) \/ Exit(n, k) \/ Connected(n, k)
  \/ TerminalCreated(n, k) \/ TerminalFailed(n, k) \/ CloseClient(n, k)

StepKind ==
  \/ QuietStep
  \/ \E n \in Node : UpdateStep(n)
  \/ \E n \in RunNode : BeginStep(n) \/ MarkStep(n) \/ \E s \in Status : DecideStep(n, s)
  \/ \E n \in RunNode : ProcStateChanged(n) \/ \E k \in Start : GoStep(n, k)

LEMMA NotAtHead == ASSUME NEW d, Next1(d), d # "status" PROVE NoneAtHead
BY DEF Next1, NoneAtHead, AtHead, Stat

LEMMA IdleNotAtHead == Idle => NoneAtHead
BY DEF Idle, NoneAtHead, AtHead

LEMMA NoneStarted == ASSUME UNCHANGED proc, conns' = conns \cup Started PROVE conns' = conns
BY DEF Started

LEMMA PerformOpQuiet ==
  ASSUME TypeOK, NEW n \in Node, NEW op, NEW rec, NEW keep, NEW rest,
         PerformOp(n, op, rec, keep, rest)
  PROVE  /\ UNCHANGED <<status, nproc, manual>>
         /\ \A m \in RunNode : want'[m] = want[m]
<1>1. CASE op \in AllowedOps(n, rec)
  <2>1. /\ UNCHANGED <<status, nproc, manual>>
        /\ want' = [m \in Node |-> want[m] /\ m \notin Ancestors(n)]
    BY <1>1 DEF PerformOp
  <2>2. want \in [Node -> BOOLEAN] /\ RunNode \subseteq Node
    BY DEF TypeOK, RunNode
  <2> QED
    BY <2>1, <2>2, AncestorsAreGroups
<1>2. CASE op \notin AllowedOps(n, rec)
  BY <1>2 DEF PerformOp, nodeVars
<1> QED
  BY <1>1, <1>2

LEMMA QuietCalls ==
  ASSUME TypeOK, UNCHANGED goKept, conns' = conns \cup Started,
         \/ UpdateBlocked \/ Sibling \/ RunRefused \/ OpOnGroup \/ OpOnGroupDone
         \/ OpNotAllowed \/ EndOp \/ CheckEnd \/ Settle
  PROVE  QuietStep
<1> USE DEF nodeVars, startVars
<1>1. CASE UpdateBlocked \/ RunRefused \/ OpOnGroupDone \/ OpNotAllowed \/ CheckEnd \/ Settle
  <2>1. UNCHANGED <<nodeVars, startVars, proc>>
    BY <1>1 DEF UpdateBlocked, RunRefused, OpOnGroupDone, OpNotAllowed, CheckEnd, Settle
  <2>2. NoneAtHead
    BY <1>1, NotAtHead
       DEF UpdateBlocked, RunRefused, OpOnGroupDone, OpNotAllowed, CheckEnd, Settle
  <2> QED
    BY <2>1, <2>2, NoneStarted DEF QuietStep
<1>2. CASE EndOp
  BY <1>2, NotAtHead, NoneStarted DEF EndOp, QuietStep
<1>3. CASE Sibling
  <2>1. Head(agenda).node \in Node /\ NoneAtHead
    BY <1>3, NotAtHead, NextType, FrameType DEF Sibling, TypeOK
  <2>2. UNCHANGED <<status, nproc, manual>> /\ \A m \in RunNode : want'[m] = want[m]
    BY <1>3, <2>1, PerformOpQuiet DEF Sibling
  <2>3. UNCHANGED <<startVars, proc>>
    BY <1>3 DEF Sibling
  <2> QED
    BY <2>1, <2>2, <2>3, NoneStarted DEF QuietStep
<1>4. CASE OpOnGroup
  <2>1. Kind[Head(agenda).node] # "run" /\ NoneAtHead
    BY <1>4, NotAtHead DEF OpOnGroup
  <2>2. /\ \E b : want' = [want EXCEPT ![Head(agenda).node] = b]
        /\ \E b : manual' = [manual EXCEPT ![Head(agenda).node] = b]
        /\ UNCHANGED <<status, nproc, startVars, proc>>
    BY <1>4 DEF OpOnGroup
  <2>3. \A m \in RunNode : want'[m] = want[m] /\ manual'[m] = manual[m]
    BY <2>1, <2>2 DEF TypeOK, RunNode
  <2> QED
    BY <2>1, <2>2, <2>3, NoneStarted DEF QuietStep
<1> QED
  BY <1>1, <1>2, <1>3, <1>4

LEMMA UpdateKind ==
  ASSUME TypeOK, UpdateStatus, UNCHANGED goKept, conns' = conns \cup Started
  PROVE  \E n \in Node : UpdateStep(n)
<1> DEFINE n == Head(agenda).node
<1>1. Head(agenda) \in Frame /\ Head(agenda).do = "status" /\ agenda # <<>> /\ n \in Node
  BY NextType, FrameType DEF UpdateStatus, TypeOK, Next1
<1>2. AtHead(n)
  BY <1>1 DEF Frame, AtHead, Stat
<1>3. SetStatus(n, CalcStatus(n).st) /\ UNCHANGED proc
  BY DEF UpdateStatus, SetStatus
<1> HIDE DEF n
<1> QED
  BY <1>1, <1>2, <1>3, NoneStarted DEF UpdateStep

LEMMA DecideKind ==
  ASSUME TypeOK, AgendaOK, OpOnRunNode, UNCHANGED goKept, conns' = conns \cup Started
  PROVE  \E n \in RunNode, s \in Status : DecideStep(n, s)
<1> DEFINE f == Head(agenda)
           s == ManualStatus(f.op)
<1>0. f.node \in RunNode /\ Tail(agenda) \in Seq(Frame)
  BY BehindOp DEF OpOnRunNode, RunNode
<1>9. PICK n \in RunNode : n = f.node
  BY <1>0
<1>1. /\ Next1("op") /\ n \in RunNode /\ f.op \in Op \ {"Run"} /\ f.op \in AllowedOps(n, f.rec)
      /\ Unattended => f.op \in {"Skip", "Freeze"}
  BY <1>9, BehindOp DEF OpOnRunNode, RunNode
<1>2. ~Active(status[n]) /\ (f.op \in {"Skip", "Freeze"} => status[n] \in {"Waiting", "Frozen"})
  <2>1. ~HasChild(n)
    BY <1>1, NodeAssumption DEF HasChild, RunNode
  <2> HIDE DEF f
  <2> QED
    BY <1>1, <2>1 DEF AllowedOps, Active, Finished, MayRun
<1>3. /\ s \in Status \ {"Running", "Paused"}
      /\ Unattended => s \in {"Skipped", "Frozen"} /\ status[n] \in {"Waiting", "Frozen"}
  BY <1>1, <1>2 DEF ManualStatus, Op, Status
<1>4. /\ want' = [want EXCEPT ![n] = TRUE] /\ manual' = [manual EXCEPT ![n] = s]
      /\ startErr' = [startErr EXCEPT ![n] = @ /\ f.op # "Reset"]
      /\ UNCHANGED <<status, nproc, starting, timedOut, starts, client, proc>>
      /\ agenda' = Down(n) \o Up(n) \o Changed(f.sub, Tail(agenda))
  BY <1>9 DEF OpOnRunNode
<1>5. NoneAtHead
  BY <1>1, NotAtHead
<1>7. AtHead(n)'
  <2>1. PICK rest \in Seq(Frame) : agenda' = Down(n) \o Up(n) \o rest
    BY <1>0, <1>4, FlagType
  <2> QED
    BY <2>1, DownIsFirst
<1> HIDE DEF s, f
<1>6. \A m \in RunNode : startErr'[m] # startErr[m] => m = n /\ startErr[n]
  BY <1>1, <1>4 DEF TypeOK, RunNode
<1> QED
  BY <1>1, <1>2, <1>3, <1>4, <1>5, <1>6, <1>7, NoneStarted DEF DecideStep

LEMMA MarkKind ==
  ASSUME TypeOK, AgendaOK, MarkRunning, UNCHANGED goKept, conns' = conns \cup Started
  PROVE  \E n \in RunNode : MarkStep(n)
<1>1. Next1("mark") /\ agenda \in Seq(Frame) /\ 1 \in DOMAIN agenda /\ Head(agenda) = agenda[1]
  BY DEF MarkRunning, Next1, TypeOK
<1>2. Head(agenda).node \in Starting
  BY <1>1 DEF AgendaOK, CallsOK, MarksOK, Next1
<1>3. PICK n \in RunNode : n = Head(agenda).node
  BY <1>2 DEF Starting
<1>4. starting[n] /\ NoneAtHead
  BY <1>1, <1>2, <1>3, NotAtHead DEF Starting
<1>5. /\ want' = [want EXCEPT ![n] = TRUE] /\ manual' = [manual EXCEPT ![n] = "Running"]
      /\ UNCHANGED <<status, nproc, startVars, proc>>
      /\ agenda' = Down(n) \o Up(n) \o Tail(agenda) /\ Tail(agenda) \in Seq(Frame)
  BY <1>1, <1>3 DEF MarkRunning, Next1
<1>6. AtHead(n)'
  BY <1>5, DownIsFirst
<1> QED
  BY <1>4, <1>5, <1>6, NoneStarted DEF MarkStep

LEMMA ThreeParts ==
  ASSUME NEW s \in Seq(Frame), NEW t \in Seq(Frame), NEW u \in Seq(Frame)
  PROVE  (s \o t) \o u = s \o (t \o u)
BY ConcatAssociative

(* The pick of a cycle: nothing else is to be done, and blocked is fresh.     *)
LEMMA PickIsAlone == ASSUME TypeOK, AgendaOK, Next1("pick") PROVE Fresh /\ Tail(agenda) = <<>>
<1>1. agenda \in Seq(Frame) /\ 1 \in DOMAIN agenda /\ agenda[1].do = "pick"
  BY DEF TypeOK, Next1
<1>2. 1 = Len(agenda) /\ Fresh
  BY <1>1 DEF AgendaOK, CallsOK, PickIsLast
<1>3. Tail(agenda) \in Seq(Frame) /\ Len(Tail(agenda)) = 0
  BY <1>1, <1>2
<1> QED
  BY <1>2, <1>3, EmptySeq

LEMMA BeginKind ==
  ASSUME TypeOK, AgendaOK, RunByHand \/ Pick, UNCHANGED goKept, conns' = conns \cup Started
  PROVE  \E n \in RunNode : BeginStep(n)
<1>1. CASE RunByHand
  <2>0. Next1("op") /\ Head(agenda).node \in Node /\ Tail(agenda) \in Seq(Frame)
    BY <1>1, BehindOp DEF RunByHand
  <2>1. PICK n \in Node : n = Head(agenda).node
    BY <2>0
  <2> DEFINE mark == <<[do |-> "mark", node |-> n]>>
  <2>2. Kind[n] = "run" /\ ~Active(status[n])
    BY <1>1, <2>1, NodeAssumption DEF RunByHand, AllowedOps, MayRun, HasChild, RunNode
  <2>3. /\ StartNode(n) /\ agenda' = Up(n) \o mark \o Tail(agenda)
        /\ UNCHANGED <<status, nproc, manual>> /\ NoneAtHead
    BY <1>1, <2>0, <2>1, NotAtHead DEF RunByHand
  <2>4. mark \in Seq(Frame) /\ mark \o Tail(agenda) \in Seq(Frame) /\ Up(n) \in Seq(Frame)
    <3>1. mark \in Seq(Frame)
      BY <2>1 DEF Frame
    <3> HIDE DEF mark
    <3> QED
      BY <2>0, <3>1, UpDownType, ConcatProperties
  <2> HIDE DEF mark
  <2>5. agenda' = Up(n) \o (mark \o Tail(agenda))
    BY <2>0, <2>3, <2>4, ThreeParts, Zenon
  <2>6. AtHead(n)'
    BY <2>1, <2>4, <2>5, UpIsFirst
  <2>7. ~Unattended
    BY <1>1, BehindOp DEF RunByHand
  <2> QED
    BY <2>1, <2>2, <2>3, <2>6, <2>7 DEF BeginStep, RunNode
<1>2. CASE Pick
  <2>1. PICK n \in RunNode : IsFirstRunnable(n) /\ StartNode(n) /\ agenda' = Up(n) \o Tail(agenda)
    BY <1>2 DEF Pick
  <2>2. ~Active(status[n])
    BY <2>1 DEF IsFirstRunnable, Runnable, Active
  <2>3. n \in Node /\ Next1("pick") /\ Tail(agenda) \in Seq(Frame)
    BY <1>2, BehindOK DEF Pick, RunNode, Next1
  <2>4. AtHead(n)' /\ NoneAtHead
    BY <2>1, <2>3, UpIsFirst, NotAtHead
  <2>5. Fresh
    BY <2>3, PickIsAlone
  <2>6. \A a \in Above(n) : a \in Node /\ a \notin blocked /\ ~AtMaxProc(a)
    <3>1. Above(n) \subseteq Node
      BY <2>3, WalkType DEF Above
    <3> QED
      BY <2>1, <3>1 DEF IsFirstRunnable, Runnable, Reaches, Holds
  <2> QED
    BY <1>2, <2>1, <2>2, <2>3, <2>4, <2>5, <2>6
       DEF BeginStep, Pick, Fresh, IsBlocked, MissingRequired, IsFirstRunnable
<1> QED
  BY <1>1, <1>2

LEMMA StepKinds == ASSUME TypeOK, AgendaOK, [Next]_vars PROVE StepKind \/ UNCHANGED vars
<1>1. CASE Call
  <2>1. UNCHANGED goKept /\ conns' = conns \cup Started
    BY <1>1 DEF Call, goKept
  <2>2. \/ UpdateStatus \/ OpOnRunNode \/ MarkRunning \/ RunByHand \/ Pick
        \/ UpdateBlocked \/ Sibling \/ RunRefused \/ OpOnGroup \/ OpOnGroupDone
        \/ OpNotAllowed \/ EndOp \/ CheckEnd \/ Settle
    BY <1>1, Zenon DEF Call, OperationStep
  <2> QED
    BY <2>1, <2>2, QuietCalls, UpdateKind, DecideKind, MarkKind, BeginKind DEF StepKind
<1>2. CASE (Schedule \/ (MayExit /\ StopScheduler) \/ Unblock) /\ UNCHANGED <<goVars, ops>>
  <2>1. CASE Schedule
    <3>1. PICK T \in SUBSET {n \in RunNode : CanTimeOut(n)} :
            timedOut' = [n \in Node |-> timedOut[n] \/ n \in T]
      BY <2>1 DEF Schedule
    <3>2. \A n \in RunNode : timedOut'[n] # timedOut[n] => status[n] = "Running"
      BY <3>1 DEF CanTimeOut, TypeOK, RunNode
    <3> QED
      BY <1>2, <2>1, <3>2, IdleNotAtHead DEF Schedule, StepKind, QuietStep, nodeVars, goVars, goKept
  <2>2. CASE StopScheduler \/ Unblock
    BY <1>2, <2>2, IdleNotAtHead
       DEF StopScheduler, Unblock, StepKind, QuietStep, nodeVars, startVars, goVars, goKept
  <2> QED
    BY <1>2, <2>1, <2>2
<1>3. ASSUME NEW n \in RunNode,
             ProcStateChanged(n) \/ \E k \in Start : GoStep(n, k)
      PROVE  StepKind
  BY <1>3 DEF StepKind
<1>4. ASSUME NEW n \in Node, NEW op \in Op, NEW rec \in BOOLEAN,
             NEW keep \in SUBSET (provided \cap MayKeep), UserOp(n, op, rec, keep)
      PROVE  StepKind
  <2>1. PerformOp(n, op, rec, keep, <<>>) /\ Idle /\ UNCHANGED <<startVars, proc, goVars>>
    BY <1>4 DEF UserOp
  <2>2. UNCHANGED <<status, nproc, manual>> /\ \A m \in RunNode : want'[m] = want[m]
    BY <2>1, PerformOpQuiet
  <2> QED
    BY <2>1, <2>2, IdleNotAtHead DEF StepKind, QuietStep, startVars, goVars, goKept
<1> QED
  BY <1>1, <1>2, <1>3, <1>4, Zenon DEF Next, GoStep

-----------------------------------------------------------------------------
(* Starts, manual statuses and processes.                                   *)

(* A node that starts is running, or is about to be updated.                 *)
StartShows(n) == starting[n] => status[n] = "Running" \/ (AtHead(n) /\ ~want[n])

(* Nothing but the start itself is decided about a node that starts or runs.  *)
ManualOK(n) ==
  want[n] => IF manual[n] = "Running"
             THEN starting[n] /\ status[n] = "Running" /\ AtHead(n)
             ELSE manual[n] # "Paused" /\ ~starting[n] /\ status[n] # "Running"

(* The connect goroutine of the last start is the only one, and the client,   *)
(* once it is there, is of the last start and has had a process.             *)
ProcsOK(n) ==
  /\ \A k \in Start :
       /\ starts[n] < k => proc[n][k] = "none"
       /\ proc[n][k] = "connecting" => <<n, k>> \in conns
       /\ <<n, k>> \in conns => starting[n] /\ k = starts[n] /\ proc[n][k] # "none"
  /\ client[n] # 0 => client[n] = starts[n] /\ ~starting[n] /\ LastState(n) \in {"alive", "ok", "err"}

RunOK == \A n \in RunNode : StartShows(n) /\ ManualOK(n) /\ ProcsOK(n)

(* What calcStatus makes of a run node.                                      *)
LEMMA UpdateOfRunNode ==
  ASSUME TypeOK, NEW m \in Node, UpdateStep(m), NEW n \in RunNode
  PROVE  /\ UNCHANGED <<manual, startVars, proc, conns, goKept>> /\ AtHead(m)
         /\ n # m => status'[n] = status[n] /\ want'[n] = want[n] /\ ~AtHead(n)
         /\ n = m => /\ status'[n] = CalcRunStatus(n).st
                     /\ want'[n] = (want[n] /\ status'[n] \in {"Success", "Failed", "Waiting"})
<1>1. n # m => ~AtHead(n)
  BY DEF UpdateStep, AtHead, Stat
<1>2. CalcStatus(n) = CalcRunStatus(n)
  BY DEF CalcStatus, RunNode
<1> QED
  BY <1>1, <1>2 DEF UpdateStep, SetStatus, TypeOK, RunNode

LEMMA UpdateRunOK == ASSUME TypeOK, RunOK, NEW m \in Node, UpdateStep(m) PROVE RunOK'
<1> SUFFICES ASSUME NEW n \in RunNode PROVE (StartShows(n) /\ ManualOK(n) /\ ProcsOK(n))'
  BY DEF RunOK
<1>1. StartShows(n) /\ ManualOK(n) /\ ProcsOK(n)
  BY DEF RunOK
<1>2. /\ UNCHANGED <<manual, startVars, proc, conns>>
      /\ n # m => status'[n] = status[n] /\ want'[n] = want[n] /\ ~AtHead(n)
      /\ n = m => /\ status'[n] = CalcRunStatus(n).st
                  /\ want'[n] = (want[n] /\ status'[n] \in {"Success", "Failed", "Waiting"})
  BY UpdateOfRunNode
<1>3. want[n] => CalcRunStatus(n).st = manual[n]
  BY DEF CalcRunStatus, Plain
<1>4. ~want[n] /\ starting[n] => CalcRunStatus(n).st = "Running"
  BY DEF CalcRunStatus, Plain
<1>5. StartShows(n)' /\ ManualOK(n)'
  BY <1>1, <1>2, <1>3, <1>4 DEF StartShows, ManualOK, startVars
<1>6. ProcsOK(n)'
  BY <1>1, <1>2 DEF ProcsOK, LastState, startVars
<1> QED
  BY <1>5, <1>6

(* A node is only started when no start of it is under way.                  *)
LEMMA BeginFacts ==
  ASSUME TypeOK, RunOK, NEW m \in RunNode, BeginStep(m)
  PROVE  /\ ~starting[m] /\ starts[m] + 1 \in Start /\ starts[m] \in Nat
         /\ \A k \in Start : proc[m][k] # "connecting" /\ <<m, k>> \notin conns
         /\ proc' = [proc EXCEPT ![m][starts[m] + 1] = "connecting"]
         /\ conns' = conns \cup {<<m, starts[m] + 1>>}
         /\ \A n \in RunNode : n # m =>
              /\ status'[n] = status[n] /\ want'[n] = want[n] /\ manual'[n] = manual[n]
              /\ starting'[n] = starting[n] /\ startErr'[n] = startErr[n]
              /\ timedOut'[n] = timedOut[n] /\ starts'[n] = starts[n] /\ client'[n] = client[n]
              /\ proc'[n] = proc[n] /\ ~AtHead(n)
         /\ status'[m] = status[m] /\ ~want'[m] /\ starting'[m] /\ ~startErr'[m]
         /\ ~timedOut'[m] /\ starts'[m] = starts[m] + 1 /\ client'[m] = 0 /\ AtHead(m)'
<1>1. StartShows(m) /\ ProcsOK(m) /\ m \in Node
  BY DEF RunOK, RunNode
<1>2. ~starting[m]
  BY <1>1 DEF BeginStep, StartShows, NoneAtHead, Active
<1>3. starts[m] + 1 \in Start /\ starts[m] \in Nat /\ starts[m] < starts[m] + 1
  <2>1. starts[m] \in 0..MaxStarts /\ starts[m] < MaxStarts /\ MaxStarts \in Nat
    BY <1>1, BoundAssumption DEF BeginStep, StartNode, TypeOK
  <2>2. ASSUME NEW s \in 0..MaxStarts, s < MaxStarts, MaxStarts \in Nat
        PROVE  s + 1 \in Start /\ s \in Nat /\ s < s + 1
    BY <2>2
  <2> QED
    BY <2>1, <2>2, Zenon
<1>4. \A k \in Start : proc[m][k] # "connecting" /\ <<m, k>> \notin conns
  BY <1>1, <1>2 DEF ProcsOK
<1>5. StartNode(m) /\ RunNode \subseteq Node
  BY DEF BeginStep, RunNode
<1>6. \A n \in RunNode, k \in Start :
        proc'[n][k] = IF n = m /\ k = starts[m] + 1 THEN "connecting" ELSE proc[n][k]
  BY <1>3, <1>5 DEF StartNode, TypeOK
<1>7. conns' = conns \cup {<<m, starts[m] + 1>>}
  <2>1. proc[m][starts[m] + 1] = "none"
    <3>1. PICK k \in Start : k = starts[m] + 1
      BY <1>3
    <3>2. starts[m] < k
      BY <1>3, <3>1
    <3>3. proc[m][k] = "none"
      BY <1>1, <3>2 DEF ProcsOK
    <3> QED
      BY <3>1, <3>3
  <2>2. Started = {<<m, starts[m] + 1>>}
    BY <1>3, <1>6, <2>1 DEF Started
  <2> QED
    BY <2>2 DEF BeginStep
<1>8. \A n \in RunNode : n # m =>
              /\ status'[n] = status[n] /\ want'[n] = want[n] /\ manual'[n] = manual[n]
              /\ starting'[n] = starting[n] /\ startErr'[n] = startErr[n]
              /\ timedOut'[n] = timedOut[n] /\ starts'[n] = starts[n] /\ client'[n] = client[n]
              /\ proc'[n] = proc[n] /\ ~AtHead(n)
  BY <1>5 DEF StartNode, BeginStep, NoneAtHead, TypeOK
<1>9. /\ status'[m] = status[m] /\ ~want'[m] /\ starting'[m] /\ ~startErr'[m]
      /\ ~timedOut'[m] /\ starts'[m] = starts[m] + 1 /\ client'[m] = 0 /\ AtHead(m)'
  BY <1>1, <1>5 DEF StartNode, BeginStep, TypeOK
<1> QED
  BY <1>2, <1>3, <1>4, <1>5, <1>7, <1>8, <1>9 DEF StartNode

LEMMA BeginRunOK == ASSUME TypeOK, RunOK, NEW m \in RunNode, BeginStep(m) PROVE RunOK'
<1> SUFFICES ASSUME NEW n \in RunNode PROVE (StartShows(n) /\ ManualOK(n) /\ ProcsOK(n))'
  BY DEF RunOK
<1>1. StartShows(n) /\ ManualOK(n) /\ ProcsOK(n) /\ n \in Node
  BY DEF RunOK, RunNode
<1>2. CASE n # m
  <2>1. /\ status'[n] = status[n] /\ want'[n] = want[n] /\ manual'[n] = manual[n]
        /\ starting'[n] = starting[n] /\ starts'[n] = starts[n] /\ client'[n] = client[n]
        /\ proc'[n] = proc[n] /\ ~AtHead(n)
        /\ \A k \in Start : <<n, k>> \in conns' <=> <<n, k>> \in conns
    BY <1>2, BeginFacts
  <2>2. StartShows(n)' /\ ManualOK(n)'
    BY <1>1, <2>1 DEF StartShows, ManualOK
  <2>3. ProcsOK(n)'
    BY <1>1, <2>1 DEF ProcsOK, LastState
  <2> QED
    BY <2>2, <2>3
<1>3. CASE n = m
  <2>1. /\ ~want'[n] /\ starting'[n] /\ starts'[n] = starts[n] + 1 /\ client'[n] = 0 /\ AtHead(n)'
        /\ starts[n] + 1 \in Start /\ starts[n] \in Nat
        /\ \A k \in Start : proc[n][k] # "connecting" /\ <<n, k>> \notin conns
        /\ proc' = [proc EXCEPT ![n][starts[n] + 1] = "connecting"]
        /\ conns' = conns \cup {<<n, starts[n] + 1>>}
    BY <1>3, BeginFacts
  <2>2. StartShows(n)' /\ ManualOK(n)'
    BY <2>1 DEF StartShows, ManualOK
  <2>3. ASSUME NEW k \in Start
        PROVE  proc'[n][k] = IF k = starts[n] + 1 THEN "connecting" ELSE proc[n][k]
    BY <1>1, <2>1 DEF TypeOK
  <2>4. ProcsOK(n)'
    BY <1>1, <2>1, <2>3, BoundAssumption DEF ProcsOK
  <2> QED
    BY <2>2, <2>4
<1> QED
  BY <1>2, <1>3

(* One node of a process changes its state, and nothing else.                *)
ProcStep(n, k, s) ==
  /\ proc' = [proc EXCEPT ![n][k] = s]
  /\ UNCHANGED <<treeVars, conns>>

LEMMA ProcRunOK ==
  ASSUME TypeOK, RunOK, NEW m \in RunNode, NEW j \in Start, NEW s, ProcStep(m, j, s),
         \/ proc[m][j] = "connecting" /\ s \in {"refused", "alive"}
         \/ proc[m][j] = "alive" /\ s \in {"ok", "err"}
  PROVE  RunOK'
<1> SUFFICES ASSUME NEW n \in RunNode PROVE (StartShows(n) /\ ManualOK(n) /\ ProcsOK(n))'
  BY DEF RunOK
<1>1. StartShows(n) /\ ManualOK(n) /\ ProcsOK(n) /\ n \in Node
  BY DEF RunOK, RunNode
<1>2. UNCHANGED <<status, want, manual, starting, starts, client, agenda, conns>>
  BY DEF ProcStep, treeVars, nodeVars, startVars
<1>3. StartShows(n)' /\ ManualOK(n)'
  BY <1>1, <1>2 DEF StartShows, ManualOK, AtHead
<1>4. \A k \in Start : proc'[n][k] = IF n = m /\ k = j THEN s ELSE proc[n][k]
  BY <1>1 DEF ProcStep, TypeOK
<1>5. client[n] # 0 => client[n] \in Start
  BY <1>1, BoundAssumption DEF TypeOK
<1>6. ProcsOK(n)'
  <2>1. ASSUME NEW k \in Start
        PROVE  /\ starts[n] < k => proc'[n][k] = "none"
               /\ proc'[n][k] = "connecting" => <<n, k>> \in conns
               /\ <<n, k>> \in conns => starting[n] /\ k = starts[n] /\ proc'[n][k] # "none"
    BY <1>1, <1>4 DEF ProcsOK
  <2>2. client[n] # 0 => LastState(n)' \in {"alive", "ok", "err"}
    <3>1. client[n] # 0 => LastState(n)' = IF n = m /\ client[n] = j THEN s ELSE LastState(n)
      BY <1>2, <1>4, <1>5 DEF LastState
    <3>2. client[n] # 0 => LastState(n) \in {"alive", "ok", "err"}
      BY <1>1 DEF ProcsOK
    <3> QED
      BY <3>1, <3>2 DEF LastState
  <2> QED
    BY <1>1, <1>2, <2>1, <2>2 DEF ProcsOK
<1> QED
  BY <1>3, <1>6

LEMMA ConnectedRunOK ==
  ASSUME TypeOK, RunOK, NEW m \in RunNode, NEW j \in Start, Connected(m, j) PROVE RunOK'
<1> SUFFICES ASSUME NEW n \in RunNode PROVE (StartShows(n) /\ ManualOK(n) /\ ProcsOK(n))'
  BY DEF RunOK
<1>1. StartShows(n) /\ ManualOK(n) /\ ProcsOK(n) /\ n \in Node /\ m \in Node
  BY DEF RunOK, RunNode
<1>2. /\ UNCHANGED <<status, want, manual, starts, proc>> /\ ~AtHead(n)
      /\ <<m, j>> \in conns /\ conns' = conns \ {<<m, j>>}
      /\ starting' = [starting EXCEPT ![m] = FALSE] /\ proc[m][j] # "connecting"
      /\ client' = IF proc[m][j] = "refused" THEN client ELSE [client EXCEPT ![m] = j]
  BY DEF Connected, nodeVars, Idle, AtHead
<1>3. starting[m] /\ j = starts[m] /\ proc[m][j] # "none" /\ client[m] = 0
      /\ \A k \in Start : <<m, k>> \in conns => k = j
  BY <1>2 DEF RunOK, ProcsOK
<1>4. ~starting'[m] /\ (n # m => starting'[n] = starting[n] /\ client'[n] = client[n])
      /\ (proc[m][j] = "refused" => client'[m] = 0)
      /\ (proc[m][j] # "refused" => client'[m] = j /\ proc[m][j] \in {"alive", "ok", "err"})
  <2>1. starting \in [Node -> BOOLEAN] /\ client \in [Node -> 0..MaxStarts]
    BY DEF TypeOK
  <2>2. proc[m][j] \in ProcState
    <3>1. proc \in [Node -> [Start -> ProcState]]
      BY DEF TypeOK
    <3> HIDE DEF Start
    <3> QED
      BY <1>1, <3>1
  <2>3. ~starting'[m] /\ (n # m => starting'[n] = starting[n])
    BY <1>1, <1>2, <2>1
  <2>4. /\ n # m => client'[n] = client[n]
        /\ client'[m] = IF proc[m][j] = "refused" THEN client[m] ELSE j
    BY <1>1, <1>2, <2>1
  <2> QED
    BY <1>2, <1>3, <2>2, <2>3, <2>4 DEF ProcState
<1>5. StartShows(n)' /\ ManualOK(n)'
  BY <1>1, <1>2, <1>3, <1>4 DEF StartShows, ManualOK
<1>6. ProcsOK(n)'
  BY <1>1, <1>2, <1>3, <1>4 DEF ProcsOK, LastState
<1> QED
  BY <1>5, <1>6

LEMMA RunNext == ASSUME TypeOK, AgendaOK, RunOK, [Next]_vars PROVE RunOK'
<1>1. CASE \/ QuietStep \/ UNCHANGED vars
           \/ \E n \in RunNode : ProcStateChanged(n) \/ \E k \in Start : TerminalCreated(n, k) \/ TerminalFailed(n, k)
  <2>1. UNCHANGED <<status, starting, starts, client, proc, conns>>
        /\ \A n \in RunNode : want'[n] = want[n] /\ manual'[n] = manual[n]
    BY <1>1 DEF QuietStep, vars, nodeVars, startVars, goVars, ProcStateChanged, TerminalCreated,
                TerminalFailed, treeVars
  <2>2. NoneAtHead \/ UNCHANGED agenda
    BY <1>1, IdleNotAtHead
       DEF QuietStep, vars, ProcStateChanged, TerminalCreated, TerminalFailed, treeVars
  <2> QED
    BY <2>1, <2>2 DEF RunOK, StartShows, ManualOK, ProcsOK, LastState, NoneAtHead, AtHead
<1>2. ASSUME NEW n \in Node, UpdateStep(n) PROVE RunOK'
  BY <1>2, UpdateRunOK
<1>3. ASSUME NEW n \in RunNode, BeginStep(n) PROVE RunOK'
  BY <1>3, BeginRunOK
<1>4. ASSUME NEW n \in RunNode, NEW s \in Status, DecideStep(n, s) PROVE RunOK'
  <2> SUFFICES ASSUME NEW m \in RunNode PROVE (StartShows(m) /\ ManualOK(m) /\ ProcsOK(m))'
    BY DEF RunOK
  <2>1. StartShows(m) /\ ManualOK(m) /\ ProcsOK(m) /\ m \in Node
    BY DEF RunOK, RunNode
  <2>2. /\ UNCHANGED <<status, starting, starts, client, proc, conns>> /\ ~AtHead(m)
        /\ s \notin {"Running", "Paused"} /\ ~Active(status[n])
        /\ want'[m] = (want[m] \/ m = n) /\ manual'[m] = IF m = n THEN s ELSE manual[m]
    BY <1>4, <2>1 DEF DecideStep, NoneAtHead, TypeOK
  <2>3. StartShows(m)' /\ ManualOK(m)'
    BY <2>1, <2>2 DEF StartShows, ManualOK, Active
  <2>4. ProcsOK(m)'
    BY <2>1, <2>2 DEF ProcsOK, LastState
  <2> QED
    BY <2>3, <2>4
<1>5. ASSUME NEW n \in RunNode, MarkStep(n) PROVE RunOK'
  <2> SUFFICES ASSUME NEW m \in RunNode PROVE (StartShows(m) /\ ManualOK(m) /\ ProcsOK(m))'
    BY DEF RunOK
  <2>1. StartShows(m) /\ ManualOK(m) /\ ProcsOK(m) /\ m \in Node
    BY DEF RunOK, RunNode
  <2>2. /\ UNCHANGED <<status, starting, starts, client, proc, conns>> /\ ~AtHead(m)
        /\ starting[n] /\ AtHead(n)'
        /\ want'[m] = (want[m] \/ m = n) /\ manual'[m] = IF m = n THEN "Running" ELSE manual[m]
    BY <1>5, <2>1 DEF MarkStep, NoneAtHead, TypeOK, startVars
  <2>3. StartShows(m)' /\ ManualOK(m)'
    BY <2>1, <2>2 DEF StartShows, ManualOK
  <2>4. ProcsOK(m)'
    BY <2>1, <2>2 DEF ProcsOK, LastState
  <2> QED
    BY <2>3, <2>4
<1>6. ASSUME NEW n \in RunNode, NEW k \in Start, GoStep(n, k) PROVE RunOK'
  <2>1. CASE Connect(n, k) \/ Exit(n, k)
    BY <2>1, ProcRunOK DEF Connect, Exit, SetProc, ProcStep
  <2>2. CASE CloseClient(n, k) /\ proc[n][k] = "alive"
    BY <2>2, ProcRunOK DEF CloseClient, SetProc, ProcStep
  <2>3. CASE CloseClient(n, k) /\ proc[n][k] # "alive"
    <3>1. UNCHANGED <<status, want, manual, agenda, starting, starts, client, proc, conns>>
      BY <2>3 DEF CloseClient, treeVars, nodeVars, startVars
    <3> QED
      BY <3>1 DEF RunOK, StartShows, ManualOK, ProcsOK, LastState, AtHead
  <2> QED
    BY <1>1, <1>6, <2>1, <2>2, <2>3, ConnectedRunOK DEF GoStep
<1> QED
  BY <1>1, <1>2, <1>3, <1>4, <1>5, <1>6, StepKinds DEF StepKind

LEMMA InitRun == Init => RunOK
<1> SUFFICES ASSUME Init PROVE RunOK
  OBVIOUS
<1>1. \A n \in RunNode : ~starting[n] /\ ~want[n] /\ client[n] = 0 /\ n \in Node
      /\ \A k \in Start : proc[n][k] = "none" /\ <<n, k>> \notin conns
  BY DEF Init, RunNode
<1> QED
  BY <1>1 DEF RunOK, StartShows, ManualOK, ProcsOK

-----------------------------------------------------------------------------
(* What a step does to one run node.                                        *)

(* A process only goes on the way it must.                                   *)
ProcGoesOn(n) ==
  \A k \in Start : /\ proc[n][k] \in {"ok", "err"} => proc'[n][k] = proc[n][k]
                   /\ proc'[n][k] = "alive" => proc[n][k] \in {"connecting", "alive"}
                   /\ proc'[n][k] = "connecting" => proc[n][k] = "connecting"

(* The node is not concerned: its processes may change their state, though,  *)
(* and more calls about it may be on their way.                              *)
Same(n) ==
  /\ status'[n] = status[n] /\ want'[n] = want[n] /\ manual'[n] = manual[n]
  /\ starting'[n] = starting[n] /\ startErr'[n] = startErr[n]
  /\ starts'[n] = starts[n] /\ client'[n] = client[n]
  /\ timedOut'[n] # timedOut[n] => status[n] = "Running"
  /\ AtHead(n) => AtHead(n)'
  /\ n \in notify => n \in notify'
  /\ \A k \in Start : /\ <<n, k>> \in closing => <<n, k>> \in closing'
                      /\ <<n, k>> \in terms' => <<n, k>> \in terms
  /\ ProcGoesOn(n)

Concerns(n) ==
  \/ UpdateStep(n) \/ BeginStep(n) \/ MarkStep(n) \/ (\E s \in Status : DecideStep(n, s))
  \/ ProcStateChanged(n)
  \/ \E k \in Start : Connected(n, k) \/ TerminalFailed(n, k) \/ CloseClient(n, k)

LEMMA ProcStays == ASSUME NEW n \in RunNode, proc'[n] = proc[n] PROVE ProcGoesOn(n)
BY DEF ProcGoesOn

LEMMA ProcMoves ==
  ASSUME TypeOK, NEW m \in RunNode, NEW j \in Start, NEW s,
         \/ proc[m][j] = "connecting" /\ s \in {"refused", "alive"}
         \/ proc[m][j] = "alive" /\ s \in {"ok", "err"},
         proc' = [proc EXCEPT ![m][j] = s], NEW n \in RunNode
  PROVE  ProcGoesOn(n)
<1>1. \A k \in Start : proc'[n][k] = IF n = m /\ k = j THEN s ELSE proc[n][k]
  BY DEF TypeOK, RunNode
<1> QED
  BY <1>1 DEF ProcGoesOn

LEMMA StepOfNode ==
  ASSUME TypeOK, AgendaOK, RunOK, [Next]_vars, NEW n \in RunNode
  PROVE  Same(n) \/ Concerns(n)
<1> RunNode \subseteq Node
  BY DEF RunNode
<1>1. CASE QuietStep \/ UNCHANGED vars
  <2>1. /\ UNCHANGED <<status, starting, startErr, starts, client, proc, notify, terms, closing>>
        /\ want'[n] = want[n] /\ manual'[n] = manual[n]
        /\ timedOut'[n] # timedOut[n] => status[n] = "Running"
        /\ AtHead(n) => AtHead(n)'
    BY <1>1 DEF QuietStep, goKept, vars, nodeVars, startVars, goVars, NoneAtHead, AtHead
  <2> QED
    BY <2>1, ProcStays DEF Same
<1>2. ASSUME NEW m \in Node, UpdateStep(m), m # n PROVE Same(n)
  <2>1. /\ UNCHANGED <<manual, startVars, proc, conns, goKept>>
        /\ status'[n] = status[n] /\ want'[n] = want[n] /\ ~AtHead(n)
    BY <1>2, UpdateOfRunNode
  <2> QED
    BY <2>1, ProcStays DEF Same, startVars, goKept
<1>3. ASSUME NEW m \in RunNode, BeginStep(m), m # n PROVE Same(n)
  <2>1. /\ status'[n] = status[n] /\ want'[n] = want[n] /\ manual'[n] = manual[n]
        /\ starting'[n] = starting[n] /\ startErr'[n] = startErr[n]
        /\ timedOut'[n] = timedOut[n] /\ starts'[n] = starts[n] /\ client'[n] = client[n]
        /\ proc'[n] = proc[n] /\ ~AtHead(n)
    BY <1>3, BeginFacts
  <2>2. UNCHANGED <<notify, terms, closing>>
    BY <1>3 DEF BeginStep, goKept
  <2> QED
    BY <2>1, <2>2, ProcStays DEF Same
<1>4. ASSUME NEW m \in RunNode, NEW s \in Status, DecideStep(m, s) \/ MarkStep(m), m # n
      PROVE  Same(n)
  <2>1. /\ UNCHANGED <<status, starting, timedOut, starts, client, proc, notify, terms, closing>>
        /\ startErr'[n] = startErr[n] /\ ~AtHead(n)
        /\ want' = [want EXCEPT ![m] = TRUE] /\ \E t : manual' = [manual EXCEPT ![m] = t]
    BY <1>4 DEF DecideStep, MarkStep, goKept, startVars, NoneAtHead
  <2>2. want'[n] = want[n] /\ manual'[n] = manual[n]
    BY <1>4, <2>1 DEF TypeOK
  <2> QED
    BY <2>1, <2>2, ProcStays DEF Same
<1>5. ASSUME NEW m \in RunNode, ProcStateChanged(m), m # n PROVE Same(n)
  <2>1. /\ UNCHANGED <<status, want, manual, starting, startErr, starts, client, timedOut, proc,
                       terms, closing>>
        /\ ~AtHead(n) /\ (n \in notify => n \in notify')
    BY <1>5 DEF ProcStateChanged, nodeVars, startVars, Idle, AtHead
  <2> QED
    BY <1>5, <2>1, ProcStays DEF Same, ProcStateChanged, Idle, AtHead
<1>6. ASSUME NEW m \in RunNode, NEW k \in Start, GoStep(m, k),
             m # n \/ Connect(m, k) \/ Exit(m, k) \/ TerminalCreated(m, k)
      PROVE  Same(n)
  <2> USE DEF treeVars, nodeVars, startVars
  <2>1. CASE Connect(m, k) \/ Exit(m, k) \/ CloseClient(m, k)
    <3>1. ProcGoesOn(n)
      BY <2>1, ProcMoves, ProcStays DEF Connect, Exit, CloseClient, SetProc
    <3>2. /\ UNCHANGED <<status, want, manual, starting, startErr, starts, client, timedOut,
                         agenda, terms>>
          /\ notify \subseteq notify'
          /\ \A j \in Start : <<n, j>> \in closing => <<n, j>> \in closing'
      BY <1>6, <2>1 DEF Connect, Exit, CloseClient, TerminalCreated
    <3> QED
      BY <3>1, <3>2 DEF Same, AtHead
  <2>2. CASE TerminalCreated(m, k)
    BY <2>2, ProcStays DEF TerminalCreated, Same, AtHead
  <2>3. CASE TerminalFailed(m, k) /\ m # n
    <3>1. startErr'[n] = startErr[n]
      BY <2>3 DEF TerminalFailed, TypeOK
    <3> QED
      BY <2>3, <3>1, ProcStays DEF TerminalFailed, Same, AtHead
  <2>4. CASE Connected(m, k) /\ m # n
    <3>1. starting'[n] = starting[n] /\ startErr'[n] = startErr[n] /\ client'[n] = client[n]
      BY <2>4 DEF Connected, TypeOK
    <3>2. \A j \in Start : <<n, j>> \in terms' => <<n, j>> \in terms
      BY <2>4 DEF Connected
    <3> QED
      BY <2>4, <3>1, <3>2, ProcStays DEF Connected, Same, AtHead, Idle
  <2> QED
    BY <1>6, <2>1, <2>2, <2>3, <2>4 DEF GoStep
<1>7. \E s \in Status : TRUE
  BY DEF Status
<1>8. ASSUME NEW m \in RunNode, NEW k \in Start, GoStep(m, k) PROVE Same(n) \/ Concerns(n)
  BY <1>6, <1>8, Zenon DEF GoStep, Concerns
<1>9. ASSUME NEW m \in RunNode,
             BeginStep(m) \/ MarkStep(m) \/ (\E s \in Status : DecideStep(m, s)) \/ ProcStateChanged(m)
      PROVE  Same(n) \/ Concerns(n)
  BY <1>3, <1>4, <1>5, <1>7, <1>9, Zenon DEF Concerns
<1> QED
  BY <1>1, <1>2, <1>8, <1>9, StepKinds, Zenon DEF StepKind, Concerns

-----------------------------------------------------------------------------
(* What a node shows of its last start.                                     *)

(* A finished node was skipped, or failed to start, or shows how its process  *)
(* ended: its status is the one that calcStatus would give it again.         *)
EndShows(n) ==
  Finished(status[n]) /\ ~starting[n] /\ ~want[n] /\ ~(n \in Terminals /\ startErr[n]) =>
    \/ status[n] = "Skipped"
    \/ startErr[n] /\ status[n] = OnErrorStatus(n)
    \/ /\ ~startErr[n] /\ client[n] # 0 /\ LastState(n) # "alive"
       /\ status[n] = IF Succeeded(n) THEN "Success" ELSE OnErrorStatus(n)

(* A failed start is shown, or is about to be.                               *)
ErrorShows(n) ==
  startErr[n] /\ ~starting[n] /\ n \notin notify /\ (\A k \in Start : <<n, k>> \notin closing) =>
    want[n] \/ Stays(n) \/ status[n] \in {OnErrorStatus(n), "Paused"} \/ AtHead(n)

(* A node whose terminal is still to be created has a client, unless it was   *)
(* decided about or started again since then.                                *)
TerminalOK(n) ==
  \A k \in Start : <<n, k>> \in terms =>
    /\ n \in Terminals
    /\ client[n] = 0 /\ ~starting[n] => startErr[n] \/ want[n] \/ Stays(n)

OutcomeOK == \A n \in RunNode : EndShows(n) /\ ErrorShows(n) /\ TerminalOK(n)

LEMMA SameOutcome ==
  ASSUME TypeOK, RunOK, NEW n \in RunNode, EndShows(n), ErrorShows(n), TerminalOK(n), Same(n)
  PROVE  EndShows(n)' /\ ErrorShows(n)' /\ TerminalOK(n)'
<1> USE DEF Same
<1>1. client[n] # 0 => client[n] \in Start /\ LastState(n) \in {"alive", "ok", "err"}
  <2>1. client[n] \in 0..MaxStarts
    BY DEF TypeOK, RunNode
  <2> QED
    BY <2>1, BoundAssumption DEF RunOK, ProcsOK
<1>2. client[n] # 0 /\ LastState(n) # "alive" => LastState(n)' = LastState(n)
  BY <1>1 DEF LastState, ProcGoesOn
<1>3. EndShows(n)'
  <2>1. Finished(status[n]) => timedOut'[n] = timedOut[n]
    BY DEF Finished
  <2> QED
    BY <1>2, <2>1 DEF EndShows, Succeeded, LastState, OnErrorStatus
<1>4. ErrorShows(n)'
  BY DEF ErrorShows, Stays, OnErrorStatus
<1>5. TerminalOK(n)'
  BY DEF TerminalOK, Stays
<1> QED
  BY <1>3, <1>4, <1>5

LEMMA UpdateOutcome ==
  ASSUME TypeOK, RunOK, NEW n \in RunNode, TerminalOK(n), UpdateStep(n)
  PROVE  EndShows(n)' /\ ErrorShows(n)' /\ TerminalOK(n)'
<1>1. /\ UNCHANGED <<manual, starting, startErr, timedOut, starts, client, proc, terms>>
      /\ status'[n] = CalcRunStatus(n).st
      /\ want'[n] = (want[n] /\ status'[n] \in {"Success", "Failed", "Waiting"})
  BY UpdateOfRunNode DEF startVars, goKept, RunNode
<1>2. CASE want[n]
  <2>1. status'[n] = manual[n] /\ manual[n] \in Status
    BY <1>1, <1>2 DEF CalcRunStatus, Plain, TypeOK, RunNode
  <2>2. manual[n] # "Paused" /\ (manual[n] = "Running" => starting[n])
    BY <1>2 DEF RunOK, ManualOK
  <2>3. starting'[n] \/ want'[n] \/ status'[n] \in {"Skipped", "Frozen"}
    BY <1>1, <1>2, <2>1, <2>2 DEF Status
  <2> QED
    BY <1>1, <2>3 DEF EndShows, ErrorShows, TerminalOK, Finished, Stays
<1>3. CASE ~want[n] /\ starting[n]
  BY <1>1, <1>3 DEF EndShows, ErrorShows, TerminalOK
<1>4. CASE ~want[n] /\ ~starting[n] /\ Stays(n)
  <2>1. status'[n] = status[n] /\ status[n] \in {"Skipped", "Frozen"}
    BY <1>1, <1>4 DEF CalcRunStatus, Plain, Stays
  <2> QED
    BY <1>1, <1>4, <2>1 DEF EndShows, ErrorShows, TerminalOK, Finished, Stays
<1>5. CASE ~want[n] /\ ~starting[n] /\ ~Stays(n)
  <2>1. startErr[n] => status'[n] \in {"Paused", OnErrorStatus(n)}
    BY <1>1, <1>5 DEF CalcRunStatus, ErrorStatus, Plain
  <2>2. ~startErr[n] /\ client[n] = 0 => status'[n] = "Waiting"
    BY <1>1, <1>5 DEF CalcRunStatus, Plain
  <2>3. ~startErr[n] /\ client[n] # 0 =>
          IF LastState(n) = "alive" THEN status'[n] = "Running"
          ELSE status'[n] = "Paused" \/ status'[n] = IF Succeeded(n) THEN "Success" ELSE OnErrorStatus(n)
    BY <1>1, <1>5 DEF CalcRunStatus, ErrorStatus, Plain
  <2>4. LastState(n)' = LastState(n) /\ Succeeded(n)' = Succeeded(n)
    BY <1>1 DEF LastState, Succeeded
  <2>5. EndShows(n)'
    BY <1>1, <2>1, <2>2, <2>3, <2>4 DEF EndShows, Finished, OnErrorStatus
  <2>6. ErrorShows(n)'
    BY <1>1, <2>1 DEF ErrorShows, OnErrorStatus
  <2>7. TerminalOK(n)'
    BY <1>1, <1>5 DEF TerminalOK
  <2> QED
    BY <2>5, <2>6, <2>7
<1> QED
  BY <1>2, <1>3, <1>4, <1>5

LEMMA OutcomeNext == ASSUME TypeOK, AgendaOK, RunOK, OutcomeOK, [Next]_vars PROVE OutcomeOK'
<1> SUFFICES ASSUME NEW n \in RunNode PROVE (EndShows(n) /\ ErrorShows(n) /\ TerminalOK(n))'
  BY DEF OutcomeOK
<1>0. EndShows(n) /\ ErrorShows(n) /\ TerminalOK(n) /\ n \in Node
      /\ StartShows(n) /\ ManualOK(n) /\ ProcsOK(n)
  BY DEF OutcomeOK, RunOK, RunNode
<1>1. CASE Same(n)
  BY <1>0, <1>1, SameOutcome
<1>2. CASE UpdateStep(n)
  BY <1>0, <1>2, UpdateOutcome
<1>3. CASE BeginStep(n)
  <2>1. starting'[n] /\ UNCHANGED terms
    BY <1>3, BeginFacts DEF BeginStep, goKept
  <2> QED
    BY <1>0, <2>1 DEF EndShows, ErrorShows, TerminalOK
<1>4. CASE MarkStep(n) \/ \E s \in Status : DecideStep(n, s)
  <2>1. want'[n] /\ UNCHANGED terms
    BY <1>0, <1>4 DEF MarkStep, DecideStep, goKept, TypeOK
  <2> QED
    BY <1>0, <2>1 DEF EndShows, ErrorShows, TerminalOK
<1>5. CASE ProcStateChanged(n)
  <2>1. /\ UNCHANGED <<status, want, starting, startErr, client, timedOut, proc, terms>>
        /\ agenda' = Up(n) /\ <<>> \in Seq(Frame)
    BY <1>5 DEF ProcStateChanged, nodeVars, startVars
  <2>2. AtHead(n)'
    BY <1>0, <2>1, UpIsFirst
  <2> QED
    BY <1>0, <2>1, <2>2
       DEF EndShows, ErrorShows, TerminalOK, Succeeded, LastState, Stays, OnErrorStatus
<1>6. ASSUME NEW k \in Start, Connected(n, k)
      PROVE  EndShows(n)' /\ ErrorShows(n)' /\ TerminalOK(n)'
  <2>1. /\ UNCHANGED <<status, want>> /\ agenda' = Up(n) /\ <<>> \in Seq(Frame)
        /\ <<n, k>> \in conns /\ ~AtHead(n)
    BY <1>6 DEF Connected, nodeVars, Idle, AtHead
  <2>2. AtHead(n)'
    BY <1>0, <2>1, UpIsFirst
  <2>3. ~Finished(status'[n])
    BY <1>0, <2>1 DEF ProcsOK, StartShows, Finished
  <2>4. TerminalOK(n)'
    <3>1. CASE proc[n][k] = "refused"
      <4>1. startErr'[n] /\ UNCHANGED terms
        BY <1>0, <1>6, <3>1 DEF Connected, TypeOK
      <4> QED
        BY <1>0, <4>1 DEF TerminalOK
    <3>2. CASE proc[n][k] # "refused"
      <4>1. client'[n] = k /\ k # 0 /\ (n \notin Terminals => UNCHANGED terms)
        BY <1>0, <1>6, <3>2 DEF Connected, TypeOK
      <4> QED
        BY <1>0, <4>1 DEF TerminalOK
    <3> QED
      BY <3>1, <3>2
  <2> QED
    BY <2>2, <2>3, <2>4 DEF EndShows, ErrorShows
<1>7. ASSUME NEW k \in Start, TerminalFailed(n, k)
      PROVE  EndShows(n)' /\ ErrorShows(n)' /\ TerminalOK(n)'
  <2>1. /\ UNCHANGED <<status, want, starting, client, notify, agenda>>
        /\ startErr'[n] /\ <<n, k>> \in terms /\ terms' \subseteq terms /\ closing = {}
        /\ client[n] # 0 => <<n, client[n]>> \in closing'
    BY <1>0, <1>7 DEF TerminalFailed, MainLoopFree, nodeVars, TypeOK
  <2>2. n \in Terminals /\ (client[n] = 0 /\ ~starting[n] => startErr[n] \/ want[n] \/ Stays(n))
    BY <1>0, <2>1 DEF TerminalOK
  <2>3. client[n] # 0 => client[n] \in Start
    BY <1>0, BoundAssumption DEF TypeOK
  <2>4. ErrorShows(n)'
    BY <1>0, <2>1, <2>2, <2>3 DEF ErrorShows, Stays, AtHead, OnErrorStatus
  <2> QED
    BY <2>1, <2>2, <2>4 DEF EndShows, TerminalOK
<1>8. ASSUME NEW k \in Start, CloseClient(n, k)
      PROVE  EndShows(n)' /\ ErrorShows(n)' /\ TerminalOK(n)'
  <2>1. /\ UNCHANGED <<status, want, starting, startErr, client, timedOut, terms>>
        /\ n \in notify'
    BY <1>8 DEF CloseClient, treeVars, nodeVars, startVars
  <2>2. proc[n][k] = "alive" \/ UNCHANGED proc
    BY <1>8 DEF CloseClient
  <2>3. ProcGoesOn(n)
    BY <1>8, ProcMoves, ProcStays DEF CloseClient, SetProc
  <2>4. client[n] # 0 /\ LastState(n) # "alive" => LastState(n)' = LastState(n)
    <3>1. client[n] # 0 => client[n] \in Start /\ LastState(n) \in {"alive", "ok", "err"}
      BY <1>0, BoundAssumption DEF ProcsOK, TypeOK
    <3> QED
      BY <2>1, <2>3, <3>1 DEF LastState, ProcGoesOn
  <2>5. EndShows(n)'
    BY <1>0, <2>1, <2>4 DEF EndShows, Succeeded, LastState, OnErrorStatus
  <2> QED
    BY <1>0, <2>1, <2>5 DEF ErrorShows, TerminalOK, Stays
<1> QED
  BY <1>1, <1>2, <1>3, <1>4, <1>5, <1>6, <1>7, <1>8, StepOfNode DEF Concerns

-----------------------------------------------------------------------------
(* The decisions about seq and par nodes.                                   *)

GroupOK == \A n \in Node \ RunNode : want[n] => manual[n] \in {"Success", "Failed"}

(* A step may give a decision up only by an operation that is still going on. *)
Decided(n) ==
  /\ want'[n] => manual'[n] \in {"Success", "Failed"}
  /\ want[n] /\ ~want'[n] => HasEnd(agenda')

LEMMA EndBehind ==
  ASSUME NEW s \in Seq(Frame), NEW t \in Seq(Frame), HasEnd(s) \/ HasEnd(t) PROVE HasEnd(s \o t)
<1> HIDE DEF Frame
<1>1. CASE HasEnd(s)
  <2>1. PICK i \in DOMAIN s : s[i].do = "end"
    BY <1>1 DEF HasEnd
  <2>2. i \in DOMAIN (s \o t) /\ (s \o t)[i] = s[i]
    BY ConcatPlaces
  <2> QED
    BY <2>1, <2>2 DEF HasEnd
<1>2. CASE HasEnd(t)
  <2>1. PICK i \in DOMAIN t : t[i].do = "end"
    BY <1>2 DEF HasEnd
  <2>2. Len(s) + i \in DOMAIN (s \o t) /\ (s \o t)[Len(s) + i] = t[i]
    BY ConcatPlaces
  <2> QED
    BY <2>1, <2>2 DEF HasEnd
<1> QED
  BY <1>1, <1>2

LEMMA PerformOpDecides ==
  ASSUME TypeOK, NEW n \in Node, NEW op, NEW rec, NEW keep \in SUBSET Resource,
         NEW rest \in Seq(Frame), rec \in BOOLEAN, PerformOp(n, op, rec, keep, rest)
  PROVE  /\ manual' = manual /\ \A m \in Node : want'[m] => want[m]
         /\ want' = want \/ HasEnd(agenda')
<1> DEFINE perform == [do |-> "op", node |-> n, op |-> op, rec |-> rec, sub |-> FALSE]
           end     == [do |-> "end", node |-> n, op |-> op, before |-> ProviderNodes,
                       keep |-> keep, failed |-> FALSE]
<1>1. CASE op \in AllowedOps(n, rec)
  <2>1. op \in Op /\ ProviderNodes \in SUBSET Node
    BY <1>1, AllowedOpsType DEF ProviderNodes
  <2>2. perform \in Frame /\ end \in Frame /\ end.do = "end"
    BY <2>1 DEF Frame
  <2>3. agenda' = <<perform, end>> \o rest
    BY <1>1 DEF PerformOp
  <2> HIDE DEF perform, end
  <2>4. <<perform, end>> \in Seq(Frame) /\ HasEnd(<<perform, end>>)
    <3>1. 2 \in DOMAIN <<perform, end>> /\ <<perform, end>>[2] = end
      OBVIOUS
    <3> QED
      BY <2>2, <3>1 DEF HasEnd
  <2>5. HasEnd(agenda')
    BY <2>3, <2>4, EndBehind
  <2> QED
    BY <1>1, <2>5 DEF PerformOp
<1>2. CASE op \notin AllowedOps(n, rec)
  BY <1>2 DEF PerformOp, nodeVars
<1> QED
  BY <1>1, <1>2

LEMMA OpOnGroupDecides ==
  ASSUME TypeOK, AgendaOK, GroupOK, OpOnGroup, NEW n \in Node \ RunNode
  PROVE  Decided(n)
<1>1. HasEnd(agenda')
  <2>1. PICK s \in Seq(Frame) : agenda' = s \o Tail(agenda)
    BY OpOnGroupCalls
  <2>2. Tail(agenda) \in Seq(Frame) /\ HasEnd(Tail(agenda))
    BY BehindOp DEF OpOnGroup
  <2> QED
    BY <2>1, <2>2, EndBehind
<1>2. want'[n] => manual'[n] \in {"Success", "Failed"}
  <2>1. PICK g \in Node : g = Head(agenda).node
    BY BehindOp DEF OpOnGroup
  <2>2. PICK decide \in BOOLEAN :
          /\ decide => Head(agenda).op \in {"Fail", "Success"}
          /\ want' = [want EXCEPT ![g] = decide]
          /\ manual' = [manual EXCEPT ![g] = IF decide THEN ManualStatus(Head(agenda).op) ELSE @]
    BY <2>1 DEF OpOnGroup
  <2>3. Head(agenda).op \in {"Fail", "Success"} => ManualStatus(Head(agenda).op) \in {"Success", "Failed"}
    BY DEF ManualStatus
  <2> QED
    BY <2>2, <2>3 DEF GroupOK, TypeOK
<1> QED
  BY <1>1, <1>2 DEF Decided

LEMMA DecisionStep ==
  ASSUME TypeOK, AgendaOK, GroupOK, [Next]_vars, NEW n \in Node \ RunNode
  PROVE  Decided(n)
<1>0. n \in Node /\ n \notin RunNode
  OBVIOUS
<1>1. CASE UNCHANGED <<want, manual>>
  BY <1>1 DEF GroupOK, Decided
<1>2. CASE Call
  <2>0. UNCHANGED goKept /\ conns' = conns \cup Started
    BY <1>2 DEF Call, goKept
  <2>1. CASE UpdateBlocked \/ RunRefused \/ OpOnGroupDone \/ OpNotAllowed \/ EndOp \/ CheckEnd \/ Settle
    <3>1. UNCHANGED <<want, manual>>
      BY <2>1 DEF UpdateBlocked, RunRefused, OpOnGroupDone, OpNotAllowed, EndOp, CheckEnd, Settle,
                  nodeVars
    <3> QED
      BY <1>1, <3>1
  <2>2. CASE UpdateStatus
    <3>1. PICK m \in Node : SetStatus(m, CalcStatus(m).st)
      BY <2>0, <2>2, UpdateKind DEF UpdateStep
    <3>2. UNCHANGED manual /\ want'[n] = (want[n] /\ (m = n => CalcStatus(n).st \in {"Success", "Failed", "Waiting"}))
      BY <3>1 DEF SetStatus, TypeOK
    <3>3. want[n] => CalcStatus(n).st = manual[n]
      BY <1>0 DEF CalcStatus, CalcParSeqStatus, Plain, RunNode
    <3> QED
      BY <1>0, <3>2, <3>3 DEF GroupOK, Decided
  <2>3. CASE OpOnRunNode \/ MarkRunning \/ RunByHand \/ Pick
    <3>1. PICK m \in RunNode : BeginStep(m) \/ MarkStep(m) \/ \E s \in Status : DecideStep(m, s)
      BY <2>0, <2>3, DecideKind, MarkKind, BeginKind
    <3>2. /\ \E b : want' = [want EXCEPT ![m] = b]
          /\ UNCHANGED manual \/ \E s : manual' = [manual EXCEPT ![m] = s]
      BY <3>1 DEF BeginStep, MarkStep, DecideStep, StartNode
    <3>3. want'[n] = want[n] /\ manual'[n] = manual[n]
      BY <1>0, <3>1, <3>2 DEF TypeOK
    <3> QED
      BY <1>0, <3>3 DEF GroupOK, Decided
  <2>4. CASE Sibling
    <3>1. PICK m \in Node, op \in Op, rec \in BOOLEAN, keep \in SUBSET Resource, rest \in Seq(Frame) :
            PerformOp(m, op, rec, keep, rest) \/ UNCHANGED nodeVars
      <4>1. /\ Head(agenda).node \in Node /\ Head(agenda).op \in Op /\ Tail(agenda) \in Seq(Frame)
            /\ HasChild(Head(agenda).node) \in BOOLEAN /\ {} \in SUBSET Resource
        <5>1. agenda \in Seq(Frame) /\ Next1("sibling")
          BY <2>4 DEF TypeOK, Sibling
        <5> QED
          BY <5>1, BehindOK, NextType, FrameType DEF Next1, HasChild, Op
      <4> QED
        BY <2>4, <4>1, Zenon DEF Sibling
    <3>2. /\ manual' = manual /\ \A k \in Node : want'[k] => want[k]
          /\ want' = want \/ HasEnd(agenda')
      BY <3>1, PerformOpDecides DEF nodeVars
    <3> QED
      BY <1>0, <3>2 DEF GroupOK, Decided
  <2>5. CASE OpOnGroup
    BY <2>5, OpOnGroupDecides
  <2> QED
    BY <1>2, <2>1, <2>2, <2>3, <2>4, <2>5, Zenon DEF Call, OperationStep
<1>3. CASE (Schedule \/ (MayExit /\ StopScheduler) \/ Unblock) /\ UNCHANGED <<goVars, ops>>
  BY <1>1, <1>3 DEF Schedule, StopScheduler, Unblock, nodeVars
<1>4. ASSUME NEW m \in RunNode, ProcStateChanged(m) \/ \E k \in Start : GoStep(m, k)
      PROVE  Decided(n)
  BY <1>1, <1>4 DEF ProcStateChanged, GoStep, Connect, Exit, Connected, TerminalCreated,
                    TerminalFailed, CloseClient, treeVars, nodeVars
<1>5. ASSUME NEW m \in Node, NEW op \in Op, NEW rec \in BOOLEAN,
             NEW keep \in SUBSET (provided \cap MayKeep), UserOp(m, op, rec, keep)
      PROVE  Decided(n)
  <2>1. PerformOp(m, op, rec, keep, <<>>) /\ keep \in SUBSET Resource /\ <<>> \in Seq(Frame)
    BY <1>5 DEF UserOp, TypeOK
  <2>2. /\ manual' = manual /\ \A k \in Node : want'[k] => want[k]
        /\ want' = want \/ HasEnd(agenda')
    BY <2>1, PerformOpDecides
  <2> QED
    BY <1>0, <2>2 DEF GroupOK, Decided
<1>6. CASE UNCHANGED vars
  BY <1>1, <1>6 DEF vars, nodeVars
<1> QED
  BY <1>2, <1>3, <1>4, <1>5, <1>6, Zenon DEF Next, GoStep

LEMMA GroupNext == ASSUME TypeOK, AgendaOK, GroupOK, [Next]_vars PROVE GroupOK'
BY DecisionStep DEF GroupOK, Decided

-----------------------------------------------------------------------------
(* The inductive invariant, for every tree.                                 *)

TreeInv == TypeOK /\ AgendaOK /\ RunOK /\ OutcomeOK /\ GroupOK

LEMMA TreeInvariant == Spec => []TreeInv
<1>1. Init => TreeInv
  <2>1. Init => OutcomeOK /\ GroupOK
    BY DEF Init, OutcomeOK, EndShows, ErrorShows, TerminalOK, GroupOK, RunNode, Finished
  <2> QED
    BY <2>1, InitType, InitAgenda, InitRun DEF TreeInv
<1>2. TreeInv /\ [Next]_vars => TreeInv'
  BY NextTypeOK, AgendaNext, RunNext, OutcomeNext, GroupNext DEF TreeInv
<1> QED
  BY <1>1, <1>2, PTL DEF Spec

(* A node whose start failed, or whose terminal failed, shows it when nothing *)
(* about it is on its way anymore.                                           *)
THEOREM FailedStartIsShown == Spec => []StartFailedShows
<1>1. TreeInv => StartFailedShows
  BY DEF TreeInv, OutcomeOK, ErrorShows, StartFailedShows, Idle, AtHead
<1> QED
  BY <1>1, TreeInvariant, PTL

(* What finished and is neither started nor decided about stays as it is.    *)
LEMMA FinishedStep ==
  ASSUME TreeInv, [Next]_vars, NEW n \in RunNode, Finished(status[n]),
         ~starting[n], ~want[n], ~(n \in Terminals /\ startErr[n])
  PROVE  status'[n] = status[n]
<1>1. CASE Same(n)
  BY <1>1 DEF Same
<1>2. CASE UpdateStep(n)
  <2>1. TypeOK /\ EndShows(n) /\ n \in Node
    BY DEF TreeInv, OutcomeOK, RunNode
  <2>2. status'[n] = CalcRunStatus(n).st
    BY <1>2, <2>1, UpdateOfRunNode
  <2> QED
    BY <2>1, <2>2 DEF EndShows, CalcRunStatus, ErrorStatus, Plain, Finished, Stays
<1>3. CASE Concerns(n) /\ ~UpdateStep(n)
  BY <1>3 DEF Concerns, BeginStep, MarkStep, DecideStep, ProcStateChanged, Connected,
              TerminalFailed, CloseClient, treeVars, nodeVars
<1> QED
  BY <1>1, <1>2, <1>3, StepOfNode DEF TreeInv

(* A finished run node stays as it is until it is run again or reset, whatever *)
(* late notification, timeout or operation elsewhere comes.                  *)
THEOREM FinishedNodesStay == Spec => FinishedStays
<1>1. TreeInv /\ [Next]_vars =>
        [\A n \in RunNode : Finished(status[n]) /\ status'[n] # status[n] =>
           starting[n] \/ want[n] \/ (n \in Terminals /\ startErr[n])]_vars
  BY FinishedStep
<1> QED
  BY <1>1, TreeInvariant, PTL DEF Spec, FinishedStays

(* The decision of the user about a paused group stands until the next        *)
(* operation: only a step of an operation gives it up.                       *)
THEOREM DecisionsStand == Spec => DecisionStands
<1>1. TreeInv /\ [Next]_vars =>
        [\A n \in Node \ RunNode : want[n] /\ ~want'[n] =>
           \E i \in DOMAIN agenda' : agenda'[i].do = "end"]_vars
  BY DecisionStep DEF TreeInv, Decided, HasEnd
<1> QED
  BY <1>1, TreeInvariant, PTL DEF Spec, DecisionStands

-----------------------------------------------------------------------------
(* Processes and statuses.  A terminal that is created late may take a process *)
(* away from the next start, so this needs that there is no such terminal.    *)

(* A process that lives is of the last start, and counted or to be counted.   *)
LiveOK(n) ==
  /\ starting[n] => ~startErr[n]
  /\ \A k \in Start : proc[n][k] = "alive" =>
       k = starts[n] /\ (starting[n] \/ (client[n] = k /\ ~startErr[n] /\ status[n] = "Running"))

AllLive == terms = {} /\ closing = {} /\ \A n \in RunNode : LiveOK(n)

LEMMA LiveNext ==
  ASSUME Terminals = {}, TypeOK, AgendaOK, RunOK, AllLive, [Next]_vars PROVE AllLive'
<1>1. UNCHANGED <<terms, closing>>
  <2>1. CASE \/ QuietStep \/ UNCHANGED vars \/ (\E n \in Node : UpdateStep(n))
             \/ \E n \in RunNode : BeginStep(n) \/ MarkStep(n) \/ (\E s \in Status : DecideStep(n, s))
    BY <2>1 DEF QuietStep, UpdateStep, BeginStep, MarkStep, DecideStep, goKept, vars, goVars
  <2>2. ASSUME NEW n \in RunNode, ProcStateChanged(n) \/ \E k \in Start : GoStep(n, k)
        PROVE  UNCHANGED <<terms, closing>>
    BY <2>2 DEF ProcStateChanged, GoStep, Connect, Exit, Connected, TerminalCreated,
                TerminalFailed, CloseClient, AllLive
  <2> QED
    BY <2>1, <2>2, StepKinds DEF StepKind
<1> SUFFICES ASSUME NEW n \in RunNode PROVE LiveOK(n)'
  BY <1>1 DEF AllLive
<1>2. LiveOK(n) /\ StartShows(n) /\ ManualOK(n) /\ ProcsOK(n) /\ n \in Node
  BY DEF AllLive, RunOK, RunNode
<1>3. CASE Same(n)
  <2>1. \A k \in Start : proc'[n][k] = "alive" =>
          proc[n][k] = "alive" \/ (starting[n] /\ k = starts[n])
    BY <1>2, <1>3 DEF Same, ProcGoesOn, ProcsOK
  <2> QED
    BY <1>2, <1>3, <2>1 DEF LiveOK, Same
<1>4. CASE UpdateStep(n)
  <2>1. /\ UNCHANGED <<starting, startErr, starts, client, proc>>
        /\ status'[n] = CalcRunStatus(n).st
    BY <1>2, <1>4, UpdateOfRunNode DEF startVars
  <2>2. ASSUME ~starting[n], ~startErr[n], status[n] = "Running", client[n] # 0,
               LastState(n) = "alive"
        PROVE  status'[n] = "Running"
    BY <1>2, <2>1, <2>2 DEF ManualOK, CalcRunStatus, Plain, Stays
  <2>3. \A k \in Start : k # 0
    BY BoundAssumption
  <2> QED
    BY <1>2, <2>1, <2>2, <2>3 DEF LiveOK, LastState
<1>5. CASE BeginStep(n)
  <2>1. /\ ~starting[n] /\ starting'[n] /\ ~startErr'[n] /\ starts[n] \in Nat
        /\ proc' = [proc EXCEPT ![n][starts[n] + 1] = "connecting"]
    BY <1>5, BeginFacts
  <2>2. \A k \in Start : proc[n][k] # "alive"
    BY <1>2, <1>5, <2>1 DEF LiveOK, BeginStep, Active
  <2>3. \A k \in Start : proc'[n][k] # "alive"
    BY <1>2, <2>1, <2>2 DEF TypeOK
  <2> QED
    BY <2>1, <2>3 DEF LiveOK
<1>6. CASE MarkStep(n) \/ \E s \in Status : DecideStep(n, s)
  <2>1. /\ UNCHANGED <<status, starting, starts, client, proc>>
        /\ startErr'[n] => startErr[n]
    BY <1>6 DEF MarkStep, DecideStep, startVars
  <2> QED
    BY <1>2, <2>1 DEF LiveOK
<1>7. CASE ProcStateChanged(n)
  BY <1>2, <1>7 DEF ProcStateChanged, nodeVars, startVars, LiveOK
<1>8. ASSUME NEW k \in Start, Connected(n, k) PROVE LiveOK(n)'
  <2>1. /\ UNCHANGED <<status, starts, proc>> /\ <<n, k>> \in conns /\ Idle
        /\ ~starting'[n]
        /\ startErr'[n] = (startErr[n] \/ proc[n][k] = "refused")
        /\ proc[n][k] # "refused" => client'[n] = k
    BY <1>2, <1>8 DEF Connected, nodeVars, TypeOK
  <2>2. starting[n] /\ k = starts[n] /\ ~startErr[n] /\ status[n] = "Running"
    BY <1>2, <2>1 DEF ProcsOK, LiveOK, StartShows, AtHead, Idle
  <2>3. \A j \in Start : proc[n][j] = "alive" => j = k
    BY <1>2, <2>2 DEF LiveOK
  <2> QED
    BY <2>1, <2>2, <2>3 DEF LiveOK
<1>9. ASSUME NEW k \in Start PROVE ~TerminalFailed(n, k) /\ ~CloseClient(n, k)
  BY DEF AllLive, TerminalFailed, CloseClient
<1> QED
  BY <1>3, <1>4, <1>5, <1>6, <1>7, <1>8, <1>9, StepOfNode DEF Concerns

(* When no terminal is created late (no terminals at all in runtree-headless), *)
(* runtree counts every process there is: whatever connects or lives is of the *)
(* last start of a node that is shown as running.                            *)
THEOREM LiveProcessesAreShown == Terminals = {} => (Spec => []LiveIsRunning)
<1> SUFFICES ASSUME Terminals = {} PROVE Spec => []LiveIsRunning
  OBVIOUS
<1>1. Init => AllLive
  BY DEF Init, AllLive, LiveOK, RunNode
<1>2. TreeInv /\ AllLive /\ [Next]_vars => AllLive'
  BY LiveNext DEF TreeInv
<1>3. TreeInv /\ AllLive => LiveIsRunning
  <2> SUFFICES ASSUME TreeInv, AllLive, Idle, NEW n \in RunNode, NEW k \in Start,
                      proc[n][k] \in {"connecting", "alive"}
               PROVE  status[n] = "Running" /\ k = starts[n]
    BY DEF LiveIsRunning
  <2>1. LiveOK(n) /\ StartShows(n) /\ ProcsOK(n) /\ ~AtHead(n)
    BY DEF TreeInv, AllLive, RunOK, Idle, AtHead
  <2> QED
    BY <2>1 DEF LiveOK, StartShows, ProcsOK
<1> QED
  BY <1>1, <1>2, <1>3, TreeInvariant, PTL DEF Spec
=============================================================================
