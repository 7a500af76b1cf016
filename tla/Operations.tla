----------------------------- MODULE Operations -----------------------------
(***************************************************************************)
(* Starting a node (run.go: Start), and the operations of the user and of  *)
(* on_error on a node (op.go, reset.go).                                   *)
(*                                                                         *)
(* PerformOp checks that the operation is allowed and calls performOp,     *)
(* which may call itself for the sub-nodes and tells if something changed; *)
(* then it unprovides what the operation lost and updates the statuses up. *)
(* On the agenda:                                                          *)
(*   "op"    performOp of a node (sub: called from performOp of its parent)*)
(*   "mark"  the rest of performOp of a run node after its Start           *)
(*   "done"  the end of performOp of a seq/par node                        *)
(*   "end"   the rest of PerformOp after performOp                         *)
(***************************************************************************)
EXTENDS NodeState

(* Start, up to its deferred updateStatusesUp.  connect runs in a goroutine.  *)
StartNode(n) ==
  /\ starts[n] < MaxStarts
  /\ starts' = [starts EXCEPT ![n] = @ + 1]
  /\ proc' = [proc EXCEPT ![n][starts[n] + 1] = "connecting"]
  /\ want' = [want EXCEPT ![n] = FALSE]
  /\ client' = [client EXCEPT ![n] = 0]
  /\ startErr' = [startErr EXCEPT ![n] = FALSE]
  /\ timedOut' = [timedOut EXCEPT ![n] = FALSE]
  /\ starting' = [starting EXCEPT ![n] = TRUE]

(* Mistake: a node that runs may be run again.                               *)
MayRunAlways(n) == Kind[n] = "run"
MayRun(n)       == Kind[n] = "run" /\ ~Active(status[n])

(* AllowedManualOps (the signal operation does not go through PerformOp).    *)
AllowedOps(n, rec) ==
  LET s == status[n]
      If(cond, ops) == IF cond THEN ops ELSE {}
  IN  IF rec THEN If(HasChild(n), {"Freeze", "Thaw", "Skip", "Reset"}
                                  \cup If(~Finished(s), {"Fail", "Success"}))
      ELSE IF HasChild(n)
      THEN If(s \in {"Waiting", "Frozen"}, {"Skip"})
           \cup If(held[n] = "Frozen", {"Thaw", "Reset"})
           \cup If(held[n] = "Skipped", {"Reset"})
           \cup If(s = "Paused", {"Fail", "Success"})
      ELSE If(s = "Waiting", {"Freeze", "Skip"})
           \cup If(s = "Frozen", {"Thaw", "Skip", "Reset"})
           \cup If(MayRun(n), {"Run"})
           \cup If(Kind[n] = "run" /\ s = "Paused", {"Fail", "Success", "Reset"})
           \cup If(Kind[n] = "run" /\ Finished(s), {"Reset"})

Unprovides(op) == op \in {"Reset", "Run"}

ProviderNodes == {n \in Node : Provider(status[n])}

(* PerformOp, up to its performOp.  keep: the resources that the user chose   *)
(* to keep provided.  An operation that is not allowed is an error that      *)
(* changes nothing.                                                          *)
PerformOp(n, op, rec, keep, rest) ==
  IF op \in AllowedOps(n, rec)
  THEN /\ want' = [m \in Node |-> want[m] /\ m \notin Ancestors(n)]
       /\ agenda' = << [do |-> "op", node |-> n, op |-> op, rec |-> rec, sub |-> FALSE],
                       [do |-> "end", node |-> n, op |-> op, before |-> ProviderNodes,
                        keep |-> keep, failed |-> FALSE] >> \o rest
       /\ UNCHANGED <<status, held, manual, nproc, provided>>
  ELSE /\ agenda' = rest
       /\ UNCHANGED nodeVars

(* A sibling of a failed node: only when it is not started yet, by then.     *)
Sibling ==
  /\ Next1("sibling")
  /\ LET f == Head(agenda)
     IN  IF status[f.node] \in {"Waiting", "Frozen"}
         THEN PerformOp(f.node, f.op, HasChild(f.node), {}, Tail(agenda))
         ELSE agenda' = Tail(agenda) /\ UNCHANGED nodeVars
  /\ UNCHANGED <<startVars, proc, lockVars, blocked>>

(* performOp of a sub-node changed something: so does that of its parent.    *)
Changed(sub, rest) ==
  LET ends == {i \in DOMAIN rest : rest[i].do = "done"}
      next == CHOOSE i \in ends : \A j \in ends : i <= j
  IN  IF sub THEN [rest EXCEPT ![next].changed = TRUE] ELSE rest

ManualStatus(op) ==
  CASE op = "Freeze" -> "Frozen" [] op \in {"Thaw", "Reset"} -> "Waiting"
    [] op = "Run" -> "Running"   [] op = "Fail" -> "Failed"
    [] op = "Skip" -> "Skipped"  [] op = "Success" -> "Success"

(* performOp on a run node: it gets a manual status.                         *)
OpOnRunNode ==
  /\ Next1("op")
  /\ LET f == Head(agenda)
         n == f.node
     IN  /\ Kind[n] = "run"
         /\ f.op # "Run" /\ f.op \in AllowedOps(n, f.rec)
         /\ want' = [want EXCEPT ![n] = TRUE]
         /\ manual' = [manual EXCEPT ![n] = ManualStatus(f.op)]
         /\ startErr' = [startErr EXCEPT ![n] = @ /\ f.op # "Reset"]
         /\ agenda' = Down(n) \o Up(n) \o Changed(f.sub, Tail(agenda))
  /\ UNCHANGED <<status, held, nproc, provided, starting, timedOut, starts, client, proc,
                 lockVars, blocked>>

(* Run starts the node, whatever the scheduler would say, if its own locks   *)
(* are free ...                                                              *)
RunByHand ==
  /\ Next1("op")
  /\ LET f == Head(agenda)
         n == f.node
     IN  /\ f.op = "Run" /\ f.op \in AllowedOps(n, f.rec)
         /\ CanAcquireLocks(n)
         /\ StartNode(n)
         /\ agenda' = Up(n) \o <<[do |-> "mark", node |-> n]>> \o Tail(agenda)
  /\ UNCHANGED <<status, held, manual, nproc, provided, lockVars, blocked>>

MarkRunning ==
  /\ Next1("mark")
  /\ LET n == Head(agenda).node
     IN  /\ want' = [want EXCEPT ![n] = TRUE]
         /\ manual' = [manual EXCEPT ![n] = "Running"]
         /\ agenda' = Down(n) \o Up(n) \o Tail(agenda)
  /\ UNCHANGED <<status, held, nproc, provided, startVars, proc, lockVars, blocked>>

(* ... else it is an error, and PerformOp does not update the statuses.      *)
RunRefused ==
  /\ Next1("op")
  /\ LET f == Head(agenda)
     IN  /\ f.op = "Run" /\ f.op \in AllowedOps(f.node, f.rec)
         /\ ~CanAcquireLocks(f.node)
         /\ agenda' = [Tail(agenda) EXCEPT ![1].failed = TRUE]
  /\ UNCHANGED <<nodeVars, startVars, proc, lockVars, blocked>>

(* performOp on a seq/par node: its own part, then its sub-nodes.            *)
OpOnGroup ==
  /\ Next1("op")
  /\ LET f      == Head(agenda)
         n      == f.node
         decide == status[n] = "Paused" /\ f.op \in {"Fail", "Success"}
         reset  == status[n] = "Paused" /\ f.op = "Reset"
         free   == \/ held[n] = "Frozen" /\ f.op \in {"Reset", "Thaw"}
                   \/ held[n] = "Skipped" /\ f.op = "Reset"
         skip   == f.op = "Skip" /\ status[n] \in {"Waiting", "Frozen"}
         subs   == IF f.rec
                   THEN [i \in DOMAIN Kids[n] |->
                           [do |-> "op", node |-> Kids[n][i], op |-> f.op,
                            rec |-> HasChild(Kids[n][i]), sub |-> TRUE]]
                   ELSE <<>>
     IN  /\ Kind[n] # "run" /\ f.op \in AllowedOps(n, f.rec)
         /\ want' = [want EXCEPT ![n] = decide]
         /\ manual' = [manual EXCEPT ![n] = IF decide THEN ManualStatus(f.op) ELSE @]
         /\ held' = [held EXCEPT ![n] = IF skip THEN "Skipped" ELSE IF free THEN "Waiting" ELSE @]
         /\ agenda' = subs \o <<[do |-> "done", node |-> n, sub |-> f.sub,
                                 changed |-> want[n] \/ decide \/ reset \/ free \/ skip]>>
                      \o Tail(agenda)
  /\ UNCHANGED <<status, nproc, provided, startVars, proc, lockVars, blocked>>

OpOnGroupDone ==
  /\ Next1("done")
  /\ LET f == Head(agenda)
     IN  agenda' = IF f.changed
                   THEN Down(f.node) \o Up(f.node) \o Changed(f.sub, Tail(agenda))
                   ELSE Tail(agenda)
  /\ UNCHANGED <<nodeVars, startVars, proc, lockVars, blocked>>

(* A recursive operation skips a sub-node where it is not allowed.           *)
OpNotAllowed ==
  /\ Next1("op")
  /\ Head(agenda).op \notin AllowedOps(Head(agenda).node, Head(agenda).rec)
  /\ agenda' = Tail(agenda)
  /\ UNCHANGED <<nodeVars, startVars, proc, lockVars, blocked>>

(* Mistake: another node may provide it as well.                             *)
LostOfOne(before, keep) ==
  {r \in provided \ keep : \E n \in before \ ProviderNodes : r \in Provides[n]}

(* unprovideLost: what a node provided before, and no node provides now.     *)
Lost(before, keep) ==
  {r \in provided \ keep :
     /\ \E n \in before \ ProviderNodes : r \in Provides[n]
     /\ \A n \in ProviderNodes : r \notin Provides[n]}

(* The end of PerformOp, in any case: what is lost, and the ways up.           *)
EndOp ==
  /\ Next1("end")
  /\ LET f    == Head(agenda)
         lost == IF Unprovides(f.op) THEN Lost(f.before, f.keep) ELSE {}
     IN  /\ provided' = provided \ lost
         /\ agenda' = (IF lost = {} THEN <<>> ELSE <<[do |-> "blocked"]>>)
                      \o (IF f.failed THEN <<>> ELSE Up(f.node)) \o Tail(agenda)
  /\ UNCHANGED <<status, held, want, manual, nproc, startVars, proc, lockVars, blocked>>

OperationStep ==
  \/ Sibling \/ OpOnRunNode \/ RunByHand \/ MarkRunning \/ RunRefused
  \/ OpOnGroup \/ OpOnGroupDone \/ OpNotAllowed \/ EndOp
=============================================================================
