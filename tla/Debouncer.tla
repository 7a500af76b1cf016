----------------------------- MODULE Debouncer -----------------------------
(***************************************************************************)
(* internal/events/debouncer.go: Debouncer[T].                             *)
(*                                                                         *)
(* Call(value) sets the flag of the value and starts a loop (a goroutine)  *)
(* when the flag was not set; the loop calls the function until it finds   *)
(* the flag clear.  Call, the end of a loop iteration and clean are each   *)
(* one critical section of db.lck; the call of the function is not under   *)
(* the lock, so its start and its return are steps of their own.           *)
(***************************************************************************)
CONSTANTS
  Value,   \* the values of the type parameter T in use
  Worker,  \* goroutines; a Call that needs one more than these is not modelled
  Cache    \* the cache parameter of NewDebouncer, a Boolean

VARIABLES
  chs,     \* chs[v]: the entry of the map: "absent", or its flag "clear" or "set"
  pc,      \* pc[w]: where the goroutine is in callUntilDone ("idle": it has none)
  val,     \* val[w]: the value of its loop
  owed     \* history: owed[v] iff no call of v has started since the last Call(v)

vars == <<chs, pc, val, owed>>

Place == {"idle", "begin", "calling", "check", "clean"}

TypeOK ==
  /\ chs \in [Value -> {"absent", "clear", "set"}]
  /\ pc \in [Worker -> Place]
  /\ val \in [Worker -> Value]
  /\ owed \in [Value -> BOOLEAN]

Init ==
  /\ chs = [v \in Value |-> "absent"]
  /\ pc = [w \in Worker |-> "idle"]
  /\ val \in [Worker -> Value]
  /\ owed = [v \in Value |-> FALSE]

(* Mistake: a loop is started only for a new entry.                          *)
CallNewEntry(v) ==
  /\ chs' = [chs EXCEPT ![v] = "set"]
  /\ owed' = [owed EXCEPT ![v] = TRUE]
  /\ \/ chs[v] # "absent" /\ UNCHANGED <<pc, val>>
     \/ /\ chs[v] = "absent"
        /\ \E w \in Worker :
             /\ pc[w] = "idle"
             /\ pc' = [pc EXCEPT ![w] = "begin"]
             /\ val' = [val EXCEPT ![w] = v]

(* Call: set the flag; when it was not set, "go callUntilDone(value)".      *)
Call(v) ==
  /\ chs' = [chs EXCEPT ![v] = "set"]
  /\ owed' = [owed EXCEPT ![v] = TRUE]
  /\ \/ /\ chs[v] = "set"
        /\ UNCHANGED <<pc, val>>
     \/ /\ chs[v] # "set"
        /\ \E w \in Worker :
             /\ pc[w] = "idle"
             /\ pc' = [pc EXCEPT ![w] = "begin"]
             /\ val' = [val EXCEPT ![w] = v]

(* db.call(value) starts ... *)
Begin(w) ==
  /\ pc[w] = "begin"
  /\ pc' = [pc EXCEPT ![w] = "calling"]
  /\ owed' = [owed EXCEPT ![val[w]] = FALSE]
  /\ UNCHANGED <<chs, val>>

(* ... and returns. *)
Return(w) ==
  /\ pc[w] = "calling"
  /\ pc' = [pc EXCEPT ![w] = "check"]
  /\ UNCHANGED <<chs, val, owed>>

(* Mistake: the loop ends without a look at the flag.                        *)
CheckOnce(w) ==
  /\ pc[w] = "check"
  /\ chs' = [chs EXCEPT ![val[w]] = IF @ = "absent" THEN @ ELSE "clear"]
  /\ pc' = [pc EXCEPT ![w] = IF Cache THEN "idle" ELSE "clean"]
  /\ UNCHANGED <<val, owed>>

(* The end of an iteration: read and clear the flag in one critical section. *)
Check(w) ==
  /\ pc[w] = "check"
  /\ chs' = [chs EXCEPT ![val[w]] = IF @ = "absent" THEN @ ELSE "clear"]
  /\ pc' = [pc EXCEPT ![w] = IF chs[val[w]] = "set" THEN "begin"
                              ELSE IF Cache THEN "idle" ELSE "clean"]
  /\ UNCHANGED <<val, owed>>

(* Mistake: the entry is kept.                                               *)
CleanNothing(w) ==
  /\ pc[w] = "clean"
  /\ pc' = [pc EXCEPT ![w] = "idle"]
  /\ UNCHANGED <<chs, val, owed>>

(* clean: another critical section, it deletes the entry unless its flag was *)
(* set again since.                                                          *)
Clean(w) ==
  /\ pc[w] = "clean"
  /\ chs' = [chs EXCEPT ![val[w]] = IF @ = "clear" THEN "absent" ELSE @]
  /\ pc' = [pc EXCEPT ![w] = "idle"]
  /\ UNCHANGED <<val, owed>>

Step(w) == Begin(w) \/ Return(w) \/ Check(w) \/ Clean(w)

Next == (\E v \in Value : Call(v)) \/ (\E w \in Worker : Step(w))

(* A started goroutine runs, the function returns (schedule and unblock do:  *)
(* they wait for nothing but the tree lock) and db.lck is not held forever.  *)
Fairness == \A w \in Worker : WF_vars(Step(w))

Spec == Init /\ [][Next]_vars /\ Fairness

-----------------------------------------------------------------------------
Loops(v) == {w \in Worker : val[w] = v /\ pc[w] # "idle"}

(* No wake-up is lost: while a request has not been followed by a call, a    *)
(* goroutine is about to make one, or will find the flag set when its call   *)
(* returns (Call and callUntilDone race on the flag).                        *)
NoLostCall ==
  \A v \in Value : owed[v] =>
    \E w \in Loops(v) :
      \/ pc[w] = "begin"
      \/ pc[w] \in {"calling", "check"} /\ chs[v] = "set"

(* cache=false does not leak: an entry of the map is there only as long as a *)
(* goroutine works on its value, although Check and clean are two critical   *)
(* sections and loops of the same value overlap.                             *)
NoStaleEntry ==
  ~Cache => \A v \in Value : chs[v] # "absent" => Loops(v) # {}

(* Every loop and every request implements the promise of Coalescer.         *)
Calls == INSTANCE Coalescer
  WITH running <- [v \in Value |-> {w \in Worker : val[w] = v /\ pc[w] = "calling"}]

ImplementsCoalescer == Calls!Spec
=============================================================================
