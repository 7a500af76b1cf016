-------------------------- MODULE DebouncerProofs --------------------------
(***************************************************************************)
(* Proofs about Debouncer, for any set of values and of goroutines.        *)
(***************************************************************************)
EXTENDS Debouncer, TLAPS

(* The flag alone does not say that somebody will look at it: a set flag    *)
(* belongs to a loop that has not done its last check.                      *)
SetFlagIsWatched ==
  \A v \in Value : chs[v] = "set" =>
    \E w \in Loops(v) : pc[w] \in {"begin", "calling", "check"}

(* A request that is not served is remembered by the flag, or by a loop that *)
(* has taken the flag over and is about to call.                             *)
OwedIsRemembered ==
  \A v \in Value : owed[v] => chs[v] = "set" \/ \E w \in Loops(v) : pc[w] = "begin"

IInv == TypeOK /\ SetFlagIsWatched /\ OwedIsRemembered /\ NoStaleEntry

(* The variables keep their types: the flag of a value is absent, clear or   *)
(* set, and a goroutine is at one of the places of callUntilDone.            *)
THEOREM TypeCorrect == Spec => []TypeOK
<1>1. Init => TypeOK
  BY DEF Init, TypeOK, Place
<1>2. TypeOK /\ [Next]_vars => TypeOK'
  <2> SUFFICES ASSUME TypeOK, [Next]_vars PROVE TypeOK'
    OBVIOUS
  <2>1. ASSUME NEW v \in Value, Call(v) PROVE TypeOK'
    BY <2>1 DEF TypeOK, Call, Place
  <2>2. ASSUME NEW w \in Worker, Step(w) PROVE TypeOK'
    <3>1. CASE Begin(w)
      BY <3>1 DEF TypeOK, Begin, Place
    <3>2. CASE Return(w)
      BY <3>2 DEF TypeOK, Return, Place
    <3>3. CASE Check(w)
      BY <3>3 DEF TypeOK, Check, Place
    <3>4. CASE Clean(w)
      BY <3>4 DEF TypeOK, Clean, Place
    <3> QED
      BY <2>2, <3>1, <3>2, <3>3, <3>4 DEF Step
  <2>3. CASE UNCHANGED vars
    BY <2>3 DEF TypeOK, vars
  <2> QED
    BY <2>1, <2>2, <2>3 DEF Next
<1> QED
  BY <1>1, <1>2, PTL DEF Spec

LEMMA InitIInv == Init => IInv
<1> SUFFICES ASSUME Init PROVE IInv
  OBVIOUS
<1>1. TypeOK
  BY DEF Init, TypeOK, Place
<1>2. SetFlagIsWatched /\ OwedIsRemembered /\ NoStaleEntry
  BY DEF Init, SetFlagIsWatched, OwedIsRemembered, NoStaleEntry, Loops
<1> QED
  BY <1>1, <1>2 DEF IInv

LEMMA CallIInv == ASSUME IInv, NEW v \in Value, Call(v) PROVE IInv'
<1> USE DEF IInv, TypeOK, Loops
<1>1. TypeOK'
  BY DEF Call, Place
<1>2. SetFlagIsWatched'
  <2> SUFFICES ASSUME NEW u \in Value, chs'[u] = "set"
               PROVE \E w \in Worker : val'[w] = u /\ pc'[w] \in {"begin", "calling", "check"}
    BY Zenon DEF SetFlagIsWatched
  <2>1. CASE chs[v] = "set"
    BY <2>1 DEF Call, SetFlagIsWatched
  <2>2. CASE chs[v] # "set" /\ u = v
    BY <2>2 DEF Call
  <2>3. CASE chs[v] # "set" /\ u # v
    <3>1. PICK w \in Worker : val[w] = u /\ pc[w] \in {"begin", "calling", "check"}
      BY <2>3 DEF Call, SetFlagIsWatched
    <3> QED
      BY <2>3, <3>1 DEF Call
  <2> QED
    BY <2>1, <2>2, <2>3
<1>3. OwedIsRemembered'
  <2> SUFFICES ASSUME NEW u \in Value, owed'[u], chs'[u] # "set"
               PROVE \E w \in Worker : val'[w] = u /\ pc'[w] = "begin"
    BY Zenon DEF OwedIsRemembered
  <2>1. u # v /\ owed[u] /\ chs[u] # "set"
    BY DEF Call
  <2>2. PICK w \in Worker : val[w] = u /\ pc[w] = "begin"
    BY <2>1 DEF OwedIsRemembered
  <2> QED
    BY <2>2 DEF Call
<1>4. NoStaleEntry'
  <2> SUFFICES ASSUME ~Cache, NEW u \in Value, chs'[u] # "absent"
               PROVE \E w \in Worker : val'[w] = u /\ pc'[w] # "idle"
    BY Zenon DEF NoStaleEntry
  <2>1. CASE u = v
    BY <2>1, <1>2 DEF Call, SetFlagIsWatched
  <2>2. CASE u # v
    <3>1. PICK w \in Worker : val[w] = u /\ pc[w] # "idle"
      BY <2>2 DEF Call, NoStaleEntry
    <3> QED
      BY <2>2, <3>1 DEF Call
  <2> QED
    BY <2>1, <2>2
<1> QED
  BY <1>1, <1>2, <1>3, <1>4

LEMMA StepIInv == ASSUME IInv, NEW g \in Worker, Step(g) PROVE IInv'
<1> USE DEF IInv, TypeOK, Loops
<1>1. CASE Begin(g)
  BY <1>1 DEF Begin, SetFlagIsWatched, OwedIsRemembered, NoStaleEntry, Place
<1>2. CASE Return(g)
  BY <1>2 DEF Return, SetFlagIsWatched, OwedIsRemembered, NoStaleEntry, Place
<1>3. CASE Check(g)
  BY <1>3 DEF Check, SetFlagIsWatched, OwedIsRemembered, NoStaleEntry, Place
<1>4. CASE Clean(g)
  BY <1>4 DEF Clean, SetFlagIsWatched, OwedIsRemembered, NoStaleEntry, Place
<1> QED
  BY <1>1, <1>2, <1>3, <1>4 DEF Step

LEMMA NextIInv == IInv /\ [Next]_vars => IInv'
<1> SUFFICES ASSUME IInv, [Next]_vars PROVE IInv'
  OBVIOUS
<1>1. CASE UNCHANGED vars
  BY <1>1 DEF vars, IInv, TypeOK, SetFlagIsWatched, OwedIsRemembered, NoStaleEntry, Loops
<1> QED
  BY <1>1, CallIInv, StepIInv DEF Next

(* A request is never lost: until a call that started after it, some loop is *)
(* about to call, or will see the flag.                                      *)
THEOREM RequestsAreServed == Spec => []NoLostCall
<1>1. IInv => NoLostCall
  BY DEF IInv, SetFlagIsWatched, OwedIsRemembered, NoLostCall, Loops
<1> QED
  BY <1>1, InitIInv, NextIInv, PTL DEF Spec

(* Without the cache, the map has no entry that nobody works on.             *)
THEOREM EntriesAreInUse == Spec => []NoStaleEntry
<1>1. IInv => NoStaleEntry
  BY DEF IInv
<1> QED
  BY <1>1, InitIInv, NextIInv, PTL DEF Spec

-----------------------------------------------------------------------------
(* The safety part of ImplementsCoalescer.                                   *)

RunningNow == [v \in Value |-> {w \in Worker : val[w] = v /\ pc[w] = "calling"}]

LEMMA CallIsRequest == ASSUME TypeOK, NEW v \in Value, Call(v) PROVE Calls!Next
<1>1. RunningNow' = RunningNow
  <2>1. ASSUME NEW u \in Value, NEW w \in Worker
        PROVE  val'[w] = u /\ pc'[w] = "calling" <=> val[w] = u /\ pc[w] = "calling"
    <3>1. CASE chs[v] = "set"
      BY <3>1 DEF Call
    <3>2. CASE chs[v] # "set"
      BY <3>2 DEF Call, TypeOK
    <3> QED
      BY <3>1, <3>2
  <2> QED
    BY <2>1 DEF RunningNow
<1>2. owed' = [owed EXCEPT ![v] = TRUE]
  BY DEF Call
<1> QED
  BY <1>1, <1>2 DEF Calls!Next, Calls!Request, RunningNow

LEMMA BeginIsStart == ASSUME TypeOK, NEW w \in Worker, Begin(w) PROVE Calls!Next
<1>1. /\ val[w] \in Value /\ pc[w] = "begin" /\ val' = val
      /\ pc' = [pc EXCEPT ![w] = "calling"] /\ pc \in [Worker -> Place]
      /\ owed' = [owed EXCEPT ![val[w]] = FALSE]
  BY DEF Begin, TypeOK
<1>2. RunningNow' = [RunningNow EXCEPT ![val[w]] = @ \cup {w}]
  BY <1>1 DEF RunningNow
<1>3. \A u \in Value : w \notin RunningNow[u]
  BY <1>1 DEF RunningNow
<1>4. PICK v \in Value : v = val[w]
  BY <1>1
<1>5. /\ RunningNow' = [RunningNow EXCEPT ![v] = @ \cup {w}]
      /\ owed' = [owed EXCEPT ![v] = FALSE]
  BY <1>1, <1>2, <1>4
<1>6. Calls!StartCall(v, w)
  BY <1>3, <1>5 DEF Calls!StartCall, RunningNow
<1> QED
  BY <1>6 DEF Calls!Next

LEMMA ReturnIsFinish == ASSUME TypeOK, NEW w \in Worker, Return(w) PROVE Calls!Next
<1>1. /\ val[w] \in Value /\ pc[w] = "calling" /\ val' = val /\ owed' = owed
      /\ pc' = [pc EXCEPT ![w] = "check"] /\ pc \in [Worker -> Place]
  BY DEF Return, TypeOK
<1>2. RunningNow' = [RunningNow EXCEPT ![val[w]] = @ \ {w}] /\ w \in RunningNow[val[w]]
  BY <1>1 DEF RunningNow
<1>3. PICK v \in Value : v = val[w]
  BY <1>1
<1>4. RunningNow' = [RunningNow EXCEPT ![v] = @ \ {w}] /\ w \in RunningNow[v]
  BY <1>2, <1>3
<1>5. Calls!FinishCall(v, w)
  BY <1>1, <1>4 DEF Calls!FinishCall, RunningNow
<1> QED
  BY <1>5 DEF Calls!Next

LEMMA LoopIsStutter == ASSUME TypeOK, NEW w \in Worker, Check(w) \/ Clean(w) PROVE UNCHANGED Calls!vars
<1>1. /\ owed' = owed /\ val' = val /\ pc[w] # "calling"
      /\ \E p \in Place \ {"calling"} : pc' = [pc EXCEPT ![w] = p]
  BY DEF Check, Clean, Place
<1>2. RunningNow' = RunningNow
  BY <1>1 DEF RunningNow, TypeOK
<1> QED
  BY <1>1, <1>2 DEF Calls!vars, RunningNow

(* What the loops and flags do, callers may take for Coalescer: each step is  *)
(* a request, the start or the end of a call, or not to be seen; a call that  *)
(* clears what is owed starts after the requests that it serves.             *)
THEOREM CallsFollowRequests == Spec => Calls!Init /\ [][Calls!Next]_Calls!vars
<1>1. Init => Calls!Init
  BY DEF Init, Calls!Init
<1>2. TypeOK /\ [Next]_vars => [Calls!Next]_Calls!vars
  <2> SUFFICES ASSUME TypeOK, [Next]_vars PROVE [Calls!Next]_Calls!vars
    OBVIOUS
  <2>1. CASE UNCHANGED vars
    BY <2>1 DEF vars, Calls!vars
  <2>2. ASSUME NEW w \in Worker, Step(w) PROVE [Calls!Next]_Calls!vars
    BY <2>2, BeginIsStart, ReturnIsFinish, LoopIsStutter DEF Step
  <2> QED
    BY <2>1, <2>2, CallIsRequest DEF Next
<1> QED
  BY <1>1, <1>2, TypeCorrect, PTL DEF Spec
=============================================================================
