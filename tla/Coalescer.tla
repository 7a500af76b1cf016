----------------------------- MODULE Coalescer -----------------------------
(***************************************************************************)
(* What a debounced function promises its callers, without saying how: a   *)
(* request for a value is followed by a call of the function that starts   *)
(* after the request.  Requests made meanwhile share that call.  The       *)
(* scheduler of runtree rests on it: Tree.Awake and Tree.Unblock are       *)
(* debounced, and a lost request would leave a runnable node waiting.      *)
(***************************************************************************)
CONSTANTS Value,    \* the parameters of the debounced function
          Worker    \* the goroutines that may call it

VARIABLES owed,     \* owed[v]: no call of v has started since its last request
          running   \* running[v]: the goroutines inside a call of v

vars == <<owed, running>>

Init ==
  /\ owed = [v \in Value |-> FALSE]
  /\ running = [v \in Value |-> {}]

Request(v) ==
  /\ owed' = [owed EXCEPT ![v] = TRUE]
  /\ UNCHANGED running

(* A call starts: every request made before it is served by it.  A call    *)
(* that nobody asked for is allowed.                                       *)
StartCall(v, w) ==
  /\ \A u \in Value : w \notin running[u]
  /\ running' = [running EXCEPT ![v] = @ \cup {w}]
  /\ owed' = [owed EXCEPT ![v] = FALSE]

FinishCall(v, w) ==
  /\ w \in running[v]
  /\ running' = [running EXCEPT ![v] = @ \ {w}]
  /\ UNCHANGED owed

Next ==
  \E v \in Value :
    \/ Request(v)
    \/ \E w \in Worker : StartCall(v, w) \/ FinishCall(v, w)

Serve(v) == owed[v] /\ \E w \in Worker : StartCall(v, w)

Spec == Init /\ [][Next]_vars /\ \A v \in Value : WF_vars(Serve(v))
=============================================================================
