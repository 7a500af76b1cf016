----------------------------- MODULE Scheduler -----------------------------
(***************************************************************************)
(* The schedule cycle (scheduler.go), the timeouts that it notices         *)
(* (timeout.go) and the end of an unattended run (unattended.go).          *)
(*                                                                         *)
(* Awake only makes the next cycle come sooner than the HZ tick of Run, so *)
(* here a cycle may start whenever the tree lock is free (Debouncer shows  *)
(* that no Awake is lost).                                                 *)
(***************************************************************************)
EXTENDS Operations

VARIABLES
  halted,  \* Tree.stopped (StopScheduler)
  ended    \* Tree.ended and Tree.end: "no", "finished" or "stopped"

endVars == <<halted, ended>>

(* Mistake: off by one.                                                      *)
OverMaxProc(n) == MaxProc[n] >= 0 /\ nproc[n] > MaxProc[n]
AtMaxProc(n)   == MaxProc[n] >= 0 /\ nproc[n] >= MaxProc[n]

(* findRunnableHold does not go below such a node.                           *)
Holds(n) ==
  \/ Finished(status[n])
  \/ status[n] \in {"Frozen", "Paused"}
  \/ AtMaxProc(n)
  \/ n \in blocked

(* c stands in front of n, or of a node above n, in a seq node.              *)
InFront(c, n) ==
  \E p \in Ancestors(n) : Kind[p] = "seq" /\
    \E i, j \in DOMAIN Kids[p] : i < j /\ Kids[p][i] = c /\ Kids[p][j] \in Above(n)

(* Mistake: it is enough that they are started.                              *)
InTurnWhenStarted(n) == \A c \in Node : InFront(c, n) => status[c] # "Waiting"
InTurn(n)            == \A c \in Node : InFront(c, n) => Finished(status[c])

(* It reaches a node when it stops nowhere above, and no seq node above has   *)
(* an unfinished sub-node in front of it.                                    *)
Reaches(n) == InTurn(n) /\ \A a \in Above(n) : ~Holds(a)

Runnable == {n \in RunNode : status[n] = "Waiting" /\ Reaches(n)}

(* findRunnable: the first one in the order of the tree.                     *)
IsFirstRunnable(n) == n \in Runnable /\ \A m \in Runnable : ~Precedes(m, n)

(* checkTimeout of a node that has a timeout, when it elapsed.               *)
CanTimeOut(n) ==
  n \in Timed /\ ~timedOut[n] /\ status[n] = "Running" /\ client[n] # 0 /\ LastState(n) = "alive"

Schedule ==
  /\ Idle /\ ~halted
  /\ \E T \in SUBSET {n \in RunNode : CanTimeOut(n)} :
       timedOut' = [n \in Node |-> timedOut[n] \/ n \in T]
  /\ agenda' = Down(Root) \o <<[do |-> "blocked"], [do |-> "pick"]>>
  /\ UNCHANGED <<nodeVars, starting, startErr, starts, client, proc, lockVars, blocked, endVars>>

(* The end of the cycle: start one node ...                                  *)
Pick ==
  /\ Next1("pick")
  /\ \E n \in RunNode :
       /\ IsFirstRunnable(n)
       /\ StartNode(n)
       /\ agenda' = Up(n) \o Tail(agenda)
  /\ UNCHANGED <<status, held, manual, nproc, provided, lockVars, blocked, endVars>>

(* ... or, when there is none, checkEnd.  SchedState is what it compares.    *)
SchedState ==
  <<status, blocked, Cardinality(provided), Cardinality({r \in Lock : xby[r] # None}),
    Cardinality({r \in Lock : rby[r] # None})>>

(* Mistakes: only the starts are looked at; frozen and blocked nodes are not   *)
(* the end.                                                                  *)
QuietStarts   == \A n \in RunNode : ~starting[n]
QuietFinished == \A n \in RunNode : Finished(status[n]) /\ ~starting[n]

Quiet == \A n \in RunNode : ~Active(status[n]) /\ ~starting[n]

CheckEnd ==
  /\ Next1("pick") /\ Runnable = {}
  /\ LET over == Unattended /\ ended = "no" /\ Quiet
     IN  /\ ended' = IF over /\ Finished(status[Root]) THEN "finished" ELSE ended
         /\ agenda' = IF over /\ ~Finished(status[Root])
                      THEN Down(Root) \o << [do |-> "blocked"],
                                            [do |-> "settle", before |-> SchedState] >>
                      ELSE Tail(agenda)
  /\ UNCHANGED <<nodeVars, startVars, proc, lockVars, blocked, halted>>

(* The statuses are a fixed point, and there is still nothing to start.      *)
Settle ==
  /\ Next1("settle")
  /\ ended' = IF Head(agenda).before = SchedState /\ Runnable = {} THEN "stopped" ELSE ended
  /\ agenda' = Tail(agenda)
  /\ UNCHANGED <<nodeVars, startVars, proc, lockVars, blocked, halted>>

StopScheduler ==
  /\ Idle /\ ~halted
  /\ halted' = TRUE
  /\ UNCHANGED <<nodeVars, startVars, proc, lockVars, blocked, agenda, ended>>

(* unblock (debounced): the blocked nodes, for the GUI.                       *)
Unblock ==
  /\ Idle
  /\ blocked' = {n \in Node : IsBlocked(n)}
  /\ UNCHANGED <<nodeVars, startVars, proc, lockVars, agenda, endVars>>
=============================================================================
