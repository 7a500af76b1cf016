----------------------------- MODULE NodeState -----------------------------
(***************************************************************************)
(* The state of a run tree, and updateStatus (status.go, with the locks    *)
(* and the provided resources of deplock.go).                              *)
(*                                                                         *)
(* Whatever changes the tree does so with the tree lock held, by calls     *)
(* that call each other (updateStatus of a failed node performs operations *)
(* on its siblings, which update statuses...).  agenda is what the holder  *)
(* of the lock still has to do, its innermost call first: a handler that   *)
(* takes the lock fills it, and no other handler starts before it is       *)
(* empty.  Each call is one step.  What does not need the lock, above all  *)
(* the exit of a process, may happen between any two steps.                *)
(*                                                                         *)
(* A panic ends the handler: recoverPanic logs it, the deferred UnLock     *)
(* gives the lock back, and the tree stays as it is at that point.         *)
(***************************************************************************)
EXTENDS TreeShape

CONSTANT MaxStarts  \* bound: how often a node is started

Start == 1..MaxStarts

VARIABLES
  status,    \* Node.Status
  held,      \* Node.held: Frozen or Skipped was set on the seq/par node itself
  want,      \* Node.WantManualStatus
  manual,    \* Node.ManualStatus
  nproc,     \* Node.NProc
  starting,  \* Node.starting: a connect goroutine has not come back
  startErr,  \* Node.StartError is not ""
  timedOut,  \* Node.TimedOut
  starts,    \* Node.Starts
  client,    \* Node.Client: the number of the start it is of, 0 for nil
  proc,      \* proc[n][k]: what became of the process of start k of n
  xby, rby,  \* Tree.xAcquiredBy, Tree.rAcquiredBy
  provided,  \* Tree.provided
  blocked,   \* the nodes with Node.Blocked
  agenda     \* the calls under the tree lock that are still to be made

startVars == <<starting, startErr, timedOut, starts, client>>
lockVars  == <<xby, rby>>
nodeVars  == <<status, held, want, manual, nproc, provided>>

(* "none": not started; "connecting": connect has not got an answer yet;     *)
(* "refused": it failed; "alive", then "ok" (a success exit code) or "err".  *)
ProcState == {"none", "connecting", "refused", "alive", "ok", "err"}

Stat(n) == [do |-> "status", node |-> n]
Down(n) == [i \in DOMAIN PostOrder[n] |-> Stat(PostOrder[n][i])]  \* updateStatusesDown
Up(n)   == [i \in DOMAIN Path[n] |-> Stat(Path[n][i])]            \* updateStatusesUp

Idle     == agenda = <<>>
Next1(d) == agenda # <<>> /\ Head(agenda).do = d

-----------------------------------------------------------------------------
(* Locks.                                                                   *)

(* Mistake: the nearest node that lists it.                                  *)
NearestRLock(n, r) ==
  LET listed == {i \in DOMAIN Path[n] : r \in RLocks[Path[n][i]]}
  IN  Path[n][CHOOSE i \in listed : \A j \in listed : i <= j]

(* getRLockRoot: the topmost node at or above n that lists r in rlocks.      *)
RLockRoot(n, r) ==
  LET listed == {i \in DOMAIN Path[n] : r \in RLocks[Path[n][i]]}
  IN  Path[n][CHOOSE i \in listed : \A j \in listed : j <= i]

Taken == {r \in Lock : xby[r] # None \/ rby[r] # None}

(* updateBlocked: what n waits for.  (An rlock of another root is waited for *)
(* by n and by everything below n's root.)                                   *)
MissingRequired(n) == Requires[n] \ provided
CannotRAcquire(n)  == {r \in RLocks[n] \cap Taken :
                         rby[r] = None \/ (rby[r] # n /\ rby[r] # RLockRoot(n, r))}

(* Mistake: only the table of the exclusive locks is looked at.              *)
CannotXAcquireFromX(n) == {r \in XLocks[n] : xby[r] \notin {None, n}}
CannotXAcquire(n) == {r \in XLocks[n] \cap Taken : xby[r] # n}

(* Mistake: the required resources are forgotten.                            *)
IsBlockedByLocks(n) == CannotXAcquire(n) \cup CannotRAcquire(n) # {}

IsBlocked(n) ==
  MissingRequired(n) \cup CannotXAcquire(n) \cup CannotRAcquire(n) # {}

(* CanAcquireLocks looks at the locks of the same kind only, and not at what *)
(* the nodes above n will have to lock.                                      *)
CanAcquireLocks(n) ==
  /\ \A r \in XLocks[n] : xby[r] \in {None, n}
  /\ \A r \in RLocks[n] : rby[r] \in {None, RLockRoot(n, r)}

(* acquireLocks.  It takes the names one by one, in any order; at the first  *)
(* it cannot have it panics, and keeps the ones before it.                   *)
XFree(n) == {r \in XLocks[n] : xby[r] = None}
RFree(n) == {r \in RLocks[n] : rby[r] = None}
ROpen(n) == {r \in RLocks[n] : rby[r] \in {None, RLockRoot(n, r)}}

Take(n, X, R) ==
  /\ xby' = [r \in Lock |-> IF r \in X THEN n ELSE xby[r]]
  /\ rby' = [r \in Lock |-> IF r \in R THEN RLockRoot(n, r) ELSE rby[r]]

(* Mistake: the rlocks are checked, but not recorded.                        *)
AcquireXLocks(n) ==
  /\ XFree(n) = XLocks[n] /\ ROpen(n) = RLocks[n]
  /\ Take(n, XLocks[n], {})

AcquireLocks(n) ==
  /\ XFree(n) = XLocks[n] /\ ROpen(n) = RLocks[n]
  /\ Take(n, XLocks[n], RFree(n))

AcquirePanics(n) ==
  \/ /\ XFree(n) # XLocks[n]
     /\ \E X \in SUBSET XFree(n) : Take(n, X, {})
  \/ /\ XFree(n) = XLocks[n] /\ ROpen(n) # RLocks[n]
     /\ \E R \in SUBSET RFree(n) : Take(n, XLocks[n], R)

(* Mistake: one of the two tables is forgotten.                              *)
ReleaseRLocks(n) ==
  /\ rby' = [r \in Lock |-> IF r \in RLocks[n] /\ rby[r] = n THEN None ELSE rby[r]]
  /\ UNCHANGED xby

(* releaseLocks: only what is recorded for n itself.                         *)
ReleaseLocks(n) ==
  /\ xby' = [r \in Lock |-> IF r \in XLocks[n] /\ xby[r] = n THEN None ELSE xby[r]]
  /\ rby' = [r \in Lock |-> IF r \in RLocks[n] /\ rby[r] = n THEN None ELSE rby[r]]

-----------------------------------------------------------------------------
(* The new status of a node, and whether it comes from on_error.            *)

Plain(s) == [st |-> s, oe |-> FALSE]

(* Mistake: the other part of on_error.                                      *)
OnErrorSiblings(n) == OnSiblings[n]

(* onErrorStatus: nobody decides about a paused node of an unattended tree.  *)
OnErrorStatus(n) ==
  IF OnError[n] = "Paused" /\ Unattended THEN "Failed" ELSE OnError[n]

(* errorStatus: a paused node stays so until it is started again.            *)
ErrorStatus(n) ==
  IF status[n] = "Paused" THEN Plain("Paused") ELSE [st |-> OnErrorStatus(n), oe |-> TRUE]

LastState(n) == proc[n][client[n]]

(* A process exits with success, unless it was stopped for its timeout.      *)
ExitedOk(n)  == LastState(n) = "ok"
Succeeded(n) == LastState(n) = "ok" /\ ~timedOut[n]

(* These are not left without a decision of the user (or of on_error).       *)
StaysFrozen(n) == status[n] = "Frozen"
Stays(n)       == status[n] \in {"Skipped", "Frozen"}

CalcRunStatus(n) ==
  IF want[n] THEN Plain(manual[n])
  ELSE IF starting[n] THEN Plain("Running")
  ELSE IF Stays(n) THEN Plain(status[n])
  ELSE IF startErr[n] THEN ErrorStatus(n)
  ELSE IF client[n] = 0 THEN Plain("Waiting")
  ELSE IF LastState(n) = "alive" THEN Plain("Running")
  ELSE IF Succeeded(n) THEN Plain("Success")
  ELSE ErrorStatus(n)

HasActive(n)   == \E c \in Children(n) : Active(status[c])
ChildFailed(n) == \E c \in Children(n) : HasError(status[c])

(* Mistake: the same as in a par node.                                       *)
SeqFailedAtEnd(n) ==
  Kind[n] = "seq" /\ ChildFailed(n) /\ \A c \in Children(n) : Finished(status[c])

(* A seq node does not go on behind an error, when what runs has ended.      *)
SeqFailed(n) == Kind[n] = "seq" /\ ChildFailed(n) /\ ~HasActive(n)

CalcParSeqStatus(n) ==
  LET unfinished == {c \in Children(n) : ~Finished(status[c])}
      failed     == [st |-> OnErrorStatus(n), oe |-> TRUE]
  IN  IF want[n] THEN Plain(manual[n])
      ELSE IF held[n] # "Waiting" THEN Plain(held[n])
      ELSE IF SeqFailed(n) THEN failed
      ELSE IF status[n] = "Running" /\ unfinished # {} THEN Plain("Running")
      ELSE IF HasActive(n) THEN Plain("Running")
      ELSE IF ChildFailed(n) THEN failed
      ELSE IF unfinished = {} THEN Plain("Success")
      ELSE IF \A c \in unfinished : status[c] = "Frozen" THEN Plain("Frozen")
      ELSE Plain("Waiting")

CalcStatus(n) == IF Kind[n] = "run" THEN CalcRunStatus(n) ELSE CalcParSeqStatus(n)

(* Mistake: a pause does not end a process.                                  *)
CountsWithPause(n, s) ==
  IF Kind[n] = "run" /\ Active(s) # Active(status[n]) /\ s # "Paused" THEN Above(n) ELSE {}

(* A process starts or ends: it counts for its node and every node above.    *)
Counts(n, s) ==
  IF Kind[n] = "run" /\ Active(s) # Active(status[n]) THEN Above(n) ELSE {}

(* IncProc and DecProc.                                                      *)
CountProc(n, s) ==
  nproc' = [a \in Node |-> IF a \notin Counts(n, s) THEN nproc[a]
                           ELSE IF Active(s) THEN nproc[a] + 1 ELSE nproc[a] - 1]

(* performOnErrorSiblings: the calls it makes, in the order of the siblings. *)
SiblingCalls(n) ==
  LET kids == Kids[Parent[n]]
      at   == CHOOSE i \in DOMAIN kids : kids[i] = n
  IN  [i \in 1..(Len(kids) - 1) |->
         [do |-> "sibling", node |-> kids[IF i < at THEN i ELSE i + 1], op |-> OnSiblings[n]]]

(* Mistake: a failed node provides too.                                      *)
ProvidesFailed(n, s) == ~Finished(status[n]) /\ Finished(s)

(* When a node finishes without error, what it lists is provided.            *)
NowProvides(n, s) == ~Finished(status[n]) /\ Provider(s)

(* The part of updateStatus before the locks.  A manual status other than    *)
(* Success, Failed and Waiting is only used once.                            *)
SetStatus(n, s) ==
  /\ status' = [status EXCEPT ![n] = s]
  /\ CountProc(n, s)
  /\ want' = [want EXCEPT ![n] = @ /\ s \in {"Success", "Failed", "Waiting"}]
  /\ provided' = provided \cup IF NowProvides(n, s) THEN Provides[n] ELSE {}
  /\ UNCHANGED <<held, manual, startVars, proc, blocked>>

UpdateStatus ==
  /\ Next1("status")
  /\ LET n     == Head(agenda).node
         prev  == status[n]
         new   == CalcStatus(n)
         calls == IF prev # new.st /\ ~HasError(prev) /\ new.oe /\ OnSiblings[n] # "None"
                     /\ Parent[n] # None
                  THEN SiblingCalls(n) ELSE <<>>
     IN  /\ SetStatus(n, new.st)
         /\ \/ /\ ~HoldsLocks(prev) /\ HoldsLocks(new.st)
               /\ AcquireLocks(n)
               /\ agenda' = calls \o Tail(agenda)
            \/ /\ ~HoldsLocks(prev) /\ HoldsLocks(new.st)
               /\ AcquirePanics(n)
               /\ agenda' = <<>>
            \/ /\ HoldsLocks(prev) /\ ~HoldsLocks(new.st)
               /\ ReleaseLocks(n)
               /\ agenda' = calls \o Tail(agenda)
            \/ /\ HoldsLocks(prev) = HoldsLocks(new.st)
               /\ UNCHANGED lockVars
               /\ agenda' = calls \o Tail(agenda)

(* updateBlockedAll.                                                         *)
UpdateBlocked ==
  /\ Next1("blocked")
  /\ blocked' = {n \in Node : IsBlocked(n)}
  /\ agenda' = Tail(agenda)
  /\ UNCHANGED <<nodeVars, startVars, proc, lockVars>>
=============================================================================
