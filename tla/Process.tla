------------------------------ MODULE Process ------------------------------
(***************************************************************************)
(* What the runner package promises about the process of a start: what the *)
(* tree sees of it (Client.LastState), and what really became of it.       *)
(***************************************************************************)
CONSTANT Session   \* the starts

VARIABLES
  view,  \* what the tree sees
  fate   \* the real process

vars == <<view, fate>>

(* "unattached": the terminal could not be accepted, and the tree sees a      *)
(* failure whatever the process does.                                       *)
View == {"none", "connecting", "refused", "alive", "ok", "err", "closed", "unattached"}
Fate == {"none", "alive", "ok", "err"}

Init == view = [s \in Session |-> "none"] /\ fate = [s \in Session |-> "none"]

(* The process starts and ends when it likes, once.                         *)
Live(s) ==
  /\ \/ fate[s] = "none"  /\ fate' = [fate EXCEPT ![s] = "alive"]
     \/ fate[s] = "alive" /\ \E f \in {"ok", "err"} : fate' = [fate EXCEPT ![s] = f]
  /\ UNCHANGED view

(* The tree sees a success only after one.  It may see a failure at any time *)
(* (the connection may be lost), and what it sees of an end is final, unless *)
(* it gives up the start itself (closed), or the terminal fails: such a      *)
(* failure is not the end of the process, and what the process really does   *)
(* may still take its place.                                                *)
See(s) ==
  /\ UNCHANGED fate
  /\ \E v \in View :
       /\ view' = [view EXCEPT ![s] = v]
       /\ \/ view[s] = "none"       /\ v = "connecting"
          \/ view[s] = "connecting" /\ v \in {"refused", "alive"}
          \/ view[s] = "alive"      /\ v = "err"
          \/ view[s] = "alive"      /\ v = "ok" /\ fate[s] = "ok"
          \/ view[s] \in {"alive", "ok", "err"} /\ v = "unattached"
          \/ view[s] = "unattached" /\ v = "alive"
          \/ view[s] = "unattached" /\ v = "ok" /\ fate[s] = "ok"
          \/ view[s] \in {"alive", "ok", "err", "unattached"} /\ v = "closed"

Next == \E s \in Session : Live(s) \/ See(s)

Spec == Init /\ [][Next]_vars
=============================================================================
