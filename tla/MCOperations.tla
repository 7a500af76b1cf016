---------------------------- MODULE MCOperations ----------------------------
(***************************************************************************)
(* RunTree with a user who performs operations, on the tree                *)
(*                                                                         *)
(*   group: seq, provides all, on_error: paused                            *)
(*     make: provides bin and all, xlocks db, on_error: paused, freeze     *)
(*     check: requires bin, xlocks db                                      *)
(***************************************************************************)
EXTENDS RunTree

CONSTANTS group, make, check

MCNode == {group, make, check}
MCKids == [n \in MCNode |-> IF n = group THEN <<make, check>> ELSE <<>>]
MCKind == [n \in MCNode |-> IF n = group THEN "seq" ELSE "run"]
MCOnError    == [n \in MCNode |-> IF n = check THEN "Failed" ELSE "Paused"]
MCOnSiblings == [n \in MCNode |-> IF n = make THEN "Freeze" ELSE "None"]
MCXLocks     == [n \in MCNode |-> IF n = group THEN {} ELSE {"db"}]
MCRLocks     == [n \in MCNode |-> {}]
MCProvides   == [n \in MCNode |-> CASE n = group -> {"all"} [] n = make -> {"bin", "all"} [] OTHER -> {}]
MCRequires   == [n \in MCNode |-> IF n = check THEN {"bin"} ELSE {}]
MCMaxProc    == [n \in MCNode |-> -1]
=============================================================================
