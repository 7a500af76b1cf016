------------------------------ MODULE MCLocks ------------------------------
(***************************************************************************)
(* RunTree with one lock name, on the tree                                 *)
(*                                                                         *)
(*   par                                                                   *)
(*     group: seq, rlocks db, with the sub-node make                       *)
(*     use: xlocks db                                                      *)
(*                                                                         *)
(* or with xlocks db on group and on make (nested) instead of the rlocks.  *)
(***************************************************************************)
EXTENDS RunTree

CONSTANTS par, group, make, use

MCNode == {par, group, make, use}
MCKids == [n \in MCNode |-> CASE n = par -> <<group, use>> [] n = group -> <<make>> [] OTHER -> <<>>]
MCKind == [n \in MCNode |-> CASE n = par -> "par" [] n = group -> "seq" [] OTHER -> "run"]
MCOnError    == [n \in MCNode |-> "Failed"]
MCOnSiblings == [n \in MCNode |-> "None"]
MCXLocks     == [n \in MCNode |-> IF n = use THEN {"db"} ELSE {}]
MCRLocks     == [n \in MCNode |-> IF n \in {group, make} THEN {"db"} ELSE {}]
MCNestedXLocks == [n \in MCNode |-> IF n \in {group, make} THEN {"db"} ELSE {}]
MCNone       == [n \in MCNode |-> {}]
MCMaxProc    == [n \in MCNode |-> -1]
=============================================================================
