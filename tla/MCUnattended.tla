---------------------------- MODULE MCUnattended ----------------------------
(***************************************************************************)
(* RunTree without anybody to decide (runtree-headless), on the tree       *)
(*                                                                         *)
(*   par (max_proc 2)                                                      *)
(*     line: seq                                                           *)
(*       prep                                                              *)
(*       back: requires bin, xlocks db, on_error: paused                   *)
(*     window: par, rlocks db                                              *)
(*       make: rlocks db, provides bin, timeout, on_error: failed, freeze  *)
(*       read: rlocks db                                                   *)
(*                                                                         *)
(* Three run nodes compete for the two processes, the writer back for the  *)
(* lock of the window, and it waits for its turn and for a resource too.   *)
(***************************************************************************)
EXTENDS RunTree

CONSTANTS par, line, prep, back, window, make, read

MCNode == {par, line, prep, back, window, make, read}

MCKids == [n \in MCNode |-> CASE n = par -> <<line, window>>
                              [] n = line -> <<prep, back>>
                              [] n = window -> <<make, read>> [] OTHER -> <<>>]
MCKind == [n \in MCNode |->
             CASE n \in {par, window} -> "par" [] n = line -> "seq" [] OTHER -> "run"]
MCOnError    == [n \in MCNode |-> IF n = back THEN "Paused" ELSE "Failed"]
MCOnSiblings == [n \in MCNode |-> IF n = make THEN "Freeze" ELSE "None"]
MCXLocks     == [n \in MCNode |-> IF n = back THEN {"db"} ELSE {}]
MCRLocks     == [n \in MCNode |-> IF n \in {window, make, read} THEN {"db"} ELSE {}]
MCProvides   == [n \in MCNode |-> IF n = make THEN {"bin"} ELSE {}]
MCRequires   == [n \in MCNode |-> IF n = back THEN {"bin"} ELSE {}]
MCMaxProc    == [n \in MCNode |-> IF n = par THEN 2 ELSE -1]
MCTimed      == {make}
=============================================================================
