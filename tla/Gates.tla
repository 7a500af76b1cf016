-------------------------------- MODULE Gates --------------------------------
(***************************************************************************)
(* --thaw: the approval gates that are opened before the run, and the       *)
(* sub-nodes that inherit "status: frozen" from them (internal/rt/thaw.go). *)
(* No process runs yet, so the status of a group follows from its           *)
(* sub-nodes, and a run node has the one that it was loaded with.          *)
(***************************************************************************)
EXTENDS Loader

(* FindNodes: a name is the id or the title of a node, or unknown; a path is  *)
(* abstracted, it names one node like an id.                               *)
IsNamed(s, h, name) ==
  CASE name.by = "id"      -> s.nodes[h].id = s.nodes[name.of].id
    [] name.by = "title"   -> s.nodes[h].calculated.title = s.nodes[name.of].calculated.title
    [] name.by = "unknown" -> FALSE
FindNodes(s, name) == SelectSeq(PartialTree(s), LAMBDA h : IsNamed(s, h, name))

(* performOp(OpThaw), without a recursion: only what AllowedManualOps tells. *)
ThawAllowed(n) == IF n.nodes # <<>> THEN n.held = "frozen" ELSE n.status = "frozen"
ThawOp(n) == IF n.type = "run" THEN [n EXCEPT !.status = "waiting"]
             ELSE IF n.held = "frozen" THEN [n EXCEPT !.held = "waiting"] ELSE n

(* Mistake in Inheriting: a gate inside a gate opens with it.                *)
InheritingAll(s, h) == SelectSeq(s.nodes[h].nodes, LAMBDA c : s.nodes[c].frozenInFile)
Inheriting(s, h) ==
  SelectSeq(s.nodes[h].nodes, LAMBDA c : s.nodes[c].frozenInFile /\ ~s.nodes[c].frozenGate)

Failed(s, why) == [s EXCEPT !.thaw.failed = why]
RECURSIVE Thaw(_, _)
Thaw(s, h) ==
  IF ~ThawAllowed(s.nodes[h]) THEN Failed(s, "panic")
  ELSE FoldLeft(Thaw, [s EXCEPT !.nodes[h] = [ThawOp(@) EXCEPT !.frozenInFile = FALSE]], Inheriting(s, h))

(* thawGate: a node without a status of its own is an error, so is a name    *)
(* of no node or of several.                                               *)
ThawGate(s, h) ==
  IF ~s.nodes[h].frozenGate THEN Failed(s, "not a gate")
  ELSE IF s.nodes[h].frozenInFile THEN Thaw(s, h) ELSE s
ThawName(s, name) ==
  LET found == FindNodes(s, name)
  IN IF s.thaw.failed # None THEN s
     ELSE IF Len(found) # 1 THEN Failed(s, "name") ELSE ThawGate(s, found[1])

(* updateStatusesDown, of a group: what was set on it, else all success (a   *)
(* group without sub-nodes), all frozen of what is not, or waiting.          *)
CalcParSeqStatus(n, statuses) ==
  CASE n.held # "waiting" -> n.held
    [] n.held = "waiting" /\ statuses \subseteq {"success"} -> "success"
    [] n.held = "waiting" /\ ~(statuses \subseteq {"success"}) /\ statuses \subseteq {"success", "frozen"} -> "frozen"
    [] OTHER -> "waiting"
RECURSIVE UpdateStatusesDown(_, _)
UpdateStatusesDown(s, h) ==
  LET t == FoldLeft(UpdateStatusesDown, s, s.nodes[h].nodes)
      statuses == {t.nodes[c].status : c \in Range(t.nodes[h].nodes)}
  IN IF t.nodes[h].type = "run" THEN t
     ELSE [t EXCEPT !.nodes[h].status = CalcParSeqStatus(t.nodes[h], statuses)]

ThawGates(s, names) ==
  LET t == FoldLeft(ThawName, [s EXCEPT !.thaw = [names |-> names, failed |-> None]], names)
  IN IF t.thaw.failed # None THEN t ELSE UpdateStatusesDown(t, 1)
=============================================================================
