----------------------------- MODULE Documents -----------------------------
(***************************************************************************)
(* Loading a document: the files of a tree, or the variables of one node.   *)
(* The properties say what the loaded tree is, of each node by the mappings *)
(* it comes from, without the order in which the loader works.             *)
(***************************************************************************)
EXTENDS Gates

CONSTANTS TreeChoice, Disk(_), VarChoice, Block(_), MaxDepth, Thaws(_)

VARIABLES doc, loaded
docVars == <<doc, loaded>>

DocInit ==
  /\ doc \in [kind : {"tree"}, is : TreeChoice] \cup [kind : {"variables"}, is : VarChoice]
  /\ loaded = None

LoadDocument ==
  /\ loaded = None /\ doc.kind = "tree"
  /\ loaded' = LoadTree(Disk(doc.is), MaxDepth)
  /\ UNCHANGED doc
CalculateVariables ==
  /\ loaded = None /\ doc.kind = "variables"
  /\ loaded' = CalcVars(Block(doc.is).vars, Block(doc.is).defVars, Block(doc.is).inherited)
  /\ UNCHANGED doc

ThawTree ==
  /\ loaded # None /\ doc.kind = "tree" /\ loaded.errs = <<>> /\ loaded.thaw = None
  /\ \E names \in Thaws(loaded) : loaded' = ThawGates(loaded, names)
  /\ UNCHANGED doc

DocNext == LoadDocument \/ CalculateVariables \/ ThawTree

IsLoaded(kind) == doc.kind = kind /\ loaded # None

-----------------------------------------------------------------------------
(* The names that a block refers to and that are no variables; what is       *)
(* behind a "$" is for the shell.                                           *)
Unresolved(block, base) ==
  LET In(t) == {p \in 1..(Len(t) - 2) : t[p] = "{" /\ t[p + 2] = "}" /\ IsVarName(<<t[p + 1]>>) /\ ~(p > 1 /\ t[p - 1] = "$")}
  IN UNION {UNION {{block[k].texts[i][p + 1] : p \in In(block[k].texts[i])} \ BlockNames(k, block, base) :
                     i \in DOMAIN block[k].texts} : k \in DOMAIN block}

(* The values of vars and def_vars solve the equations that the file states, *)
(* in whatever order they refer to each other: a reference means the value   *)
(* of the same block, in the variable's own value and else the one around    *)
(* it; a text that a "{" in it does not refer stays as it is, a substituted  *)
(* value is not substituted again.  There is a fault exactly when they have  *)
(* no solution: a cycle, or a list where a text is needed (vars.go, calcVars *)
(* and varEvalLookup).                                                       *)
ValuesAreSolved ==
  IsLoaded("variables") =>
    LET b    == Block(doc.is)
        used == [k \in {d \in DOMAIN b.defVars : d \notin DOMAIN b.inherited /\ d \notin DOMAIN b.vars} |-> b.defVars[k]]
        base == [k \in DOMAIN used |-> loaded.is[k]] @@ b.inherited
    IN IF HasNoSolution(used, b.inherited) \/ HasNoSolution(b.vars, used @@ b.inherited)
       THEN loaded.fault # NoFault
       ELSE /\ loaded.fault = NoFault
            /\ Solves(loaded.is, used, b.inherited) /\ Solves(loaded.is, b.vars, base)
            /\ \A k \in DOMAIN b.inherited \ DOMAIN b.vars : loaded.is[k] = b.inherited[k]
            /\ DOMAIN loaded.is = DOMAIN b.vars \cup DOMAIN base
            /\ loaded.undefined.vars = Unresolved(b.vars, base)

-----------------------------------------------------------------------------
NodeOf(n) == loaded.nodes[n]
InTree    == Range(PartialTree(loaded))
Raw(n, i) == NodeOf(n).sources[i].raw
Objects(n) == [i \in DOMAIN NodeOf(n).sources |-> Raw(n, i)]
Gives(o, p) == p \in DOMAIN o.props
ValueIn(o, p, default) == IF Gives(o, p) THEN o.props[p].is ELSE default

(* The mappings that a node inherits from, the root's first, its own last.   *)
RECURSIVE Lineage(_)
Lineage(n) == (IF NodeOf(n).parent = 0 THEN <<>> ELSE Lineage(NodeOf(n).parent)) \o Objects(n)
LastGiven(os, p, default) ==
  LET give == {i \in DOMAIN os : Gives(os[i], p)}
  IN IF give = {} THEN default ELSE ValueIn(os[CHOOSE i \in give : \A j \in give : j <= i], p, default)

(* A setting is the one of the nearest mapping that gives it.                *)
SettingsInherited(n) == \A p \in Settings : NodeOf(n).settings[p] = LastGiven(Lineage(n), p, "default")
StatusInherited(n)   == NodeOf(n).status = LastGiven(Lineage(n), "status", "waiting")

(* The gate that a node is behind: the nearest node with a status in the     *)
(* file, when this is frozen, else none (0).                               *)
RECURSIVE GateOf(_)
GateOf(n) ==
  LET own == LastGiven(Objects(n), "status", None)
  IN IF own = "frozen" THEN n ELSE IF own # None \/ NodeOf(n).parent = 0 THEN 0 ELSE GateOf(NodeOf(n).parent)

(* --thaw opens the gates that it names, with all that is behind them and    *)
(* behind no other gate, and nothing else; a name that is no gate or is not  *)
(* clear is an error (docs/execution.md:207-209, docs/headless.md:58-60).    *)
GatesStayClosed ==
  IsLoaded("tree") /\ loaded.thaw # None =>
    LET named(name) == {n \in InTree : IsNamed(loaded, n, name)}
        names == Range(loaded.thaw.names)
        open  == UNION {named(name) : name \in names}
    IN IF \E name \in names : Cardinality(named(name)) # 1 \/ \E n \in named(name) : GateOf(n) # n
       THEN loaded.thaw.failed \in {"name", "not a gate"}
       ELSE /\ loaded.thaw.failed = None
            /\ \A n \in InTree :
                 (IF NodeOf(n).type = "run" THEN NodeOf(n).status ELSE NodeOf(n).held)
                   = (IF GateOf(n) \in open \cup {0} THEN "waiting" ELSE "frozen")

(* The variables of a node with the mappings os, under inherited and loop.   *)
RECURSIVE VarsThrough(_, _, _)
VarsThrough(os, inherited, loop) ==
  IF os = <<>> THEN inherited
  ELSE LET outer == IF ValueIn(os[1], "inherit_vars", TRUE) THEN inherited ELSE EmptyMap
           own   == CalcVars(ValueIn(os[1], "vars", EmptyMap), ValueIn(os[1], "def_vars", EmptyMap), loop @@ outer)
       IN VarsThrough(Tail(os), own.is, EmptyMap)

(* The combinations of for_vars, the first variable the slowest: the m-th    *)
(* one has the digits of m.                                                  *)
CombinationsOf(keys, values) ==
  LET later[i \in 1..(Len(keys) + 1)] == IF i > Len(keys) THEN 1 ELSE Len(values[i]) * later[i + 1]
      Digit(m, i) == (((m - 1) \div later[i + 1]) % Len(values[i])) + 1
      IndexOf(k) == SelectInSeq(keys, LAMBDA key : key = k)
  IN [m \in 1..later[1] |-> [k \in Range(keys) |-> String(values[IndexOf(k)][Digit(m, IndexOf(k))])]]
Combinations(o, vars) ==
  LET fv == ValueIn(o, "for_vars", <<>>)
      ValuesOf(v) == IF v.name # None THEN vars[v.name].texts ELSE EvalArray(v.texts, vars).is
  IN CombinationsOf([i \in DOMAIN fv |-> fv[i].key], [i \in DOMAIN fv |-> ValuesOf(fv[i].is)])

Holds(cond, vars, k) ==
  Replaced(cond[k], vars) = (IF k \in DOMAIN vars THEN vars[k] ELSE String(<<>>)).texts[1]
StaysIn(o, vars) ==
  /\ \A k \in DOMAIN ValueIn(o, "ifeq", EmptyMap) : Holds(ValueIn(o, "ifeq", EmptyMap), vars, k)
  /\ \A k \in DOMAIN ValueIn(o, "ifneq", EmptyMap) : ~Holds(ValueIn(o, "ifneq", EmptyMap), vars, k)

(* What a node has as sub-nodes, each with its combination: what its last    *)
(* mapping includes and lists, then what the ones that it replaced list.     *)
Targets(n, i) ==
  LET source == NodeOf(n).sources[i]
      names  == ValueIn(source.raw, "include", <<>>)
  IN [j \in DOMAIN names |->
        loaded.files[IF names[j].file = None THEN source.file ELSE names[j].file][names[j].name]]
Listed(o) == ValueIn(o, "nodes", <<>>) \o ValueIn(o, "seq", <<>>) \o ValueIn(o, "par", <<>>)
ItemsOf(n, i) == (IF i = Len(Objects(n)) THEN Targets(n, i) ELSE <<>>) \o Listed(Raw(n, i))
Expanded(items, combos, vars) ==
  FlattenSeq([m \in DOMAIN combos |->
    SelectSeq([j \in DOMAIN items |-> [object |-> items[j], loop |-> combos[m]]],
              LAMBDA x : StaysIn(x.object, VarsThrough(<<x.object>>, vars, x.loop)))])
SubNodesOf(n) ==
  LET vars  == NodeOf(n).calculated.vars
      Of(i) == Expanded(ItemsOf(n, i), Combinations(Raw(n, i), vars), vars)
  IN FlattenSeq(Reverse([i \in DOMAIN Objects(n) |-> Of(i)]))

AreSubNodes(n, expected) ==
  /\ Len(NodeOf(n).nodes) = Len(expected)
  /\ \A i \in DOMAIN expected :
       LET m == NodeOf(n).nodes[i]
       IN /\ Raw(m, 1) = expected[i].object
          /\ NodeOf(m).parent = n
          /\ NodeOf(m).calculated.vars = VarsThrough(Objects(m), NodeOf(n).calculated.vars, expected[i].loop)

(* A mapping that only includes one is replaced by it, as far as there is    *)
(* one to include: no for_vars, no locks.  What it says of itself stays: its  *)
(* title, and what it provides and requires, which no node inherits from the *)
(* ones around it.                                                           *)
Single(n, i) ==
  /\ Len(ValueIn(Raw(n, i), "include", <<>>)) = 1
  /\ ValueIn(Raw(n, i), "for_vars", <<>>) = <<>>
Replaces(n) ==
  /\ \A i \in 1..(Len(Objects(n)) - 1) : Single(n, i) /\ Raw(n, i + 1) = Targets(n, i)[1]
  /\ Single(n, Len(Objects(n))) => NodeOf(n).calculated.rlocks \cup NodeOf(n).calculated.xlocks # {}
KeepsOwn(n) ==
  LET os == Objects(n)
      titled == {i \in DOMAIN os : ValueIn(os[i], "title", <<>>) # <<>>}
  IN /\ NodeOf(n).parsed["title"] =
          (IF titled = {} THEN <<>> ELSE ValueIn(os[CHOOSE i \in titled : \A j \in titled : i <= j], "title", <<>>))
     /\ NodeOf(n).calculated.provides =
          UNION {Range(ValueIn(os[i], "provides", <<>>)) : i \in DOMAIN os}
     /\ NodeOf(n).calculated.requires =
          UNION {Range(ValueIn(os[i], "requires", <<>>)) : i \in DOMAIN os}

(* The indexes are the places in the tree, parents first; an explicit id is  *)
(* the node's, and no two nodes share one.                                   *)
RECURSIVE Depth(_)
Depth(n) == IF NodeOf(n).parent = 0 THEN 0 ELSE Depth(NodeOf(n).parent) + 1
Numbered ==
  /\ FillNodeList(loaded) = PartialTree(loaded)
  /\ \A n \in InTree :
       /\ NodeOf(n).calculated.level = Depth(n)
       /\ NodeOf(n).id \in DOMAIN loaded.byId /\ loaded.byId[NodeOf(n).id] = n
       /\ Gives(Raw(n, 1), "id") => NodeOf(n).id = ValueIn(Raw(n, 1), "id", "")

(* A key of a mapping is the one written in it, else the one of the last     *)
(* mapping that its merge key names and that has it.                         *)
RECURSIVE AllKeys(_), Winner(_, _)
AllKeys(y) == Keys(y) \cup UNION {AllKeys(y.merge[i]) : i \in DOMAIN y.merge}
Winner(y, k) ==
  LET have == {i \in DOMAIN y.merge : k \in AllKeys(y.merge[i])}
  IN IF k \in Keys(y) THEN Entry(y, k) ELSE Winner(y.merge[CHOOSE i \in have : \A j \in have : j <= i], k)
ReadAsWritten ==
  \A f \in DOMAIN loaded.files : \A o \in DOMAIN loaded.files[f] :
    LET y == loaded.disk[f][o]
        raw == loaded.files[f][o]
    IN DOMAIN raw.props = AllKeys(y) /\ \A k \in AllKeys(y) : raw.props[k].at = Winner(y, k).at

(* A tree without errors is the expansion of its files: includes, for_vars   *)
(* and conditions give each node the sub-nodes and the variables that the    *)
(* files state, in their order, a mapping that is only included replaces the *)
(* node, settings come from the nearest mapping that gives them, and the     *)
(* index that the scheduler and the clients use is the place in the tree     *)
(* (LoadNode, calculate, loadFrom).                                          *)
TreeIsExpanded ==
  IsLoaded("tree") /\ loaded.thaw = None =>
    /\ ReadAsWritten
    /\ loaded.errs = <<>> =>
         /\ Numbered
         /\ \A n \in InTree : /\ SettingsInherited(n) /\ StatusInherited(n)
                              /\ Replaces(n) /\ KeepsOwn(n) /\ AreSubNodes(n, SubNodesOf(n))

-----------------------------------------------------------------------------
(* The wrong entries of a mapping: an unknown property, a value of the wrong *)
(* kind.                                                                     *)
IsMistake(e) == e.key \notin ValidNodeConfigs \/ e.is = Wrong
RECURSIVE Repaired(_)
Repaired(y) ==
  IF "args" \in DOMAIN y THEN y
  ELSE [y EXCEPT
          !.merge = [i \in DOMAIN @ |-> Repaired(@[i])],
          !.keys  = LET right == SelectSeq(@, LAMBDA e : ~IsMistake(e))
                    IN [i \in DOMAIN right |->
                          IF right[i].key \in SubNodes
                          THEN [right[i] EXCEPT !.is = [j \in DOMAIN @ |-> Repaired(@[j])]] ELSE right[i]]]
RepairedDisk == [f \in DOMAIN loaded.disk |-> [o \in DOMAIN loaded.disk[f] |-> Repaired(loaded.disk[f][o])]]

RECURSIVE Mappings(_)
Mappings(y) ==
  IF "args" \in DOMAIN y THEN {}
  ELSE {y} \cup UNION {UNION {Mappings(Entry(y, k).is[i]) : i \in DOMAIN Entry(y, k).is} : k \in Keys(y) \cap SubNodes}
MistakesOf(y) == {e \in {Winner(y, k) : k \in AllKeys(y)} : IsMistake(e)}

(* What ends the load of a mapping: a run node cannot include, and is not    *)
(* read further; a name cannot be in both kinds of locks, and a node that    *)
(* includes cannot have nodes, and none of their sub-nodes is loaded.        *)
Setting(y, k, default) == IF k \in AllKeys(y) THEN Winner(y, k).is ELSE default
RunIncludes(y) == "include" \in AllKeys(y) /\ Setting(y, "type", "") = "run"
FaultsOf(y) ==
  IF RunIncludes(y) THEN {Winner(y, "include")}
  ELSE IF Range(Setting(y, "xlocks", <<>>)) \cap Range(Setting(y, "rlocks", <<>>)) # {} THEN {Winner(y, "xlocks")}
  ELSE IF {"include", "nodes"} \subseteq AllKeys(y) THEN {Winner(y, "include")} ELSE {}
MistakesRead(y) == {e \in MistakesOf(y) : RunIncludes(y) => e.key \notin ValidNodeConfigs}

(* The lines of a file with what Of finds wrong in a mapping, and how often  *)
(* the load right, which makes no mistakes, comes to the mappings that have  *)
(* it, also to those that their conditions then leave out.                   *)
InFile(right, f, Of(_)) ==
  LET maps == UNION {Mappings(loaded.disk[f][o]) : o \in DOMAIN loaded.disk[f]}
      Come(at) == {n \in DOMAIN right.nodes :
                     /\ right.nodes[n].sources[1].file = f
                     /\ \E y \in maps : /\ y.at = right.nodes[n].sources[1].raw.at
                                        /\ \E e \in Of(y) : e.at = at}
  IN {[file |-> f, at |-> at, count |-> Cardinality(Come(at))] :
        at \in {a \in UNION {{e.at : e \in Of(y)} : y \in maps} : Come(a) # {}}}
Mistakes(right) == UNION {InFile(right, f, MistakesRead) : f \in DOMAIN right.files}
Faults(right)   == UNION {InFile(right, f, FaultsOf) : f \in DOMAIN right.files}
Place(e)    == [file |-> e.pos.file, at |-> e.pos.at, count |-> e.count]
Found(errs) == {Place(errs[i]) : i \in DOMAIN errs}

(* What is wrong without a mistake or a fault in a mapping: an object        *)
(* includes itself, a file repeats a key, an id is loaded twice.             *)
Foreseen(right, e) ==
  \/ e.message = "depth" /\ \E o \in DOMAIN loaded.disk["main"] :
       LET y == loaded.disk["main"][o]
       IN "include" \in Keys(y) /\ \E i \in DOMAIN Entry(y, "include").is : Entry(y, "include").is[i].name = o
  \/ e.message = "repeated key" /\ \E o \in DOMAIN loaded.disk[e.pos.file] : Repeated(loaded.disk[e.pos.file][o])
  \/ e.message = "duplicate" /\ \E m, n \in DOMAIN right.nodes :
       /\ m # n /\ right.nodes[m].sources[1].raw = right.nodes[n].sources[1].raw
       /\ right.nodes[m].sources[1].raw.props["id"].at = e.pos.at

AreFound(errs, right) ==
  /\ Found(errs) = Found(right.errs) \cup Mistakes(right)
  /\ Faults(right) \subseteq Found(right.errs)
  /\ \A e \in Range(right.errs) : Place(e) \in Faults(right) \/ Foreseen(right, e)
  /\ \A i, j \in DOMAIN errs : i < j /\ errs[i].pos.file = errs[j].pos.file => errs[i].pos.at < errs[j].pos.at

(* One load finds the mistakes of all that it comes to: each is reported at  *)
(* its place, once, with the number of times that the tree has it, however   *)
(* much else is wrong, in the order of the files and of the places in them;  *)
(* nothing is reported of a tree without mistakes, and nothing that only     *)
(* follows from one (Sources.report, LoadNode after an error).  It does not  *)
(* come to the sub-nodes of a node whose calculation fails or that has both  *)
(* nodes and include, and of a run node that includes only the unknown names *)
(* are reported (parser.go:141-144, 352-357, 388-391).                       *)
MistakesAreFound ==
  IsLoaded("tree") /\ loaded.thaw = None =>
    AreFound(Sorted(loaded), LoadTree(RepairedDisk, MaxDepth))

(* All errors of a file are found by one load of it (docs/tree-files.md:216, *)
(* parser.go:47-48): each mistake of the tree is reported.                   *)
AllMistakesAreFound ==
  IsLoaded("tree") =>
    \A y \in Mappings(loaded.disk["main"]["tree"]) : \A e \in MistakesOf(y) :
      \E i \in DOMAIN loaded.errs : loaded.errs[i].pos = Position("main", e.at)

(* The combinations of the node around n.                                    *)
LoopsAround(n) ==
  IF NodeOf(n).parent = 0 THEN {EmptyMap}
  ELSE LET p == NodeOf(n).parent IN Range(Combinations(Raw(p, Len(Objects(p))), NodeOf(p).calculated.vars))

(* A node that its conditions leave out is not in the tree at all            *)
(* (docs/tree-files.md:200-201): what a node of the tree has become holds    *)
(* its conditions, for a combination of its parent.                          *)
LeftOutIsNotInTree ==
  IsLoaded("tree") /\ loaded.errs = <<>> /\ loaded.thaw = None =>
    \A n \in InTree :
      LET around == IF NodeOf(n).parent = 0 THEN EmptyMap ELSE NodeOf(NodeOf(n).parent).calculated.vars
      IN \E loop \in LoopsAround(n) : StaysIn(Raw(n, Len(Objects(n))), VarsThrough(Objects(n), around, loop))
=============================================================================
