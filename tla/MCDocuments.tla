---------------------------- MODULE MCDocuments ----------------------------
(***************************************************************************)
(* Documents: a tree of two sub-nodes with two objects of its file and one  *)
(* of a library, each in some forms, with a mistake in one or two of them;  *)
(* blocks of three variables.  Lines are numbers; the texts are references  *)
(* to x, y, z and words.                                                   *)
(***************************************************************************)
EXTENDS Documents

Ref(x) == <<"{", x, "}">>
E(k, at, v) == [key |-> k, at |-> at, is |-> v]
Mapping(at, keys) == [at |-> at, merge |-> <<>>, keys |-> keys]
Same(name) == [file |-> None, name |-> name]
Lib(name)  == [file |-> "lib", name |-> name]
For(k, ts) == [key |-> k, is |-> [name |-> None, texts |-> ts]]
ForList(k, v) == [key |-> k, is |-> [name |-> v, texts |-> <<>>]]
RunArgs(at, ts) == [at |-> at, args |-> ts]
ListVar(k) == k :> List(<<<<"p">>, <<"q">>>>)

(* What is wrong: nothing, a value of the wrong kind, an unknown property,   *)
(* a repeated key, which makes the file useless.                             *)
Wrongs(at) == [none |-> <<>>, kind |-> <<E("cwd", at, Wrong)>>, name |-> <<E("unknown", at, "v")>>,
               two |-> <<E("lock", at, Wrong), E("unknown", at + 1, "v")>>,
               repeat |-> <<E("cwd", at, <<"c">>), E("cwd", at + 1, <<"d">>)>>]
Mistaken(m, where, at) == IF m.where = where \/ m.where = "all" THEN Wrongs(at)[m.what] ELSE <<>>

(* The root: what it loops over and what it has, of the sub-nodes a and b.   *)
RootForms(a, b, m) ==
  [seq   |-> <<E("seq", 11, <<a, b>>), E("max_proc", 12, "two")>>,
   loop  |-> <<E("for_vars", 11, <<For("x", <<<<"p">>, <<"q">>>>)>>), E("par", 12, <<a, b>>)>>,
   loops |-> <<E("vars", 10, ListVar("l")), E("for_vars", 11, <<ForList("x", "l"), For("y", <<Ref("z"), <<"q">>>>)>>),
               E("seq", 12, <<a>>), E("par", 13, <<b>>), E("requires", 14, <<<<"r">>>>)>>,
   empty |-> <<E("for_vars", 11, <<For("x", <<>>)>>), E("seq", 12, <<a, b>>)>>,
   lists |-> <<E("include", 11, <<Same("o"), Lib("o")>>), E("seq", 12, <<a>>)>>,
   typed |-> <<E("type", 11, "par"), E("nodes", 12, <<b, RunArgs(14, <<<<"c">>>>), a>>), E("status", 13, "frozen")>>,
   only  |-> <<E("title", 10, <<"t">>), E("include", 11, <<Same("o")>>), E("provides", 12, <<<<"r">>>>), E("requires", 13, <<<<"w">>>>)>>]
Root(form, a, b, m) == Mapping(1, RootForms(a, b, m)[form] \o Mistaken(m, "root", 16))

(* A sub-node.  What ends the load of a mapping, with a mistake in what is   *)
(* then not loaded.                                                          *)
RunKeys(at) == E("args", at, <<<<"c">>, Ref("x")>>)
Unloaded(at) == <<Mapping(at, <<E("args", at + 1, <<<<"d">>>>), E("unknown", at + 2, "v")>>)>>
SameLocks(at) == <<E("xlocks", at, <<<<"l">>>>), E("rlocks", at + 1, <<<<"l">>>>)>>
FaultyForms ==
  [runs    |-> <<E("type", 21, "run"), E("include", 22, <<Same("o")>>)>>,
   lockset |-> SameLocks(21) \o <<E("seq", 23, Unloaded(24))>>,
   listed  |-> <<E("include", 21, <<Same("o")>>), E("nodes", 22, Unloaded(24))>>]
NodeForms ==
  [run    |-> <<RunKeys(21), E("title", 22, Ref("x"))>>,
   when   |-> <<RunKeys(21), E("ifeq", 22, "x" :> <<"p">>)>>,
   unless |-> <<RunKeys(21), E("vars", 23, "z" :> String(Ref("x"))), E("ifneq", 22, "z" :> <<"q">>)>>,
   single |-> <<E("include", 21, <<Same("o")>>), E("vars", 22, "z" :> String(<<"v">>)), E("provides", 23, <<<<"r">>>>),
                E("on_error", 24, <<"paused", "skip">>), E("max_proc", 25, "one")>>,
   locked |-> <<E("include", 21, <<Same("o")>>), E("rlocks", 22, <<Ref("x")>>)>>,
   twice  |-> <<E("include", 21, <<Same("o"), Same("o")>>), E("timeout", 22, "long"), E("status", 23, "frozen")>>,
   group  |-> <<E("seq", 21, <<Mapping(26, <<RunKeys(27), E("ifneq", 28, "x" :> <<"q">>)>>), RunArgs(29, <<<<"c">>>>)>>),
                E("par", 22, <<RunArgs(25, <<<<"d">>>>)>>), E("timeout", 23, "short")>>,
   none   |-> <<E("for_vars", 21, <<For("y", <<>>)>>), E("seq", 22, <<RunArgs(25, <<Ref("y")>>)>>), E("status", 23, "frozen")>>,
   gate   |-> <<E("include", 21, <<Same("o")>>), E("status", 22, "frozen"), E("title", 23, <<"g">>)>>,
   named  |-> <<RunKeys(21), E("id", 22, "n2")>>,
   both   |-> <<E("include", 21, <<Lib("o")>>), E("seq", 22, <<RunArgs(25, <<<<"d">>>>)>>)>>] @@ FaultyForms
Node(form, m) == Mapping(20, NodeForms[form] \o Mistaken(m, "node", 31))

(* The other sub-node has a merge key, whose mapping is wrong where the node *)
(* overrides it.                                                             *)
Base == Mapping(40, <<E("timeout", 41, Wrong), E("args", 42, <<<<"a">>>>), E("max_proc", 43, "one")>>)
Base2 == Mapping(44, <<E("max_proc", 45, "three"), E("inherit_vars", 46, FALSE)>>)
Other == [at |-> 50, merge |-> <<Base, Base2>>,
          keys |-> <<E("timeout", 51, "short"), E("def_vars", 52, EmptyMap), E("ifneq", 53, "x" :> <<"p">>)>>]

(* The object that is included.                                              *)
ObjectForms ==
  [run    |-> <<E("args", 61, <<<<"o">>, Ref("z")>>), E("def_vars", 62, "z" :> String(Ref("x"))),
                E("requires", 63, <<<<"s">>>>)>>,
   loop   |-> <<E("for_vars", 61, <<For("y", <<Ref("x"), <<"q">>>>)>>), E("seq", 62, <<RunArgs(65, <<Ref("y")>>)>>),
                E("title", 63, <<"u">>)>>,
   further |-> <<E("include", 61, <<Lib("o")>>), E("timeout", 62, "long"), E("title", 63, <<"u">>)>>,
   when   |-> <<E("args", 61, <<<<"o">>>>), E("ifeq", 62, "x" :> <<"q">>)>>,
   faulty |-> SameLocks(61) \o <<E("nodes", 63, Unloaded(70))>>,
   itself |-> <<E("include", 61, <<Same("o"), Same("o")>>), E("seq", 62, <<RunArgs(65, <<Ref("y")>>)>>)>>]
Object(form, m) == Mapping(60, ObjectForms[form] \o Mistaken(m, "object", 66))
LibObject(m) == Mapping(80, <<E("par", 81, <<RunArgs(85, <<Ref("x")>>), RunArgs(86, <<<<"b">>>>)>>),
                              E("provides", 82, <<<<"s">>>>), E("vars", 83, "x" :> String(<<"{", "x", "}", "w">>))>>
                            \o Mistaken(m, "lib", 88))

MCMistakes == {[where |-> "none", what |-> "none"], [where |-> "all", what |-> "kind"], [where |-> "object", what |-> "two"],
               [where |-> "node", what |-> "name"], [where |-> "lib", what |-> "kind"],
               [where |-> "lib", what |-> "repeat"]}

(* An object with a condition does not replace a node, but in MCLeftOut, and  *)
(* an object does not replace a gate, but in MCOpenGates.                    *)
Reduced(t)   == t.root = "only" \/ t.node = "single"
MCTrees ==
  {t \in [root : DOMAIN RootForms(1, 1, 1), node : DOMAIN NodeForms, object : DOMAIN ObjectForms, mistake : MCMistakes] :
     /\ t.object = "when" => ~Reduced(t)
     /\ t.node # "gate"
     /\ t.mistake.where \in {"none", "all"} \/ t.root \in {"seq", "loop"}}
MCLeftOut ==
  [root : {"seq", "loop"}, node : DOMAIN NodeForms \ {"gate"}, object : DOMAIN ObjectForms,
   mistake : {[where |-> "none", what |-> "none"]}]
MCHidden ==
  [root : {"seq"}, node : {"run", "runs", "listed"}, object : {"run", "loop"},
   mistake : {[where |-> "none", what |-> "none"], [where |-> "node", what |-> "two"]}]
MCOpenGates ==
  [root : {"typed", "seq"}, node : {"gate", "twice", "none"}, object : {"run", "loop", "itself"},
   mistake : {[where |-> "none", what |-> "none"]}]
MCDisk(t) ==
  [f \in {"main", "lib"} |->
     IF f = "lib" THEN [o \in {"o"} |-> LibObject(t.mistake)]
     ELSE [tree |-> Root(t.root, Node(t.node, t.mistake), Other, t.mistake), o |-> Object(t.object, t.mistake)]]

(* The names given to --thaw: of one or two nodes of a tree with a gate.     *)
MCThaws(s) ==
  LET tree  == Range(PartialTree(s))
      names == [by : {"id"}, of : tree] \cup [by : {"title"}, of : {n \in tree : s.nodes[n].parsed["title"] # <<>>}] \cup
               [by : {"unknown"}, of : {1}]
  IN IF \A n \in tree : ~s.nodes[n].frozenInFile THEN {} ELSE {<<a>> : a \in names} \cup (names \X names)

(* The variables: what x, y and z of the node are, of its defaults and of    *)
(* what it inherits.                                                         *)
Shapes == <<String(<<"v">>), String(<<"{", "y", "}", "w">>), String(<<"{", "{", "x", "}", "}">>),
            String(<<"$", "{", "z", "}">>), String(<<"raw{", "x", "}">>), List(<<Ref("z"), <<"a", "{", "y", "}">>>>),
            String(<<"{", "u", "}">>)>>
Absent == Len(Shapes) + 1
OfShapes(f) == [k \in {n \in DOMAIN f : f[n] # Absent} |-> Shapes[f[k]]]
MCVarChoices ==
  [vars : [{"x", "y", "z"} -> {2, 3, 4, 6, 7, Absent}], defs : [{"x", "y"} -> {2, 5, Absent}],
   inherited : [{"x", "z"} -> {3, 6, Absent}]]
MCNone == {}
MCBlock(v) == [vars |-> OfShapes(v.vars), defVars |-> OfShapes(v.defs), inherited |-> OfShapes(v.inherited)]

DocSpec == DocInit /\ [][DocNext]_docVars
=============================================================================
