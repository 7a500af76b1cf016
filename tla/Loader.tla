------------------------------- MODULE Loader -------------------------------
(***************************************************************************)
(* How a tree is loaded from its files (LoadNode of internal/rt/parser.go,  *)
(* calculate of vars.go, loadFrom of node.go, LoadTree of tree.go).  The    *)
(* state of the load is a record: the sources, the nodes by their handles   *)
(* (a node that is left out has one too), the ids, the next index.  A call  *)
(* c of LoadNode has the mapping raw of the file, the parent (0: none), the *)
(* depth that is left, the for_vars combination loop, and into: the mapping *)
(* replaces its parent, which only includes it.                            *)
(***************************************************************************)
EXTENDS Sources

ValidIdsNot  == {"1x"}    \* stands for what idRe does not match
BadAddress   == <<"bad">> \* stands for what runner.ParseAddress rejects
LocalAddress == <<"local">>

TextProps == {"title", "description", "cwd", "runner"}
MapProps  == {"vars", "def_vars", "ifeq", "ifneq", "envs"}
ListProps == {"xlocks", "rlocks", "provides", "requires", "args", "args_prefix"}
FlagProps == {"inherit_vars", "inherit_envs", "system_envs", "expanded", "expand_on_active", "collapse_on_finished"}
Settings  == {"max_proc", "success_exit_codes", "timeout"}
ValidNodeConfigs == TextProps \cup MapProps \cup ListProps \cup FlagProps \cup Settings \cup SubNodes \cup
                    {"id", "type", "lock", "status", "on_error", "children_on_error", "include", "for_vars"}

Has(c, p)     == p \in DOMAIN c.raw.props
ValueOf(c, p) == c.raw.props[p].is
At(c, p)      == Position(c.file, IF Has(c, p) THEN c.raw.props[p].at ELSE c.raw.at)

(* getStringDef, getBoolDef, getIntDef and the others: the default when the  *)
(* property is not given, the zero value when it has the wrong kind, which   *)
(* is reported.                                                              *)
Get(c, p, default, zero) ==
  IF ~Has(c, p) THEN default ELSE IF ValueOf(c, p) = Wrong THEN zero ELSE ValueOf(c, p)
IsWrong(c, p) == Has(c, p) /\ ValueOf(c, p) = Wrong

ReportAt(s, c, p, message) == Report(s, At(c, p), message)
ReportAll(s, c, errs) == FoldLeft(LAMBDA t, e : ReportAt(t, c, e[1], e[2]), s, SetToSeq(errs))
Nothing(s) == [s EXCEPT !.ret = 0]
Parent(s, c) == s.nodes[c.parent]

(* on_error: a status and/or an operation.                                   *)
DefaultOnError == [status |-> "failed", siblings |-> "none"]
StatusWords    == {"failed", "paused", "success"}
OpWords        == {"none", "skip", "freeze"}
Words(v, kind) == SelectSeq(v, LAMBDA w : w \in kind)
ValidOnError(v) == /\ Range(v) \subseteq StatusWords \cup OpWords
                   /\ Len(Words(v, StatusWords)) <= 1 /\ Len(Words(v, OpWords)) <= 1
FirstWord(ws, default) == IF ws = <<>> THEN default ELSE ws[1]
ParseOnError(c, p, inherited) ==
  LET v == Get(c, p, <<>>, <<"wrong">>)
  IN IF ~Has(c, p) THEN inherited
     ELSE IF ~ValidOnError(v) THEN DefaultOnError
     ELSE [status   |-> FirstWord(Words(v, StatusWords), DefaultOnError.status),
           siblings |-> FirstWord(Words(v, OpWords), DefaultOnError.siblings)]

(* The type of a node: its own, or what its sub-nodes tell.                  *)
TypeOf(c) ==
  CASE Has(c, "type") -> IF ValueOf(c, "type") \in {"run", "seq", "par"} THEN ValueOf(c, "type") ELSE "run"
    [] ~Has(c, "type") /\ (Has(c, "include") \/ Has(c, "seq")) -> "seq"
    [] ~Has(c, "type") /\ ~Has(c, "include") /\ ~Has(c, "seq") /\ Has(c, "par") -> "par"
    [] OTHER -> "run"

NotCalculated == [idx |-> 0, level |-> 0, vars |-> EmptyMap, varSources |-> EmptyMap, title |-> <<>>,
                  description |-> <<>>, envs |-> EmptyMap, argsPrefix |-> None, args |-> None, cwd |-> <<>>,
                  runner |-> <<>>, xlocks |-> {}, rlocks |-> {}, provides |-> {}, requires |-> {}]
DefaultSettings == [p \in Settings |-> "default"]
DefaultFlags == [p \in FlagProps |-> p # "expanded"]

(* The values that are substituted, as they are read; the others with what   *)
(* they inherit from the parent.                                             *)
ReadParsed(c) ==
  [p \in TextProps |-> Get(c, p, <<>>, <<>>)] @@ [p \in MapProps |-> Get(c, p, EmptyMap, EmptyMap)] @@
  [p \in ListProps |-> Get(c, p, None, None)] @@ ("loopVars" :> c.loop)

ReadStatus(s, c) ==
  LET v == Get(c, "status", IF c.parent = 0 THEN "waiting" ELSE Parent(s, c).status, "wrong")
  IN IF v \in {"waiting", "frozen"} THEN v ELSE "waiting"

NewNode(s, c) ==
  LET child    == c.parent # 0
      onError  == ParseOnError(c, "on_error", IF child THEN Parent(s, c).childrenOnError ELSE DefaultOnError)
      settings == IF child THEN Parent(s, c).settings ELSE DefaultSettings
      status   == ReadStatus(s, c)
  IN [parent |-> c.parent, id |-> "", generatedId |-> FALSE, type |-> TypeOf(c),
      sources |-> <<[file |-> c.file, raw |-> c.raw]>>, nodes |-> <<>>, calculated |-> NotCalculated,
      lock |-> IF child THEN <<>> ELSE Get(c, "lock", <<>>, <<>>),
      parsed |-> ReadParsed(c),
      flags |-> [p \in FlagProps |-> Get(c, p, DefaultFlags[p], FALSE)],
      settings |-> [p \in Settings |-> Get(c, p, settings[p], "zero")],
      onError |-> onError,
      childrenOnError |-> ParseOnError(c, "children_on_error", onError),
      status |-> status,
      frozenInFile |-> status = "frozen",
      frozenGate |-> status = "frozen" /\ Has(c, "status"),
      held |-> IF status = "frozen" /\ TypeOf(c) # "run" THEN "frozen" ELSE "waiting"]

(* What is reported before and while the properties are read: unknown names  *)
(* and a wrong type; then wrong values, a lock that is not of the root,      *)
(* variables in vars and def_vars.                                           *)
WrongValue(c, p) ==
  /\ Has(c, p)
  /\ p = "lock" => c.parent = 0
  /\ \/ p \notin SubNodes \cup {"include", "for_vars"} /\ IsWrong(c, p)
     \/ p = "type" /\ ValueOf(c, p) \notin {"run", "seq", "par"}
     \/ p \in {"on_error", "children_on_error"} /\ ~ValidOnError(Get(c, p, <<>>, <<"wrong">>))
VarsOf(c, p) == DOMAIN Get(c, p, EmptyMap, EmptyMap)
TypeErrors(c) ==
  {<<p, "unknown">> : p \in DOMAIN c.raw.props \ ValidNodeConfigs} \cup
  {<<p, "wrong">> : p \in {q \in {"type"} : WrongValue(c, q)}}
PropertyErrors(c) ==
  {<<p, "wrong">> : p \in {q \in ValidNodeConfigs \ {"type"} : WrongValue(c, q)}} \cup
  {<<p, "not waiting or frozen">> : p \in {q \in {"status"} : Get(c, q, "waiting", "") \notin {"waiting", "frozen"}}} \cup
  {<<p, "not the root">> : p \in {q \in {"lock"} : Has(c, q) /\ c.parent # 0}} \cup
  {<<p, "inherit_vars">> : p \in {q \in {"def_vars"} : VarsOf(c, q) # {} /\ ~Get(c, "inherit_vars", TRUE, FALSE)}} \cup
  {<<"def_vars", k>> : k \in VarsOf(c, "vars") \cap VarsOf(c, "def_vars")}

(* newId, addNodeById: a node with a generated id gives it up for one that   *)
(* has it explicitly.                                                        *)
GeneratedId(k) == "n" \o ToString(k)
NextId(s) ==
  LET free == {k \in (s.lastId + 1)..(s.lastId + Cardinality(DOMAIN s.byId) + 1) : GeneratedId(k) \notin DOMAIN s.byId}
  IN CHOOSE k \in free : \A l \in free : k <= l
Registered(s, id, h) == [s EXCEPT !.byId = id :> h @@ @, !.nodes[h].id = id]
Generated(s, h) ==
  [Registered(s, GeneratedId(NextId(s)), h) EXCEPT !.lastId = NextId(s), !.nodes[h].generatedId = TRUE]
Identify(s, c, h) ==
  LET id == Get(c, "id", "", "")
  IN IF id = "" THEN Generated(s, h)
     ELSE IF id \in ValidIdsNot THEN Generated(ReportAt(s, c, "id", "invalid"), h)
     ELSE IF id \notin DOMAIN s.byId THEN Registered(s, id, h)
     ELSE IF s.nodes[s.byId[id]].generatedId THEN Registered(Generated(s, s.byId[id]), id, h)
     ELSE Generated(ReportAt(s, c, "id", "duplicate"), h)

-----------------------------------------------------------------------------
(* calculate: what the node inherits from the parent p, its variables and    *)
(* conditions, then all texts with the variables, up to the first fault.     *)
InheritedVars(n, p) ==
  n.parsed["loopVars"] @@ (IF n.parent # 0 /\ n.flags["inherit_vars"] THEN p.calculated.vars ELSE EmptyMap)
VarSource(n, h, p, k) ==
  CASE k \in DOMAIN n.parsed["vars"] -> [node |-> h, prop |-> "vars"]
    [] k \notin DOMAIN n.parsed["vars"] /\ k \in DOMAIN n.parsed["loopVars"] -> [node |-> n.parent, prop |-> "for_vars"]
    [] k \notin DOMAIN n.parsed["vars"] \cup DOMAIN n.parsed["loopVars"] /\ k \in DOMAIN InheritedVars(n, p) ->
         p.calculated.varSources[k]
    [] OTHER -> [node |-> h, prop |-> "def_vars"]

Differs(vars, cond, k) == (IF k \in DOMAIN vars THEN vars[k] ELSE String(<<>>)) # String(cond[k])
LeftOut(vars, ifeq, ifneq) ==
  (\E k \in DOMAIN ifeq : Differs(vars, ifeq, k)) \/ (\E k \in DOMAIN ifneq : ~Differs(vars, ifneq, k))

Texts(parsed, p)   == IF parsed[p] = None THEN <<>> ELSE parsed[p]
UndefinedIn(ts, names) == UNION {Undefined(ts[i], names) : i \in DOMAIN ts}
MapTexts(m)        == SetToSeq({m[k] : k \in DOMAIN m})

CheckCWD(t)     == IF t # <<>> /\ t[1] = "~" THEN "home" ELSE NoFault
ParseAddress(t) == IF t = BadAddress THEN "address" ELSE NoFault
CheckLockKinds(xlocks, rlocks) == IF xlocks \cap rlocks # {} THEN "both locks" ELSE NoFault
Then(r, fault)  == [r EXCEPT !.fault = IF @ = NoFault THEN fault ELSE @]
Given(fault, v) == [fault |-> fault, is |-> v]

(* The values of the node n with the variables vars, each [fault, is].       *)
Evaluated(n, p, vars) ==
  LET d          == n.parsed
      child      == n.parent # 0
      TextOf(q)  == Eval(d[q], vars)
      ArrayOf(q) == EvalArray(Texts(d, q), vars)
      Runner(r)  == Then([r EXCEPT !.is = IF @ = <<>> THEN LocalAddress ELSE @], ParseAddress(r.is))
      Directory(t) == Then(t, CheckCWD(t.is))
  IN [ifeq  |-> CalcMapValues(d["ifeq"], vars),
      ifneq |-> CalcMapValues(d["ifneq"], vars),
      envs  |-> CalcEnvs(d["envs"], vars, IF child /\ n.flags["inherit_envs"] THEN p.calculated.envs ELSE EmptyMap),
      args_prefix |-> IF d["args_prefix"] # None THEN ArrayOf("args_prefix")
                      ELSE Given(NoFault, IF child /\ p.calculated.argsPrefix # None THEN p.calculated.argsPrefix ELSE <<>>),
      cwd    |-> IF child /\ d["cwd"] = <<>> THEN Given(NoFault, p.calculated.cwd) ELSE Directory(TextOf("cwd")),
      runner |-> IF child /\ d["runner"] = <<>> THEN Given(NoFault, p.calculated.runner) ELSE Runner(TextOf("runner")),
      rlocks |-> IF child /\ d["rlocks"] = None THEN Given(NoFault, SetToSeq(p.calculated.rlocks)) ELSE ArrayOf("rlocks")]
     @@ [q \in {"title", "description"} |-> TextOf(q)] @@ [q \in {"args", "xlocks", "provides", "requires"} |-> ArrayOf(q)]

(* The first error, in the order of calculate: variables, conditions, texts. *)
NoError == [prop |-> "", fault |-> NoFault]
FirstError(r, order) ==
  LET i == SelectInSeq(order, LAMBDA q : r[q].fault # NoFault)
  IN IF i = 0 THEN NoError ELSE [prop |-> order[i], fault |-> r[order[i]].fault]
FirstOf(e, f) == IF e.fault # NoFault THEN e ELSE f
BothLocks(r) == [prop |-> "xlocks", fault |-> CheckLockKinds(Range(r.xlocks.is), Range(r.rlocks.is))]
TextError(r) ==
  FirstOf(FirstError(r, <<"title", "description", "envs", "args_prefix", "args", "cwd", "runner", "xlocks", "rlocks">>),
          FirstOf(BothLocks(r), FirstError(r, <<"provides", "requires">>)))

(* The references to undefined variables; of a node that is left out only    *)
(* those of its conditions are reported.                                     *)
UndefinedTexts(n, p, vs) ==
  LET d     == n.parsed
      names == DOMAIN vs.is
      known == names \cup (IF n.parent # 0 /\ n.flags["inherit_envs"] THEN DOMAIN p.calculated.envs ELSE {})
  IN {<<"vars", u>> : u \in vs.undefined.vars} \cup {<<"def_vars", u>> : u \in vs.undefined.def_vars} \cup
     {<<"envs", u>> : u \in UndefinedIn(MapTexts(d["envs"]), known)} \cup
     UNION {{<<q, u>> : u \in Undefined(d[q], names)} : q \in TextProps} \cup
     UNION {{<<q, u>> : u \in UndefinedIn(Texts(d, q), names)} : q \in ListProps}
UndefinedConditions(n, vars) ==
  UNION {{<<q, u>> : u \in UndefinedIn(MapTexts(n.parsed[q]), DOMAIN vars)} : q \in {"ifeq", "ifneq"}}

(* error is the one of the variables or the conditions: without it the node  *)
(* is left out, or counted.                                                  *)
CalculatedFrom(s, h, p, vs, r, error) ==
  LET n       == s.nodes[h]
      leftOut == error = NoError /\ LeftOut(vs.is, r.ifeq.is, r.ifneq.is)
  IN [fault |-> IF leftOut THEN NoError ELSE FirstOf(error, TextError(r)),
      leftOut |-> leftOut, counted |-> error = NoError /\ ~leftOut,
      undefined |-> UndefinedConditions(n, vs.is) \cup (IF leftOut THEN {} ELSE UndefinedTexts(n, p, vs)),
      is |-> [idx |-> s.idx, level |-> IF n.parent # 0 THEN p.calculated.level + 1 ELSE 0,
              vars |-> vs.is, varSources |-> [k \in DOMAIN vs.is |-> VarSource(n, h, p, k)],
              title |-> r.title.is, description |-> r.description.is, envs |-> r.envs.is, argsPrefix |-> r.args_prefix.is,
              args |-> IF n.parsed["args"] = None THEN None ELSE r.args_prefix.is \o r.args.is,
              cwd |-> r.cwd.is, runner |-> r.runner.is, xlocks |-> Range(r.xlocks.is), rlocks |-> Range(r.rlocks.is),
              provides |-> Range(r.provides.is), requires |-> Range(r.requires.is)]]
CalculateTexts(s, h, p, vs, r) ==
  CalculatedFrom(s, h, p, vs, r,
                 FirstOf([prop |-> IF vs.fault = NoFault THEN "" ELSE vs.prop, fault |-> vs.fault],
                         FirstError(r, <<"ifeq", "ifneq">>)))
Calculate(s, h) ==
  LET n  == s.nodes[h]
      p  == IF n.parent # 0 THEN s.nodes[n.parent] ELSE n
      vs == CalcVars(n.parsed["vars"], n.parsed["def_vars"], InheritedVars(n, p))
  IN CalculateTexts(s, h, p, vs, Evaluated(n, p, vs.is))

-----------------------------------------------------------------------------
(* loadFrom and keepOwn: node h, whose mapping replaces its parent, is       *)
(* loaded into it; the parent keeps its title, description, and what it      *)
(* provides and requires.                                                    *)
Kept(own, object, p) == IF own.parsed[p] # <<>> THEN own ELSE object
Appended(own, object, p) == IF Texts(own, p) = <<>> THEN object[p] ELSE own[p] \o Texts(object, p)
LoadFrom(own, n, h) ==
  LET title == Kept(own, n, "title")
      description == Kept(own, n, "description")
  IN [n EXCEPT
        !.parent = own.parent, !.id = own.id, !.generatedId = own.generatedId, !.nodes = own.nodes, !.lock = own.lock,
        !.sources = own.sources \o @,
        !.parsed = ("title" :> title.parsed["title"]) @@ ("description" :> description.parsed["description"]) @@
                   ("provides" :> Appended(own.parsed, @, "provides")) @@
                   ("requires" :> Appended(own.parsed, @, "requires")) @@ @,
        !.calculated = [@ EXCEPT
           !.idx = own.calculated.idx, !.level = own.calculated.level,
           !.title = title.calculated.title, !.description = description.calculated.description,
           !.provides = @ \cup own.calculated.provides, !.requires = @ \cup own.calculated.requires,
           !.varSources = [k \in DOMAIN @ |-> IF @[k].node = h THEN [@[k] EXCEPT !.node = n.parent] ELSE @[k]]]]

LoadInto(s, c, h) ==
  [s EXCEPT !.nodes[c.parent] = LoadFrom(Parent(s, c), s.nodes[h], h),
            !.idx = @ - 1,
            !.byId = [k \in DOMAIN @ \ {s.nodes[h].id} |-> @[k]]]

(* caclForVars, forVarsKeys: for_vars is [fault, undefined, is], is a        *)
(* sequence of [key, is] in the order of the file.  Warnings beside a fault  *)
(* are left out.                                                            *)
ForVars(s, c, n) ==
  LET vars  == s.nodes[n].calculated.vars
      given == ValueOf(c, "for_vars")
      Items(e) ==
        IF e.is = Wrong THEN Given("for_vars", <<>>)
        ELSE IF e.is.name # None
             THEN IF e.is.name \in DOMAIN vars /\ vars[e.is.name].list
                  THEN Given(NoFault, vars[e.is.name].texts) ELSE Given("for_vars", <<>>)
             ELSE IF Wrong \in Range(e.is.texts) THEN Given("for_vars", <<>>) ELSE EvalArray(e.is.texts, vars)
  IN IF ~Has(c, "for_vars") THEN [fault |-> NoFault, undefined |-> {}, is |-> <<>>]
     ELSE IF s.nodes[n].type = "run" \/ given = Wrong THEN [fault |-> "for_vars", undefined |-> {}, is |-> <<>>]
     ELSE IF \E i \in DOMAIN given : Items(given[i]).fault # NoFault
          THEN [fault |-> "for_vars", undefined |-> {}, is |-> <<>>]
     ELSE [fault |-> NoFault,
           undefined |-> {<<"for_vars", u>> : u \in UNION {UndefinedIn(given[i].is.texts, DOMAIN vars) : i \in DOMAIN given}},
           is |-> [i \in DOMAIN given |-> [key |-> given[i].key, is |-> Items(given[i]).is]]]

WarnUndefined(s, c, refs) ==
  FoldLeft(LAMBDA t, r : Warn(t, At(c, r[1]), r[2]), s, SetToSeq(refs))

(* SelfCheck, of what the load did not report an error of.                   *)
SelfCheck(s, c, n, before) ==
  IF s.reported = before /\ s.nodes[n].type = "run" /\ Texts(s.nodes[n].parsed, "args") = <<>>
  THEN ReportAt(s, c, "args", "missing") ELSE s

CanReduce(s, n, names, preventReduce) ==
  ~preventReduce /\ Len(names) = 1 /\ s.nodes[n].calculated.rlocks = {} /\ s.nodes[n].calculated.xlocks = {}

(* The combination of for_vars after indices, like an odometer, or none.     *)
(* Mistake in Odometer: the first variable changes the fastest.              *)
OdometerFirst(indices, lens) ==
  LET can == {i \in DOMAIN indices : indices[i] < lens[i]}
      i   == CHOOSE j \in can : \A l \in can : l >= j
  IN IF can = {} THEN <<>>
     ELSE [j \in DOMAIN indices |-> IF j > i THEN indices[j] ELSE IF j = i THEN indices[j] + 1 ELSE 1]
Odometer(indices, lens) ==
  LET can == {i \in DOMAIN indices : indices[i] < lens[i]}
      i   == CHOOSE j \in can : \A l \in can : l <= j
  IN IF can = {} THEN <<>>
     ELSE [j \in DOMAIN indices |-> IF j < i THEN indices[j] ELSE IF j = i THEN indices[j] + 1 ELSE 1]

RECURSIVE LoadNode(_, _), Combine(_, _, _, _, _)

(* loadSubNodes: what is loaded and not left out becomes a sub-node.         *)
AddNode(s, n) == IF s.ret = 0 THEN s ELSE [s EXCEPT !.nodes[n].nodes = Append(@, s.ret)]
Call(c, file, raw, n, into, loop) ==
  [file |-> file, raw |-> raw, parent |-> n, into |-> into, depth |-> c.depth - 1, loop |-> loop]
LoadSubNodes(s, c, n, key, loop) ==
  IF ~Has(c, key) THEN s
  ELSE IF IsWrong(c, key) THEN ReportAt(s, c, key, "wrong")
  ELSE FoldLeft(LAMBDA t, raw : IF raw = Wrong THEN ReportAt(t, c, key, "item")
                                ELSE AddNode(LoadNode(t, Call(c, c.file, raw, n, FALSE, loop)), n),
                s, ValueOf(c, key))

(* includeSubNodes: a name is [file, name], file the same (None) or another. *)
IncludeTarget(c, name) == IF name.file = None THEN c.file ELSE name.file
Include(s, c, n, name, names, loop, preventReduce) ==
  LET file == IncludeTarget(c, name)
      s1   == AddFile(s, s.disk, file)
      into == CanReduce(s, n, names, preventReduce)
      pos  == At(c, "include")
  IN IF ~s1.added
     THEN IF file \in DOMAIN s.disk THEN PopInclude(Report(PushInclude(s1, pos), Position(file, 1), "repeated key"))
          ELSE ReportAt(s1, c, "include", "not found")
     ELSE IF name.name \notin DOMAIN s1.files[file] THEN ReportAt(s1, c, "include", "no such object")
     ELSE LET s2 == PopInclude(LoadNode(PushInclude(s1, pos),
                                        Call(c, file, s1.files[file][name.name], n, into, loop)))
          IN IF into THEN s2 ELSE AddNode(s2, n)
IncludeSubNodes(s, c, n, loop, preventReduce) ==
  LET names == ValueOf(c, "include")
  IN IF ~Has(c, "include") THEN s
     ELSE IF IsWrong(c, "include") \/ Wrong \in Range(names) THEN ReportAt(s, c, "include", "wrong")
     ELSE FoldLeft(LAMBDA t, name : Include(t, c, n, name, names, loop, preventReduce), s, names)

(* The sub-nodes for one combination, then for the next one.                 *)
OfType(s, c, n, key) == IF Has(c, key) THEN [s EXCEPT !.nodes[n].type = key] ELSE s
LoadCombination(s, c, n, loop, preventReduce) ==
  LET included == IncludeSubNodes(s, c, n, loop, preventReduce)
      nodes    == LoadSubNodes(included, c, n, "nodes", loop)
      seq      == LoadSubNodes(OfType(nodes, c, n, "seq"), c, n, "seq", loop)
  IN LoadSubNodes(OfType(seq, c, n, "par"), c, n, "par", loop)
CombineNext(s, c, n, values, indices) == IF indices = <<>> THEN s ELSE Combine(s, c, n, values, indices)
Combine(s, c, n, values, indices) ==
  LET Item(k) == CHOOSE i \in DOMAIN values : values[i].key = k
      loop    == [k \in {values[i].key : i \in DOMAIN values} |-> String(values[Item(k)].is[indices[Item(k)]])]
      next    == Odometer(indices, [i \in DOMAIN values |-> Len(values[i].is)])
  IN CombineNext(LoadCombination(s, c, n, loop, values # <<>>), c, n, values, next)

LoadCombinations(s, c, n, values) ==
  LET empty == {i \in DOMAIN values : values[i].is = <<>>}
  IN IF empty = {} THEN Combine(s, c, n, values, [i \in DOMAIN values |-> 1])
     ELSE FoldLeft(LAMBDA t, i : Warn(t, At(c, "for_vars"), values[i].key), s, SetToSeq(empty))
LoadForVars(s, c, n, values) ==
  LET s1 == IF values.fault = NoFault THEN s ELSE ReportAt(s, c, "for_vars", values.fault)
  IN LoadCombinations(WarnUndefined(s1, c, values.undefined), c, n, values.is)
LoadChildren(s, c, n, before) ==
  IF Has(c, "include") /\ Has(c, "nodes")
  THEN [ReportAt(s, c, "include", "nodes and include") EXCEPT !.ret = n]
  ELSE [SelfCheck(LoadForVars(s, c, n, ForVars(s, c, n)), c, n, before) EXCEPT !.ret = n]

(* LoadNode: a node that is left out is none, except one that replaces its   *)
(* parent.                                                                   *)
LoadCalculated(s, c, h, before, r) ==
  LET s1 == [s EXCEPT !.idx = @ + (IF r.counted THEN 1 ELSE 0)]
      s2 == WarnUndefined(IF r.leftOut THEN s1 ELSE [s1 EXCEPT !.nodes[h].calculated = r.is], c, r.undefined)
  IN IF r.fault.fault # NoFault THEN Nothing(ReportAt(s1, c, r.fault.prop, r.fault.fault))
     ELSE IF r.leftOut /\ ~c.into THEN Nothing(s2)
     ELSE LoadChildren(IF c.into THEN LoadInto(s2, c, h) ELSE s2, c, IF c.into THEN c.parent ELSE h, before)
LoadIdentified(s, c, h, before) == LoadCalculated(s, c, h, before, Calculate(s, h))
LoadProperties(s, c, h, before) ==
  LoadIdentified(Identify(ReportAll(s, c, PropertyErrors(c)), c, h), c, h, before)
LoadNode(s, c) ==
  LET h  == Len(s.nodes) + 1
      s1 == [ReportAll(s, c, TypeErrors(c)) EXCEPT !.nodes = Append(@, NewNode(s, c))]
  IN IF c.depth = 0 THEN Nothing(Report(s, Position(c.file, c.raw.at), "depth"))
     ELSE IF Has(c, "include") /\ TypeOf(c) = "run" THEN Nothing(ReportAt(s1, c, "include", "run includes"))
     ELSE LoadProperties(s1, c, h, s.reported)

-----------------------------------------------------------------------------
(* loadTree: of the object "tree" of the file, LoadTree's list of the nodes  *)
(* by their index, and LoadPartialTree's in the order of the tree.           *)
NewTree(disk) == [disk |-> disk, nodes |-> <<>>, byId |-> EmptyMap, lastId |-> 0, idx |-> 0, ret |-> 0,
                 thaw |-> None] @@ NewSources
LoadTree(disk, maxDepth) ==
  LET s == AddFile(NewTree(disk), disk, "main")
      Root == [file |-> "main", raw |-> s.files["main"]["tree"], parent |-> 0, into |-> FALSE,
               depth |-> maxDepth, loop |-> EmptyMap]
  IN IF ~s.added THEN Nothing(Report(s, Position("main", 1), "repeated key"))
     ELSE IF "tree" \notin DOMAIN s.files["main"] THEN Nothing(Report(s, Position("main", 0), "no tree"))
     ELSE LoadNode(s, Root)

RECURSIVE Walk(_, _)
Walk(s, n) == <<n>> \o FlattenSeq([i \in DOMAIN s.nodes[n].nodes |-> Walk(s, s.nodes[n].nodes[i])])
PartialTree(s) == IF s.nodes = <<>> THEN <<>> ELSE Walk(s, 1)
FillNodeList(s) ==
  [i \in 1..s.idx |->
     LET of == {n \in Range(PartialTree(s)) : s.nodes[n].calculated.idx = i - 1}
     IN IF of = {} THEN None ELSE CHOOSE n \in of : \A m \in of : m <= n]
=============================================================================
