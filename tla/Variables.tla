----------------------------- MODULE Variables -----------------------------
(***************************************************************************)
(* The variables of tree files (internal/rt/vars.go).  A text is the       *)
(* sequence of its tokens: "{", "}", "$", the "{" of a text tagged !raw     *)
(* ("raw{") and words.  A variable is a text or a list: [list, texts].     *)
(***************************************************************************)
EXTENDS Naturals, Sequences, SequencesExt, FiniteSets, TLC, Relation

NoFault == "none"
EmptyMap == [k \in {} |-> {}]
String(t) == [list |-> FALSE, texts |-> <<t>>]
List(ts)  == [list |-> TRUE, texts |-> ts]

IsVarName(t) == Len(t) = 1 /\ t[1] \notin {"{", "}", "$", "~", "raw{"}

Unraw(t) == [i \in DOMAIN t |-> IF t[i] = "raw{" THEN "{" ELSE t[i]]

(* varEvalLookup, its scan: the text in parts, each a token or a reference   *)
(* to one of names.  A reference ends at the next "}"; what is none stays,   *)
(* and the scan goes on behind its "{".                                      *)
Token(x)     == [ref |-> FALSE, is |-> x]
Reference(x) == [ref |-> TRUE, is |-> x]
EndOf(t, p)  == IF \E q \in p..Len(t) : t[q] = "}"
                THEN CHOOSE q \in p..Len(t) : t[q] = "}" /\ \A r \in p..(q - 1) : t[r] # "}" ELSE 0
NameAt(t, p) == IF t[p] = "{" THEN SubSeq(t, p + 1, EndOf(t, p) - 1) ELSE <<>>
IsReference(t, p, names) == IsVarName(NameAt(t, p)) /\ NameAt(t, p)[1] \in names

(* Mistake in Parts: the scan goes on behind the "}" of what is no reference. *)
PartsSkip(t, names) ==
  LET from[p \in 1..(Len(t) + 1)] ==
        IF p > Len(t) THEN <<>>
        ELSE IF IsReference(t, p, names) THEN <<Reference(t[p + 1])>> \o from[p + 3]
        ELSE IF t[p] = "{" /\ EndOf(t, p) # 0
             THEN [i \in 1..(EndOf(t, p) - p + 1) |-> Token(t[p + i - 1])] \o from[EndOf(t, p) + 1]
        ELSE <<Token(t[p])>> \o from[p + 1]
  IN from[1]
Parts(t, names) ==
  LET from[p \in 1..(Len(t) + 1)] ==
        IF p > Len(t) THEN <<>>
        ELSE IF IsReference(t, p, names) THEN <<Reference(t[p + 1])>> \o from[p + 3]
        ELSE <<Token(t[p])>> \o from[p + 1]
  IN from[1]

(* What is reported as undefined: the names between braces that are no       *)
(* variables, unless a "$" is before them.                                   *)
Undefined(t, names) ==
  {NameAt(t, p)[1] : p \in {q \in DOMAIN t : /\ IsVarName(NameAt(t, q)) /\ NameAt(t, q)[1] \notin names
                                             /\ (q = 1 \/ t[q - 1] # "$")}}

(* The text with the values of its references: Value(name) is [fault, is].   *)
Joined(values) ==
  LET f == SelectInSeq(values, LAMBDA v : v.fault # NoFault \/ v.is.list)
  IN IF f # 0 THEN [fault |-> IF values[f].fault # NoFault THEN values[f].fault ELSE "list", is |-> <<>>]
     ELSE [fault |-> NoFault, is |-> Unraw(FlattenSeq([i \in DOMAIN values |-> values[i].is.texts[1]]))]
VarEval(t, names, Value(_)) ==
  LET ValueOfPart(part) == IF part.ref THEN Value(part.is) ELSE [fault |-> NoFault, is |-> String(<<part.is>>)]
      parts == Parts(t, names)
  IN Joined([i \in DOMAIN parts |-> ValueOfPart(parts[i])])

(* A text, a sequence of texts, with the variables vars.                     *)
Known(vars, k) == [fault |-> NoFault, is |-> vars[k]]
Eval(t, vars)  == VarEval(t, DOMAIN vars, LAMBDA k : Known(vars, k))
FirstFault(results) == SelectInSeq(results, LAMBDA r : r.fault # NoFault)
EvalArray(ts, vars) ==
  LET each == [i \in DOMAIN ts |-> Eval(ts[i], vars)]
      f    == FirstFault(each)
  IN [fault |-> IF f = 0 THEN NoFault ELSE each[f].fault, is |-> [i \in DOMAIN ts |-> each[i].is]]

(* calcBlock: the value of k in the block; resolving are the variables that  *)
(* are being calculated.  In its own value a variable is the one of base.    *)
BlockNames(k, block, base) == (DOMAIN block \ {k}) \cup DOMAIN base
RECURSIVE Resolve(_, _, _, _)
Resolve(k, resolving, block, base) ==
  LET Lookup(n) == IF n \in DOMAIN block /\ n # k THEN Resolve(n, resolving \cup {k}, block, base)
                   ELSE Known(base, n)
      each == [i \in DOMAIN block[k].texts |->
                 VarEval(block[k].texts[i], BlockNames(k, block, base), Lookup)]
      f    == FirstFault(each)
  IN IF k \in resolving THEN [fault |-> "cycle", is |-> block[k]]
     ELSE [fault |-> IF f = 0 THEN NoFault ELSE each[f].fault,
           is |-> [block[k] EXCEPT !.texts = [i \in DOMAIN @ |-> each[i].is]]]

CalcBlock(block, base) == [k \in DOMAIN block |-> Resolve(k, {}, block, base)]

BlockFault(results) ==
  IF \E k \in DOMAIN results : results[k].fault # NoFault
  THEN results[CHOOSE k \in DOMAIN results : results[k].fault # NoFault].fault ELSE NoFault
Values(results) == [k \in DOMAIN results |-> results[k].is]
BlockUndefined(block, base) ==
  UNION {UNION {Undefined(block[k].texts[i], BlockNames(k, block, base)) : i \in DOMAIN block[k].texts} :
           k \in DOMAIN block}

(* calcVars: the defaults are those of the variables that are neither        *)
(* inherited nor in vars.                                                    *)
UsedDefaults(vars, defVars, inherited) ==
  [k \in DOMAIN defVars \ (DOMAIN inherited \cup DOMAIN vars) |-> defVars[k]]
CalcOwnVars(vars, used, inherited, defaults) ==
  LET base == Values(defaults) @@ inherited
      own  == CalcBlock(vars, base)
  IN [fault |-> IF BlockFault(defaults) # NoFault THEN BlockFault(defaults) ELSE BlockFault(own),
      prop  |-> IF BlockFault(defaults) # NoFault THEN "def_vars" ELSE "vars",
      is    |-> Values(own) @@ base,
      undefined |-> [def_vars |-> BlockUndefined(used, inherited), vars |-> BlockUndefined(vars, base)]]
CalcVars(vars, defVars, inherited) ==
  LET used == UsedDefaults(vars, defVars, inherited)
  IN CalcOwnVars(vars, used, inherited, CalcBlock(used, inherited))

(* calcMapValues, of ifeq and ifneq; calcEnvs: the variables override the    *)
(* inherited envs, a text each.                                              *)
CalcMapValues(raw, vars) ==
  LET each == [k \in DOMAIN raw |-> Eval(raw[k], vars)]
  IN [fault |-> BlockFault(each), is |-> Values(each)]
CalcEnvs(envs, vars, inherited) ==
  LET known == vars @@ [k \in DOMAIN inherited |-> String(inherited[k])]
      own   == CalcMapValues(envs, known)
  IN [fault |-> own.fault, is |-> own.is @@ inherited]

-----------------------------------------------------------------------------
(* What docs and code promise of a block, said without an order: a reference *)
(* is a "{", a name and a "}" in a row, and the values solve the equations.  *)
RefersTo(t, n) == \E p \in 1..(Len(t) - 2) : t[p] = "{" /\ t[p + 1] = n /\ t[p + 2] = "}"
Refers(v, n)   == \E i \in DOMAIN v.texts : RefersTo(v.texts[i], n)
Replaced(t, value) ==
  LET starts == {p \in 1..(Len(t) - 2) : t[p] = "{" /\ t[p + 2] = "}" /\ t[p + 1] \in DOMAIN value}
      At(p)  == IF p \in starts THEN value[t[p + 1]].texts[1]
                ELSE IF p - 1 \in starts \/ p - 2 \in starts THEN <<>> ELSE Unraw(<<t[p]>>)
  IN FlattenSeq([p \in DOMAIN t |-> At(p)])

Solves(values, block, base) ==
  \A k \in DOMAIN block :
    LET seen == [n \in BlockNames(k, block, base) |->
                   IF n \in DOMAIN block \ {k} THEN values[n] ELSE base[n]]
    IN values[k] = [block[k] EXCEPT !.texts = [i \in DOMAIN @ |-> Replaced(@[i], seen)]]

HasNoSolution(block, base) ==
  LET uses == TransitiveClosure([e \in (DOMAIN block) \X (DOMAIN block) |->
                                   e[1] # e[2] /\ Refers(block[e[1]], e[2])], DOMAIN block)
  IN \E k \in DOMAIN block :
       \/ uses[k, k]
       \/ \E n \in BlockNames(k, block, base) :
            Refers(block[k], n) /\ (IF n \in DOMAIN block \ {k} THEN block[n] ELSE base[n]).list
=============================================================================
