------------------------------ MODULE Sources ------------------------------
(***************************************************************************)
(* The files of a tree (internal/rt/source.go): what a file is read to, and *)
(* the errors and warnings that loading it finds.                          *)
(*                                                                         *)
(* A mapping of a file is [at, merge, keys]: its line, the mappings that    *)
(* its merge key (<<) names, and the sequence of its other keys, [key, at,  *)
(* is].  It is read to [at, props], props a function from the keys to       *)
(* [at, is].  A list of arguments instead of a mapping is [at, args].  The  *)
(* kinds of the scalars are abstracted: a value is one that its property    *)
(* may have, or Wrong.                                                     *)
(***************************************************************************)
EXTENDS Variables

CONSTANTS Wrong, None

SubNodes == {"nodes", "seq", "par"}

(* setMapPos, of a run node that is given as a list of arguments.            *)
FromArgs(y) == [at |-> y.at, props |-> "args" :> [at |-> y.at, is |-> y.args]]

RECURSIVE Convert(_)
ConvertValue(k, v) ==
  IF k \in SubNodes /\ v # Wrong THEN [i \in DOMAIN v |-> IF v[i] = Wrong THEN Wrong ELSE Convert(v[i])] ELSE v
Keys(y) == {y.keys[i].key : i \in DOMAIN y.keys}
Entry(y, k) == y.keys[SelectInSeq(y.keys, LAMBDA e : e.key = k)]
Merged(y) == FoldLeft(LAMBDA m, src : Convert(src).props @@ m, EmptyMap, y.merge)

(* convert, of a mapping: the merge keys first, a later one over an earlier  *)
(* one, the keys of the mapping over them.                                   *)
ConvertMapping(y) ==
  [at |-> y.at,
   props |-> [k \in Keys(y) |-> [at |-> Entry(y, k).at, is |-> ConvertValue(k, Entry(y, k).is)]] @@ Merged(y)]
Convert(y) == IF "args" \in DOMAIN y THEN FromArgs(y) ELSE ConvertMapping(y)

(* A key that is repeated in a mapping: the file cannot be used.             *)
RECURSIVE Repeated(_)
Repeated(y) ==
  /\ "keys" \in DOMAIN y
  /\ \/ Cardinality(Keys(y)) # Len(y.keys)
     \/ \E i \in DOMAIN y.merge : Repeated(y.merge[i])
     \/ \E i \in DOMAIN y.keys :
          /\ y.keys[i].key \in SubNodes
          /\ y.keys[i].is # Wrong
          /\ \E j \in DOMAIN y.keys[i].is : y.keys[i].is[j] # Wrong /\ Repeated(y.keys[i].is[j])

NewSources == [files |-> EmptyMap, order |-> <<>>, errs |-> <<>>, warnings |-> {}, includes |-> <<>>, reported |-> 0,
               added |-> TRUE]

(* AddFile: disk is the files there are, each a function from the names of   *)
(* its objects to mappings, or a list of them that a repeated key is in.     *)
AddFile(s, disk, f) ==
  LET seen == IF f \in Range(s.order) THEN s.order ELSE Append(s.order, f)
  IN CASE f \in DOMAIN s.files -> [s EXCEPT !.added = TRUE]
       [] f \notin DOMAIN s.files /\ (f \notin DOMAIN disk \/ \E o \in DOMAIN disk[f] : Repeated(disk[f][o])) ->
            [s EXCEPT !.order = seen, !.added = FALSE]
       [] OTHER -> [s EXCEPT !.order = seen, !.added = TRUE,
                             !.files = f :> [o \in DOMAIN disk[f] |-> Convert(disk[f][o])] @@ @]

(* report, warn and record: the same error, its position and message, is     *)
(* recorded once, counted, with its first chain of includes.                 *)
Position(f, at) == [file |-> f, at |-> at]
Record(s, pos, message) ==
  LET i == SelectInSeq(s.errs, LAMBDA e : e.pos = pos /\ e.message = message)
  IN IF i # 0 THEN [s EXCEPT !.errs[i].count = @ + 1]
     ELSE [s EXCEPT !.errs = Append(@, [pos |-> pos, message |-> message, count |-> 1,
                                        included |-> Reverse(s.includes)])]
(* Mistake in Report: a repeated error is not counted among the reported.    *)
ReportNew(s, pos, message) ==
  IF \E i \in DOMAIN s.errs : s.errs[i].pos = pos /\ s.errs[i].message = message
  THEN s ELSE [Record(s, pos, message) EXCEPT !.reported = @ + 1]
Report(s, pos, message) == [Record(s, pos, message) EXCEPT !.reported = @ + 1]
Warn(s, pos, message)   == [s EXCEPT !.warnings = @ \cup {[pos |-> pos, message |-> message]}]

PushInclude(s, pos) == [s EXCEPT !.includes = Append(@, pos)]
PopInclude(s)       == [s EXCEPT !.includes = Front(@)]

(* Errors, sorted: by the files as they were loaded first, then by position. *)
Sorted(s) ==
  LET FileAt(f) == IF f \in Range(s.order) THEN SelectInSeq(s.order, LAMBDA g : g = f) ELSE Len(s.order) + 1
  IN SortSeq(s.errs, LAMBDA a, b : \/ FileAt(a.pos.file) < FileAt(b.pos.file)
                                   \/ a.pos.file = b.pos.file /\ a.pos.at < b.pos.at)
=============================================================================
