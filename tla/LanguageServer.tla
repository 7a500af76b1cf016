--------------------------- MODULE LanguageServer ---------------------------
(***************************************************************************)
(* The language server (internal/lsp): the changes of the documents and of *)
(* the files schedule an analysis, that runs in a goroutine of its own and *)
(* publishes the problems of every file to the editor.  What a text says   *)
(* is its record: is it a tree, what does it include, is it wrong itself.  *)
(***************************************************************************)
EXTENDS Naturals, FiniteSets, Relation

CONSTANTS
  File,        \* the files of the workspace
  RtYaml,      \* those with the name of a tree file (*.rt.yaml)
  NoText,      \* a document that is not open, a file that does not exist
  Text,        \* the texts: [tree, includes, wrong]
  MaxChanges,  \* bound: changes of documents and files
  Analysis     \* the goroutines of runAnalysis, bounds how many there are at a time

ASSUME LanguageAssumption ==
  /\ RtYaml \subseteq File /\ NoText \notin Text /\ MaxChanges \in Nat
  /\ Text \subseteq [tree : BOOLEAN, includes : SUBSET File, wrong : BOOLEAN]

VARIABLES
  docs, disk,       \* the open documents, the files
  trees, rescan,    \* the tree files that the last search found, search again
  timer,            \* an analysis is scheduled
  handling,         \* of the message of the client: "none", "open" or "files" (to schedule)
  analyses,         \* the goroutines: [at, docs, rescan, diags, prev]
  published,        \* the files with problems that were published
  editor,           \* the editor: the problems of each file
  untold,           \* a file has changed, the client has not told it yet
  panicked,         \* the last analysis panicked
  changes

lspVars == <<docs, disk, trees, rescan, timer, handling, analyses, published, editor, untold, panicked, changes>>
input   == <<docs, disk, handling, untold, changes>>

Idle == [at |-> "none", docs |-> <<>>, rescan |-> FALSE, diags |-> <<>>, prev |-> {}]

LspInit ==
  /\ docs = [f \in File |-> NoText] /\ disk \in [File -> Text \cup {NoText}]
  /\ trees = {} /\ rescan = TRUE /\ timer = FALSE /\ handling = "files"
  /\ analyses = [a \in Analysis |-> Idle]
  /\ published = {} /\ editor = [f \in File |-> {}] /\ untold = FALSE /\ panicked = FALSE /\ changes = 0

-----------------------------------------------------------------------------
(* What an analysis finds.                                                  *)

IsTree(t) == t # NoText /\ t.tree

TreeFiles(d) == {f \in File : IsTree(d[f])}

(* The documents are used instead of the files.                              *)
Overlay(d, s) == [f \in File |-> IF d[f] = NoText THEN s[f] ELSE d[f]]

Includes(t, f) == IF t[f] = NoText THEN {} ELSE t[f].includes
Problems(t, f) ==
  IF t[f] = NoText THEN {"missing"}
  ELSE {p \in {"wrong", "include"} : IF p = "wrong" THEN t[f].wrong
                                     ELSE \E g \in t[f].includes : t[g] = NoText}

(* The files that are loaded for f: what it includes, as far as it exists.   *)
Loaded(t, f) ==
  LET closure == ReflexiveTransitiveClosure([g, h \in File |-> h \in Includes(t, g) /\ t[h] # NoText], File)
  IN {g \in File : closure[f, g]}

(* analyze: the trees first, then the open libraries that no tree includes.  *)
(* d is the snapshot of the documents, s the files, ts the tree files.       *)
Analyze(d, s, ts) ==
  LET t        == Overlay(d, s)
      Roots    == {f \in ts : d[f] = NoText \/ d[f].tree} \cup TreeFiles(d)
      OfTrees  == UNION {Loaded(t, f) : f \in Roots}
      Libs     == {f \in RtYaml : d[f] # NoText} \ OfTrees
      Reached  == OfTrees \cup UNION {Loaded(t, f) : f \in Libs}
  IN [f \in Reached |-> Problems(t, f)]

-----------------------------------------------------------------------------
(* The messages of the client, one after the other.                         *)

(* setDocument: opened, changed, or closed; the first of its locked parts.   *)
SetDocument ==
  /\ handling = "none" /\ changes < MaxChanges
  /\ \E f \in File, t \in Text \cup {NoText} : docs[f] # t /\ docs' = [docs EXCEPT ![f] = t]
  /\ handling' = "open" /\ changes' = changes + 1
  /\ UNCHANGED <<disk, trees, rescan, timer, analyses, published, editor, untold, panicked>>

(* The file changes (saved, written by another program), and then the        *)
(* client says so.                                                           *)
FileChanges ==
  /\ changes < MaxChanges
  /\ \E f \in File, t \in Text \cup {NoText} : disk[f] # t /\ disk' = [disk EXCEPT ![f] = t]
  /\ untold' = TRUE /\ changes' = changes + 1
  /\ UNCHANGED <<docs, trees, rescan, timer, handling, analyses, published, editor, panicked>>

FilesChanged ==
  /\ handling = "none" /\ untold /\ untold' = FALSE
  /\ rescan' = TRUE /\ handling' = "files"
  /\ UNCHANGED <<docs, disk, trees, timer, analyses, published, editor, panicked, changes>>

(* schedule: a timer that has not fired starts again.                        *)
ScheduleAnalysis ==
  /\ handling # "none" /\ handling' = "none" /\ timer' = TRUE
  /\ UNCHANGED <<docs, disk, trees, rescan, analyses, published, editor, untold, panicked, changes>>

-----------------------------------------------------------------------------
(* runAnalysis.                                                             *)

Fire(a) ==
  /\ timer /\ analyses[a].at = "none" /\ timer' = FALSE
  /\ analyses' = [analyses EXCEPT ![a].at = "lock"]
  /\ UNCHANGED <<input, trees, rescan, published, editor, panicked>>

(* analyzeMu is free.                                                        *)
OneAtATime == \A b \in Analysis : analyses[b].at \in {"none", "lock"}

(* Mistake in Snapshot: it does not wait for the lock.                       *)
SnapshotInParallel(a) ==
  /\ analyses[a].at = "lock" /\ rescan' = FALSE
  /\ analyses' = [analyses EXCEPT ![a] = [Idle EXCEPT !.at = "analyze", !.docs = docs, !.rescan = rescan]]
  /\ UNCHANGED <<input, trees, timer, published, editor, panicked>>
Snapshot(a) ==
  /\ analyses[a].at = "lock" /\ OneAtATime /\ rescan' = FALSE
  /\ analyses' = [analyses EXCEPT ![a] = [Idle EXCEPT !.at = "analyze", !.docs = docs, !.rescan = rescan]]
  /\ UNCHANGED <<input, trees, timer, published, editor, panicked>>

(* findFiles, when it has to: the tree files on the disk.                    *)
FindFiles(a) ==
  /\ analyses[a].at = "analyze" /\ analyses[a].rescan
  /\ trees' = TreeFiles(disk) /\ analyses' = [analyses EXCEPT ![a].rescan = FALSE]
  /\ UNCHANGED <<input, rescan, timer, published, editor, panicked>>

(* analyze reads the files; then published is replaced, with the lock.       *)
Publish(a) ==
  /\ analyses[a].at = "analyze" /\ ~analyses[a].rescan
  /\ LET diags == Analyze(analyses[a].docs, disk, trees)
     IN /\ published' = {f \in DOMAIN diags : diags[f] # {}}
        /\ analyses' = [analyses EXCEPT ![a].at = "notify", ![a].diags = diags, ![a].prev = published]
  /\ panicked' = FALSE
  /\ UNCHANGED <<input, trees, rescan, timer, editor>>

(* The analysis panicked: nothing is published.                              *)
Panics(a) ==
  /\ analyses[a].at = "analyze" /\ ~analyses[a].rescan
  /\ panicked' = TRUE /\ analyses' = [analyses EXCEPT ![a] = Idle]
  /\ UNCHANGED <<input, trees, rescan, timer, published, editor>>

(* The notifications: the files of the analysis, and those whose problems    *)
(* are gone.                                                                 *)
Notify(a) ==
  /\ analyses[a].at = "notify" /\ analyses' = [analyses EXCEPT ![a] = Idle]
  /\ LET diags == analyses[a].diags
     IN editor' = [f \in File |-> IF f \in DOMAIN diags THEN diags[f]
                                 ELSE IF f \in analyses[a].prev THEN {} ELSE editor[f]]
  /\ UNCHANGED <<input, trees, rescan, timer, published, panicked>>

RunAnalysis(a) == Snapshot(a) \/ FindFiles(a) \/ Publish(a) \/ Panics(a) \/ Notify(a)

LspNext ==
  \/ SetDocument \/ FileChanges \/ FilesChanged \/ ScheduleAnalysis
  \/ \E a \in Analysis : Fire(a) \/ RunAnalysis(a)

LspSpec == LspInit /\ [][LspNext]_lspVars

-----------------------------------------------------------------------------
Quiet ==
  /\ ~untold /\ handling = "none" /\ ~timer /\ ~panicked
  /\ \A a \in Analysis : analyses[a].at = "none"

(* When there is nothing left to do, the editor shows what an analysis of    *)
(* the documents and files as they are now finds, and nothing else: no       *)
(* result of an earlier state replaced a later one, no change was forgotten, *)
(* no problem of a file stays that is gone, or no tree any more.             *)
ProblemsAreCurrent ==
  Quiet => LET diags == Analyze(docs, disk, TreeFiles(disk))
           IN editor = [f \in File |-> IF f \in DOMAIN diags THEN diags[f] ELSE {}]
=============================================================================
