------------------------ MODULE LanguageServerProofs ------------------------
(***************************************************************************)
(* Proofs about LanguageServer, for any files, texts and number of         *)
(* analyses that wait for each other.  What an analysis finds (Analyze) is *)
(* not looked into: it is a function of the documents, the files and the   *)
(* tree files.                                                             *)
(***************************************************************************)
EXTENDS LanguageServer, TLAPS

IsAnalysis(r) ==
  /\ DOMAIN r = {"at", "docs", "rescan", "diags", "prev"}
  /\ r.at \in {"none", "lock", "analyze", "notify"} /\ r.rescan \in BOOLEAN

LspTypeOK ==
  /\ analyses = [a \in Analysis |-> analyses[a]] /\ \A a \in Analysis : IsAnalysis(analyses[a])
  /\ editor = [f \in File |-> editor[f]]
  /\ rescan \in BOOLEAN /\ timer \in BOOLEAN /\ untold \in BOOLEAN /\ panicked \in BOOLEAN
  /\ handling \in {"none", "open", "files"}

Busy(a) == analyses[a].at \in {"analyze", "notify"}

(* analyzeMu.                                                                *)
OneBusy == \A a, b \in Analysis : Busy(a) /\ Busy(b) => a = b

(* The editor shows no problems of a file that the next notifications would  *)
(* not take back.                                                            *)
Retractable ==
  /\ (\A a \in Analysis : analyses[a].at # "notify") =>
       \A f \in File : editor[f] # {} => f \in published
  /\ \A a \in Analysis : analyses[a].at = "notify" =>
       /\ \A f \in File : editor[f] # {} => f \in analyses[a].prev
       /\ published = {f \in DOMAIN analyses[a].diags : analyses[a].diags[f] # {}}

(* An analysis that has not taken its snapshot yet will come.                *)
Coming == handling # "none" \/ timer \/ \E a \in Analysis : analyses[a].at = "lock"

(* The tree files are right, or someone has to search them again.            *)
TreesAreRight ==
  /\ rescan => Coming
  /\ \/ untold \/ rescan \/ trees = TreeFiles(disk)
     \/ \E a \in Analysis : analyses[a].at = "analyze" /\ analyses[a].rescan

Found == Analyze(docs, disk, TreeFiles(disk))
ShownFor(diags) == [f \in File |-> IF f \in DOMAIN diags THEN diags[f] ELSE {}]

(* When no further analysis is to come, the last one works with what there   *)
(* is now.                                                                   *)
LastIsRight ==
  ~untold /\ ~Coming =>
    /\ \A a \in Analysis : analyses[a].at = "analyze" => analyses[a].docs = docs
    /\ \A a \in Analysis : analyses[a].at = "notify" => analyses[a].diags = Found
    /\ (\A a \in Analysis : ~Busy(a)) /\ ~panicked => editor = ShownFor(Found)

LspInv == LspTypeOK /\ OneBusy /\ Retractable /\ TreesAreRight /\ LastIsRight

LEMMA LspInitInv == LspInit => LspInv
<1> SUFFICES ASSUME LspInit PROVE LspInv
  OBVIOUS
<1>1. LspTypeOK /\ \A a \in Analysis : analyses[a].at = "none"
  BY DEF LspInit, LspTypeOK, IsAnalysis, Idle
<1> QED
  BY <1>1 DEF LspInit, LspInv, OneBusy, Busy, Retractable, TreesAreRight, Coming, LastIsRight

(* One goroutine goes on: the others stay where they are.                    *)
LEMMA Moves ==
  ASSUME LspTypeOK, NEW a \in Analysis, NEW r, IsAnalysis(r), analyses' = [analyses EXCEPT ![a] = r]
  PROVE  /\ analyses' = [b \in Analysis |-> analyses'[b]] /\ \A b \in Analysis : IsAnalysis(analyses'[b])
         /\ analyses'[a] = r /\ \A b \in Analysis : b # a => analyses'[b] = analyses[b]
BY DEF LspTypeOK

(* A change of a document or a file, and what the client says of it.         *)
LEMMA MessageInv ==
  ASSUME LspInv, SetDocument \/ FileChanges \/ FilesChanged \/ ScheduleAnalysis PROVE LspInv'
<1> USE DEF LspInv
<1>1. UNCHANGED <<analyses, editor, published, panicked>> /\ LspTypeOK'
  BY DEF LspTypeOK, SetDocument, FileChanges, FilesChanged, ScheduleAnalysis
<1>2. OneBusy' /\ Retractable'
  BY <1>1 DEF OneBusy, Retractable, Busy
<1>3. untold' \/ Coming'
  BY DEF Coming, SetDocument, FileChanges, FilesChanged, ScheduleAnalysis
<1>4. LastIsRight'
  BY <1>3 DEF LastIsRight
<1>5. TreesAreRight'
  <2>1. CASE SetDocument
    BY <2>1 DEF TreesAreRight, Coming, SetDocument
  <2>2. CASE FileChanges
    BY <2>2 DEF TreesAreRight, Coming, FileChanges
  <2>3. CASE FilesChanged
    BY <2>3 DEF TreesAreRight, Coming, FilesChanged
  <2>4. CASE ScheduleAnalysis
    BY <2>4 DEF TreesAreRight, Coming, ScheduleAnalysis
  <2> QED
    BY <2>1, <2>2, <2>3, <2>4
<1> QED
  BY <1>1, <1>2, <1>4, <1>5

LEMMA FireInv == ASSUME LspInv, NEW a \in Analysis, Fire(a) PROVE LspInv'
<1> DEFINE r == [analyses[a] EXCEPT !.at = "lock"]
<1> USE DEF LspInv
<1>1. /\ analyses' = [analyses EXCEPT ![a] = r] /\ analyses[a].at = "none"
      /\ UNCHANGED <<docs, disk, handling, untold, trees, rescan, published, editor, panicked>>
      /\ timer' = FALSE
  BY DEF Fire, input
<1>2. IsAnalysis(r) /\ r.at = "lock"
  BY DEF LspTypeOK, IsAnalysis
<1> HIDE DEF r
<1>3. /\ analyses' = [b \in Analysis |-> analyses'[b]] /\ \A b \in Analysis : IsAnalysis(analyses'[b])
      /\ analyses'[a] = r /\ \A b \in Analysis : b # a => analyses'[b] = analyses[b]
  BY <1>1, <1>2, Moves
<1>4. LspTypeOK'
  BY <1>1, <1>3 DEF LspTypeOK
<1>5. Coming'
  BY <1>2, <1>3 DEF Coming
<1>6. OneBusy'
  BY <1>1, <1>2, <1>3 DEF OneBusy, Busy
<1>7. Retractable'
  BY <1>1, <1>2, <1>3 DEF Retractable
<1>8. TreesAreRight'
  BY <1>1, <1>2, <1>3, <1>5 DEF TreesAreRight
<1> QED
  BY <1>4, <1>5, <1>6, <1>7, <1>8 DEF LastIsRight

LEMMA SnapshotInv == ASSUME LspInv, NEW a \in Analysis, Snapshot(a) PROVE LspInv'
<1> DEFINE r == [Idle EXCEPT !.at = "analyze", !.docs = docs, !.rescan = rescan]
<1> USE DEF LspInv
<1>1. /\ analyses' = [analyses EXCEPT ![a] = r] /\ rescan' = FALSE
      /\ \A b \in Analysis : analyses[b].at \in {"none", "lock"}
      /\ UNCHANGED <<docs, disk, handling, untold, trees, timer, published, editor, panicked>>
  BY DEF Snapshot, OneAtATime, input
<1>2. IsAnalysis(r) /\ r.at = "analyze" /\ r.docs = docs /\ r.rescan = rescan
  BY DEF LspTypeOK, IsAnalysis, Idle
<1> HIDE DEF r
<1>3. /\ analyses' = [b \in Analysis |-> analyses'[b]] /\ \A b \in Analysis : IsAnalysis(analyses'[b])
      /\ analyses'[a] = r /\ \A b \in Analysis : b # a => analyses'[b] = analyses[b]
  BY <1>1, <1>2, Moves
<1>4. LspTypeOK'
  BY <1>1, <1>3 DEF LspTypeOK
<1>5. OneBusy'
  BY <1>1, <1>3 DEF OneBusy, Busy
<1>6. Retractable'
  BY <1>1, <1>2, <1>3 DEF Retractable
<1>7. TreesAreRight'
  BY <1>1, <1>2, <1>3 DEF TreesAreRight
<1>8. LastIsRight'
  BY <1>1, <1>2, <1>3 DEF LastIsRight, Busy
<1> QED
  BY <1>4, <1>5, <1>6, <1>7, <1>8

LEMMA FindFilesInv == ASSUME LspInv, NEW a \in Analysis, FindFiles(a) PROVE LspInv'
<1> DEFINE r == [analyses[a] EXCEPT !.rescan = FALSE]
<1> USE DEF LspInv
<1>1. /\ analyses' = [analyses EXCEPT ![a] = r] /\ analyses[a].at = "analyze" /\ trees' = TreeFiles(disk)
      /\ UNCHANGED <<docs, disk, handling, untold, rescan, timer, published, editor, panicked>>
  BY DEF FindFiles, input
<1>2. IsAnalysis(r) /\ r.at = "analyze" /\ r.docs = analyses[a].docs
  BY <1>1 DEF LspTypeOK, IsAnalysis
<1> HIDE DEF r
<1>3. /\ analyses' = [b \in Analysis |-> analyses'[b]] /\ \A b \in Analysis : IsAnalysis(analyses'[b])
      /\ analyses'[a] = r /\ \A b \in Analysis : b # a => analyses'[b] = analyses[b]
  BY <1>1, <1>2, Moves
<1>4. LspTypeOK'
  BY <1>1, <1>3 DEF LspTypeOK
<1>5. \A b \in Analysis : analyses'[b].at = analyses[b].at /\ analyses'[b].docs = analyses[b].docs
  BY <1>1, <1>2, <1>3
<1>6. OneBusy'
  BY <1>5 DEF OneBusy, Busy
<1>7. Retractable'
  BY <1>1, <1>2, <1>3 DEF Retractable
<1>8. Coming' = Coming
  BY <1>1, <1>5 DEF Coming
<1>9. TreesAreRight'
  BY <1>1, <1>8 DEF TreesAreRight, TreeFiles
<1>10. Found' = Found
  BY <1>1 DEF Found, TreeFiles, Analyze, Overlay, Loaded, Includes, Problems
<1>11. LastIsRight'
  BY <1>1, <1>2, <1>3, <1>5, <1>8, <1>10 DEF LastIsRight, Busy
<1> QED
  BY <1>4, <1>6, <1>7, <1>9, <1>11

LEMMA PublishInv == ASSUME LspInv, NEW a \in Analysis, Publish(a) PROVE LspInv'
<1> DEFINE diags == Analyze(analyses[a].docs, disk, trees)
           r == [analyses[a] EXCEPT !.at = "notify", !.diags = diags, !.prev = published]
<1> USE DEF LspInv
<1>1. /\ analyses' = [analyses EXCEPT ![a] = r] /\ analyses[a].at = "analyze" /\ ~analyses[a].rescan
      /\ published' = {f \in DOMAIN diags : diags[f] # {}}
      /\ UNCHANGED <<docs, disk, handling, untold, trees, rescan, timer, editor>> /\ panicked' = FALSE
  BY DEF Publish, input
<1>2. IsAnalysis(r) /\ r.at = "notify" /\ r.diags = diags /\ r.prev = published
  BY DEF LspTypeOK, IsAnalysis
<1>3. ~untold /\ ~Coming => diags = Found
  <2>1. \A b \in Analysis : ~(analyses[b].at = "analyze" /\ analyses[b].rescan)
    BY <1>1 DEF OneBusy, Busy
  <2> QED
    BY <1>1, <2>1 DEF TreesAreRight, LastIsRight, Found
<1> HIDE DEF r, diags
<1>4. /\ analyses' = [b \in Analysis |-> analyses'[b]] /\ \A b \in Analysis : IsAnalysis(analyses'[b])
      /\ analyses'[a] = r /\ \A b \in Analysis : b # a => analyses'[b] = analyses[b]
  BY <1>1, <1>2, Moves
<1>5. LspTypeOK'
  BY <1>1, <1>4 DEF LspTypeOK
<1>6. OneBusy' /\ \A b \in Analysis : b # a => ~Busy(b) /\ ~Busy(b)'
  BY <1>1, <1>2, <1>4 DEF OneBusy, Busy
<1>7. Retractable'
  <2>1. \A f \in File : editor[f] # {} => f \in published
    BY <1>1, <1>6 DEF Retractable, Busy
  <2>2. \A b \in Analysis : analyses'[b].at = "notify" => b = a
    BY <1>6 DEF Busy
  <2> QED
    BY <1>1, <1>2, <1>4, <2>1, <2>2 DEF Retractable
<1>8. Coming' = Coming
  BY <1>1, <1>2, <1>4 DEF Coming
<1>9. TreesAreRight'
  BY <1>1, <1>6, <1>8 DEF TreesAreRight, TreeFiles, Busy
<1>10. Found' = Found
  BY <1>1 DEF Found, TreeFiles, Analyze, Overlay, Loaded, Includes, Problems
<1>11. LastIsRight'
  BY <1>1, <1>2, <1>3, <1>4, <1>6, <1>8, <1>10 DEF LastIsRight, Busy
<1> QED
  BY <1>5, <1>6, <1>7, <1>9, <1>11

LEMMA IdleAgain ==
  ASSUME LspInv, NEW a \in Analysis, analyses' = [analyses EXCEPT ![a] = Idle], Busy(a),
         UNCHANGED <<docs, disk, handling, untold, trees, rescan, timer, published>>,
         analyses[a].at = "analyze" => ~analyses[a].rescan
  PROVE  /\ analyses' = [b \in Analysis |-> analyses'[b]] /\ \A b \in Analysis : IsAnalysis(analyses'[b])
         /\ \A b \in Analysis : ~Busy(b)'
         /\ Coming' = Coming /\ Found' = Found /\ OneBusy' /\ TreesAreRight'
<1> USE DEF LspInv
<1>1. IsAnalysis(Idle) /\ Idle.at = "none"
  BY DEF Idle, IsAnalysis
<1>2. /\ analyses' = [b \in Analysis |-> analyses'[b]] /\ \A b \in Analysis : IsAnalysis(analyses'[b])
      /\ analyses'[a] = Idle /\ \A b \in Analysis : b # a => analyses'[b] = analyses[b]
  BY <1>1, Moves
<1>3. \A b \in Analysis : ~Busy(b)'
  BY <1>1, <1>2 DEF OneBusy, Busy
<1>4. Coming' = Coming
  BY <1>1, <1>2 DEF Coming, Busy
<1>5. OneBusy'
  BY <1>3 DEF OneBusy
<1>6. Found' = Found
  BY DEF Found, TreeFiles, Analyze, Overlay, Loaded, Includes, Problems
<1>7. TreesAreRight'
  <2>1. \A b \in Analysis : ~(analyses[b].at = "analyze" /\ analyses[b].rescan)
    BY DEF OneBusy, Busy
  <2> QED
    BY <1>4, <2>1 DEF TreesAreRight, TreeFiles
<1> QED
  BY <1>2, <1>3, <1>4, <1>5, <1>6, <1>7

LEMMA PanicsInv == ASSUME LspInv, NEW a \in Analysis, Panics(a) PROVE LspInv'
<1>1. /\ analyses' = [analyses EXCEPT ![a] = Idle] /\ analyses[a].at = "analyze" /\ ~analyses[a].rescan
      /\ UNCHANGED <<docs, disk, handling, untold, trees, rescan, timer, published, editor>>
      /\ panicked' = TRUE
  BY DEF Panics, input
<1>2. /\ analyses' = [b \in Analysis |-> analyses'[b]] /\ \A b \in Analysis : IsAnalysis(analyses'[b])
      /\ \A b \in Analysis : ~Busy(b)'
      /\ Coming' = Coming /\ Found' = Found /\ OneBusy' /\ TreesAreRight'
  BY <1>1, IdleAgain DEF Busy
<1> USE DEF LspInv
<1>3. LspTypeOK'
  BY <1>1, <1>2 DEF LspTypeOK
<1>4. \A b \in Analysis : analyses[b].at # "notify"
  BY <1>1 DEF OneBusy, Busy
<1>5. Retractable' /\ LastIsRight'
  BY <1>1, <1>2, <1>4 DEF Retractable, LastIsRight, Busy
<1> QED
  BY <1>2, <1>3, <1>5

(* After the notifications the editor shows what the analysis found: it had  *)
(* problems of no file but those that are now taken back, or told anew.      *)
LEMMA NotifyInv == ASSUME LspInv, NEW a \in Analysis, Notify(a) PROVE LspInv'
<1> DEFINE diags == analyses[a].diags
<1>1. /\ analyses' = [analyses EXCEPT ![a] = Idle] /\ analyses[a].at = "notify"
      /\ UNCHANGED <<docs, disk, handling, untold, trees, rescan, timer, published, panicked>>
      /\ editor' = [f \in File |-> IF f \in DOMAIN diags THEN diags[f]
                                   ELSE IF f \in analyses[a].prev THEN {} ELSE editor[f]]
  BY DEF Notify, input
<1>2. /\ analyses' = [b \in Analysis |-> analyses'[b]] /\ \A b \in Analysis : IsAnalysis(analyses'[b])
      /\ \A b \in Analysis : ~Busy(b)'
      /\ Coming' = Coming /\ Found' = Found /\ OneBusy' /\ TreesAreRight'
  BY <1>1, IdleAgain DEF Busy
<1> USE DEF LspInv
<1>3. LspTypeOK'
  BY <1>1, <1>2 DEF LspTypeOK
<1>4. editor' = ShownFor(diags)
  BY <1>1 DEF Retractable, ShownFor
<1>5. Retractable'
  BY <1>1, <1>2, <1>4 DEF Retractable, Busy, ShownFor
<1>6. LastIsRight'
  <2>1. ~untold /\ ~Coming => diags = Found
    BY <1>1 DEF LastIsRight
  <2> QED
    BY <1>1, <1>2, <1>4, <2>1 DEF LastIsRight, Busy, ShownFor
<1> QED
  BY <1>2, <1>3, <1>5, <1>6

LEMMA LspNextInv == LspInv /\ [LspNext]_lspVars => LspInv'
<1> SUFFICES ASSUME LspInv, [LspNext]_lspVars PROVE LspInv'
  OBVIOUS
<1>1. CASE UNCHANGED lspVars
  <2>1. Found' = Found /\ Coming' = Coming
    BY <1>1 DEF lspVars, Found, Coming, TreeFiles, Analyze, Overlay, Loaded, Includes, Problems
  <2>2. LspTypeOK' /\ OneBusy' /\ Retractable'
    BY <1>1 DEF lspVars, LspInv, LspTypeOK, OneBusy, Busy, Retractable
  <2>3. TreesAreRight'
    BY <1>1, <2>1 DEF lspVars, LspInv, TreesAreRight, TreeFiles
  <2>4. LastIsRight'
    BY <1>1, <2>1 DEF lspVars, LspInv, LastIsRight, Busy, ShownFor
  <2> QED
    BY <2>2, <2>3, <2>4 DEF LspInv
<1> QED
  BY <1>1, MessageInv, FireInv, SnapshotInv, FindFilesInv, PublishInv, PanicsInv, NotifyInv
     DEF LspNext, RunAnalysis

(* Once the last message is handled and the last analysis is done, the       *)
(* editor shows what an analysis of the documents and files as they are then *)
(* finds: however many changes came while the analyses before it ran.        *)
THEOREM EditorIsUpToDate == LspSpec => []ProblemsAreCurrent
<1>1. LspInv => ProblemsAreCurrent
  BY DEF LspInv, LastIsRight, Busy, Coming, ProblemsAreCurrent, Quiet, Found, ShownFor
<1> QED
  BY <1>1, LspInitInv, LspNextInv, PTL DEF LspSpec
=============================================================================
