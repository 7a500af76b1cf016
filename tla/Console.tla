------------------------------ MODULE Console ------------------------------
(***************************************************************************)
(* The console of runtree-headless (internal/headless/output.go): it       *)
(* writes the output of every start line by line, at once, or together at  *)
(* the end of the output of the starts that failed, or not at all.  A byte *)
(* is "CR", "LF" or a letter; the prefix of a line is the start it is of.  *)
(***************************************************************************)
EXTENDS Naturals, Sequences, FiniteSets, SequencesExt

CONSTANTS
  Start,    \* the starts of run nodes, one of each node
  MaxHeld   \* the size of the output that is held for a start

VARIABLES
  mode,     \* --output: "all", "failed", "none"
  lw,       \* the lineWriter of every start
  writers,  \* console.writers: the starts that have not finished ("failed" only)
  pending,  \* console.pending
  shown     \* what was written: the sequence of <<start, line>>

consoleVars == <<mode, lw, writers, pending, shown>>

NewWriter ==
  [opened |-> FALSE, line |-> <<>>, cr |-> FALSE, flushed |-> FALSE, timer |-> FALSE, closed |-> FALSE,
   held |-> <<>>, lost |-> 0, decided |-> FALSE, drop |-> FALSE, written |-> FALSE,
   out |-> <<>>]  \* the lines that the current call writes, <<>> between the calls

ConsoleInit ==
  /\ mode \in {"all", "failed", "none"}
  /\ lw = [s \in Start |-> NewWriter]
  /\ writers = {} /\ pending = {} /\ shown = <<>>

(* The end of what is held, at most MaxHeld bytes, or one line.              *)
Bytes(lines) == Len(FlattenSeq(lines))
HeldFrom(lines) ==
  CHOOSE k \in 1..Len(lines) :
    /\ k = Len(lines) \/ Bytes(SubSeq(lines, k, Len(lines))) <= MaxHeld
    /\ \A j \in 1..(k - 1) : Bytes(SubSeq(lines, j, Len(lines))) > MaxHeld

Hold(w, line) ==
  LET lines == Append(w.held, line)
      k     == HeldFrom(lines)
  IN [w EXCEPT !.held = SubSeq(lines, k, Len(lines)), !.lost = @ + k - 1]

(* out: a line is written, held, or dropped.                                 *)
Out(w, line) ==
  IF mode = "none" \/ w.drop THEN w
  ELSE IF mode = "failed" /\ ~w.written THEN Hold(w, line)
  ELSE [w EXCEPT !.out = Append(@, line)]

Emit(w, allowEmpty) ==
  LET v == IF w.line # <<>> \/ (allowEmpty /\ ~w.flushed) THEN Out(w, w.line) ELSE w
  IN [v EXCEPT !.line = <<>>, !.flushed = FALSE]

(* Mistake in Feed: a lone CR is only the beginning of a CR LF.              *)
FeedJoined(w, b) ==
  CASE b = "LF" -> Emit([w EXCEPT !.cr = FALSE], TRUE)
    [] b = "CR" -> [w EXCEPT !.cr = TRUE]
    [] OTHER    -> [w EXCEPT !.cr = FALSE, !.line = Append(@, b)]
(* One byte: CR LF and LF end a line, a lone CR too, but not an empty one.   *)
Feed(w, b) ==
  LET v == IF w.cr THEN Emit([w EXCEPT !.cr = FALSE], b = "LF") ELSE w
  IN CASE w.cr /\ b = "LF" -> v
       [] ~w.cr /\ b = "LF" -> Emit(v, TRUE)
       [] b = "CR" -> [v EXCEPT !.cr = TRUE]
       [] OTHER    -> [v EXCEPT !.line = Append(@, b)]

Written(w, bytes) ==
  IF w.closed THEN w
  ELSE LET v == FoldLeft(Feed, w, bytes)
       IN [v EXCEPT !.timer = v.line # <<>> \/ v.cr]

Notice(w) == IF w.lost > 0 THEN << <<"...">> >> ELSE <<>>

(* writeHeld writes the held lines, once.                                    *)
WriteHeld(w) ==
  IF w.written THEN w
  ELSE [w EXCEPT !.written = TRUE, !.out = @ \o Notice(w) \o w.held, !.held = <<>>]

Flushed(w) ==
  IF w.closed \/ w.line = <<>> THEN [w EXCEPT !.timer = FALSE]
  ELSE [Emit(w, FALSE) EXCEPT !.flushed = TRUE, !.timer = FALSE]

Closed(w) ==
  IF w.closed THEN w
  ELSE LET v == [Emit([w EXCEPT !.cr = FALSE], FALSE) EXCEPT !.closed = TRUE, !.timer = FALSE]
       IN IF v.decided /\ ~v.drop THEN WriteHeld(v) ELSE v

Decided(w, fail) ==
  IF w.decided THEN w
  ELSE LET v == [w EXCEPT !.decided = TRUE, !.drop = ~fail]
       IN CASE ~fail    -> [v EXCEPT !.held = <<>>]
            [] fail /\ v.closed  -> WriteHeld(v)
            [] OTHER    -> v

(* The writer of s becomes w; its lines are written together.                *)
Becomes(s, w) ==
  /\ lw' = [lw EXCEPT ![s] = [w EXCEPT !.out = <<>>]]
  /\ shown' = shown \o [i \in DOMAIN w.out |-> <<s, w.out[i]>>]
  /\ pending' = IF mode = "failed" /\ w.decided /\ ~w.drop /\ ~w.written THEN pending \cup {s} ELSE pending \ {s}

-----------------------------------------------------------------------------
NodeOutput(s) ==
  /\ ~lw[s].opened
  /\ lw' = [lw EXCEPT ![s].opened = TRUE]
  /\ writers' = IF mode = "failed" THEN writers \cup {s} ELSE writers
  /\ UNCHANGED <<mode, pending, shown>>

WriteConsole(s, bytes) == Becomes(s, Written(lw[s], bytes)) /\ UNCHANGED <<mode, writers>>
Flush(s) == lw[s].timer /\ Becomes(s, Flushed(lw[s])) /\ UNCHANGED <<mode, writers>>
CloseConsole(s) == Becomes(s, Closed(lw[s])) /\ UNCHANGED <<mode, writers>>

(* finished: the node of the start got its final status.                     *)
Finished(s, fail) ==
  /\ writers' = writers \ {s}
  /\ IF s \in writers THEN Becomes(s, Decided(lw[s], fail)) ELSE UNCHANGED <<lw, pending, shown>>
  /\ UNCHANGED mode

(* finishAll decides the rest, one by one, and then writes what waits for    *)
(* the end of its output.                                                    *)
DecideRest(s, fail) == s \in writers /\ Finished(s, fail)
WritePending(s) ==
  /\ writers = {} /\ s \in pending
  /\ Becomes(s, WriteHeld(lw[s])) /\ UNCHANGED <<mode, writers>>

AllClosed == \A s \in Start : lw[s].opened => lw[s].closed

-----------------------------------------------------------------------------
(* What the console has to show of an output (text), in any mode: its lines, *)
(* which a LF, a CR LF or a lone CR ends, the last one the end of the output *)
(* too; a lone CR ends no empty line.  A line that has not ended for a while *)
(* is shown, as a prompt is: its rest is another line, if there is one.      *)
Letters(text) == SelectSeq(text, LAMBDA b : b \notin {"CR", "LF"})
LineEnds(text) ==
  {i \in DOMAIN text : text[i] = "LF" \/ (text[i] = "CR" /\ (i < Len(text) => text[i + 1] # "LF"))}
LinesOf(text, torn) ==
  LET starts == {0} \cup LineEnds(text)
      cuts   == SetToSortSeq(starts \cup torn \cup {Len(text)}, LAMBDA i, j : i < j)
      Piece(k) == SubSeq(text, cuts[k] + 1, cuts[k + 1])
      IsLine(k) == Letters(Piece(k)) # <<>> \/ (cuts[k] \in starts /\ Last(Piece(k)) = "LF")
  IN FlattenSeq([k \in 1..(Len(cuts) - 1) |-> IF IsLine(k) THEN << Letters(Piece(k)) >> ELSE <<>>])

(* All its lines, or, when they are too many to hold, the last ones.         *)
ShownOf(s) == SelectSeq(shown, LAMBDA x : x[1] = s)
ShownAll(s, text, torn) ==
  LET lines == LinesOf(text, torn)
      lost  == lw[s].lost
  IN /\ [i \in DOMAIN ShownOf(s) |-> ShownOf(s)[i][2]] = Notice(lw[s]) \o SubSeq(lines, lost + 1, Len(lines))
     /\ lost > 0 => Bytes(SubSeq(lines, lost, Len(lines))) > MaxHeld
(* Its lines are next to each other.                                         *)
ShownTogether(s) ==
  \A i, j \in DOMAIN shown : shown[i][1] = s /\ shown[j][1] = s => \A k \in i..j : shown[k][1] = s
=============================================================================
