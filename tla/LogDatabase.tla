---------------------------- MODULE LogDatabase ----------------------------
(***************************************************************************)
(* The writer of the log database (internal/logdb/logdb.go).  The callers  *)
(* put their records into two bounded buffers, and one goroutine, run,     *)
(* saves them in batches, each in a transaction, until Close.              *)
(***************************************************************************)
EXTENDS Naturals, Sequences, SequencesExt

CONSTANTS
  EventBuffer, OutputBuffer, BatchSize, MaxChunk,  \* as in the code, small
  SaveFails      \* a transaction may fail

ASSUME LogAssumption ==
  {EventBuffer, OutputBuffer, BatchSize, MaxChunk} \subseteq Nat \ {0} /\ SaveFails \in BOOLEAN

VARIABLES
  events, output,  \* the buffers; a chunk is [start, data]
  quit,            \* Close was called
  run,             \* the goroutine: "wait" (no batch), "collect", "done"
  batch,           \* [events, chunks], the records of the next transaction
  saved,           \* [events, chunks], the tables
  adding,          \* the events whose addEvent passed its check of closed
  writing,         \* the data that the Write of a start has passed its check with (<<>>: none)
  dropped, failed, \* how many events were dropped; a transaction failed
  accepted,        \* history: the events put into the buffer, in order
  due              \* history: how many of them there were when Close was called

logVars == <<events, output, quit, run, batch, saved, adding, writing, dropped, failed, accepted, due>>
history == <<accepted, due>>

NoRecords == [events |-> <<>>, chunks |-> <<>>]

(* S are the starts of nodes whose output is saved.                          *)
LogInit(S) ==
  /\ events = <<>> /\ output = <<>> /\ quit = FALSE /\ run = "wait"
  /\ batch = NoRecords /\ saved = NoRecords
  /\ adding = {} /\ writing = [s \in S |-> <<>>]
  /\ dropped = 0 /\ failed = FALSE /\ accepted = <<>> /\ due = 0

-----------------------------------------------------------------------------
(* The callers.                                                             *)

(* addEvent never blocks: with a full buffer the event is dropped.          *)
LogEvent(e) ==
  /\ adding' = IF quit THEN adding ELSE adding \cup {e}
  /\ UNCHANGED <<events, output, quit, run, batch, saved, writing, dropped, failed, history>>

PutEvent(e) ==
  /\ e \in adding /\ adding' = adding \ {e}
  /\ IF Len(events) < EventBuffer
     THEN events' = Append(events, e) /\ accepted' = Append(accepted, e) /\ UNCHANGED dropped
     ELSE dropped' = dropped + 1 /\ UNCHANGED <<events, accepted>>
  /\ UNCHANGED <<output, quit, run, batch, saved, writing, failed, due>>

(* Write waits for room in the buffer, or for Close.                         *)
WriteLog(s, data) ==
  /\ writing[s] = <<>>
  /\ writing' = IF quit THEN writing ELSE [writing EXCEPT ![s] = data]
  /\ UNCHANGED <<events, output, quit, run, batch, saved, adding, dropped, failed, history>>

PutChunk(s) ==
  /\ writing[s] # <<>> /\ writing' = [writing EXCEPT ![s] = <<>>]
  /\ \/ Len(output) < OutputBuffer /\ output' = Append(output, [start |-> s, data |-> writing[s]])
     \/ (quit /\ UNCHANGED output)
  /\ UNCHANGED <<events, quit, run, batch, saved, adding, dropped, failed, history>>

(* Close, its first step; it then waits until run is done.                   *)
CloseLog ==
  /\ quit' = TRUE
  /\ due' = IF quit THEN due ELSE Len(accepted)
  /\ UNCHANGED <<events, output, run, batch, saved, adding, writing, dropped, failed, accepted>>

-----------------------------------------------------------------------------
(* The goroutine.                                                           *)

Size(b) == Len(b.events) + Len(b.chunks)

(* batch.addChunk merges a chunk into the last one of its start.             *)
AddChunk(chunks, c) ==
  LET Of   == {i \in DOMAIN chunks : chunks[i].start = c.start}
      last == CHOOSE i \in Of : \A j \in Of : j <= i
  IN IF Of # {} /\ Len(chunks[last].data) + Len(c.data) <= MaxChunk
     THEN [chunks EXCEPT ![last].data = @ \o c.data]
     ELSE Append(chunks, c)

AddChunks(chunks, cs) == FoldLeft(AddChunk, chunks, cs)

Take ==
  \/ /\ events # <<>> /\ events' = Tail(events) /\ UNCHANGED output
     /\ batch' = [batch EXCEPT !.events = Append(@, Head(events))]
  \/ /\ output # <<>> /\ output' = Tail(output) /\ UNCHANGED events
     /\ batch' = [batch EXCEPT !.chunks = AddChunk(@, Head(output))]

(* It is at a select: for the first record of a batch, or for one more.      *)
Selecting == run = "wait" \/ (run = "collect" /\ Size(batch) < BatchSize)

Collect ==
  /\ Selecting
  /\ Take /\ run' = "collect"
  /\ UNCHANGED <<quit, saved, adding, writing, dropped, failed, history>>

(* write: the whole transaction, or nothing of it.                           *)
Save(b) ==
  \/ /\ saved' = [events |-> saved.events \o b.events, chunks |-> saved.chunks \o b.chunks]
     /\ UNCHANGED failed
  \/ /\ SaveFails /\ Size(b) > 0
     /\ failed' = TRUE /\ UNCHANGED saved

(* The batch is full, or its time is over.                                   *)
SaveBatch ==
  /\ run = "collect" /\ run' = "wait"
  /\ Save(batch) /\ batch' = NoRecords
  /\ UNCHANGED <<events, output, quit, adding, writing, dropped, history>>

Drained == [events |-> batch.events \o events, chunks |-> AddChunks(batch.chunks, output)]

(* Mistakes in Finish: it waits for a record first; it saves the batch only.  *)
FinishAfterRecord ==
  /\ quit /\ run = "collect" /\ Size(batch) < BatchSize
  /\ Save(Drained) /\ run' = "done"
  /\ batch' = NoRecords /\ events' = <<>> /\ output' = <<>>
  /\ UNCHANGED <<quit, adding, writing, dropped, history>>
FinishBatchOnly ==
  /\ quit /\ Selecting
  /\ Save(batch) /\ run' = "done" /\ batch' = NoRecords
  /\ UNCHANGED <<events, output, quit, adding, writing, dropped, history>>

(* quit is seen in a select: drain takes what is in the buffers (until both  *)
(* are empty), and that is the last transaction.                             *)
Finish ==
  /\ quit /\ Selecting
  /\ Save(Drained) /\ run' = "done"
  /\ batch' = NoRecords /\ events' = <<>> /\ output' = <<>>
  /\ UNCHANGED <<quit, adding, writing, dropped, history>>

Writer == Collect \/ SaveBatch \/ Finish

(* Close returns.                                                           *)
LogClosed == quit /\ run = "done"

-----------------------------------------------------------------------------
(* The events of the run that reached the buffer are saved in their order,   *)
(* also those that were in the buffer or in an unfinished batch when Close   *)
(* was called; only what raced Close, and a failed transaction, is missing.  *)
EventsSaved ==
  ~failed =>
    /\ accepted = saved.events \o batch.events \o events
    /\ run = "done" => Len(saved.events) >= due

(* The saved output of a start.                                             *)
SavedOutput(s) ==
  FlattenSeq([i \in DOMAIN saved.chunks |->
    IF saved.chunks[i].start = s THEN saved.chunks[i].data ELSE <<>>])
=============================================================================
