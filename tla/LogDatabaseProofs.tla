------------------------- MODULE LogDatabaseProofs -------------------------
(***************************************************************************)
(* Proofs about LogDatabase inside of Headless, for any runs, any number   *)
(* of starts and any sizes of the buffers and the batches.                 *)
(***************************************************************************)
EXTENDS Headless, SequenceTheorems, TLAPS

Event == Start \X {"started", "exited"}

(* Of the chunks only that they are there: they are folded together.         *)
IsRecords(b) == b = [events |-> b.events, chunks |-> b.chunks] /\ b.events \in Seq(Event)

LogTypeOK ==
  /\ events \in Seq(Event) /\ accepted \in Seq(Event) /\ adding \subseteq Event
  /\ IsRecords(batch) /\ IsRecords(saved)
  /\ quit \in BOOLEAN /\ run \in {"wait", "collect", "done"} /\ failed \in BOOLEAN /\ due \in Nat

InOrder == ~failed => accepted = saved.events \o batch.events \o events

(* What was due at the call of Close is in the last transaction at the       *)
(* latest: the goroutine is done only after Close, and drains first.         *)
DueIsSaved ==
  /\ due <= Len(accepted)
  /\ run = "done" => quit /\ (~failed => due <= Len(saved.events))

LogInv == LogTypeOK /\ InOrder /\ DueIsSaved

LogStep ==
  \/ \E e \in Event : LogEvent(e) \/ PutEvent(e)
  \/ \E s, data : WriteLog(s, data)
  \/ \E s \in Start : PutChunk(s)
  \/ CloseLog \/ Writer

(* Whatever runtree-headless does, it does to the log database in this way.  *)
LEMMA HeadlessLogStep ==
  ASSUME LogTypeOK, [HeadlessNext]_headlessVars PROVE LogStep \/ UNCHANGED logVars
<1>1. ASSUME NEW s \in Start, Begin(s) \/ Exits(s) PROVE LogStep \/ UNCHANGED logVars
  BY <1>1 DEF Begin, Exits, Log, LogStep, Event
<1>2. ASSUME NEW s \in Start, Output(s) PROVE LogStep \/ UNCHANGED logVars
  BY <1>2 DEF Output, LogStep
<1>3. ASSUME NEW s \in Start, OutputEnds(s) \/ FlushOutput(s)
      PROVE LogStep \/ UNCHANGED logVars
  BY <1>3 DEF OutputEnds, FlushOutput
<1>4. CASE RunEnds \/ Stopped \/ Waited \/ FinishAll \/ Exit \/ UNCHANGED headlessVars
  BY <1>4 DEF RunEnds, Stopped, Waited, FinishAll, Exit, headlessVars
<1>5. CASE Close
  BY <1>5 DEF Close, LogStep
<1>6. CASE LogSteps
  BY <1>6 DEF LogSteps, LogStep, LogTypeOK
<1> QED
  BY <1>1, <1>2, <1>3, <1>4, <1>5, <1>6 DEF HeadlessNext

(* The rows, the batch and the buffer, one after the other.                  *)
LEMMA ThreeParts ==
  ASSUME NEW a \in Seq(Event), NEW b \in Seq(Event), NEW c \in Seq(Event)
  PROVE  (a \o b) \o c = a \o (b \o c)
BY ConcatAssociative

LEMMA LogInitInv == HeadlessInit => LogInv
<1> SUFFICES ASSUME HeadlessInit PROVE LogInv
  OBVIOUS
<1>1. LogInit(Start)
  BY DEF HeadlessInit
<1>2. /\ events = <<>> /\ accepted = <<>> /\ adding = {} /\ batch = NoRecords /\ saved = NoRecords
      /\ quit = FALSE /\ run = "wait" /\ failed = FALSE /\ due = 0
  BY <1>1 DEF LogInit
<1>3. NoRecords.events = <<>> /\ IsRecords(NoRecords) /\ <<>> \in Seq(Event) /\ Len(<<>>) = 0
  BY EmptySeq DEF NoRecords, IsRecords
<1>4. LogTypeOK
  BY <1>2, <1>3 DEF LogTypeOK
<1>5. <<>> = (<<>> \o <<>>) \o <<>>
  BY <1>3, ConcatEmptySeq
<1>6. InOrder /\ DueIsSaved
  BY <1>2, <1>3, <1>5 DEF InOrder, DueIsSaved
<1> QED
  BY <1>4, <1>6 DEF LogInv

LEMMA PutEventInv == ASSUME LogInv, NEW e \in Event, PutEvent(e) PROVE LogInv'
<1> USE DEF LogInv, LogTypeOK, PutEvent
<1>1. CASE UNCHANGED <<events, accepted>>
  BY <1>1 DEF InOrder, DueIsSaved
<1>2. CASE events' = Append(events, e) /\ accepted' = Append(accepted, e)
  <2>1. /\ LogTypeOK' /\ events' = events \o <<e>> /\ accepted' = accepted \o <<e>>
        /\ Len(accepted') = Len(accepted) + 1 /\ <<e>> \in Seq(Event)
    BY <1>2, AppendProperties, AppendIsConcat
  <2>2. InOrder'
    <3>1. /\ saved.events \in Seq(Event) /\ batch.events \in Seq(Event)
          /\ UNCHANGED <<saved, batch, failed>>
      BY DEF IsRecords
    <3>2. (saved.events \o batch.events \o events) \o <<e>> = saved.events \o batch.events \o (events \o <<e>>)
      <4>1. PICK s \in Seq(Event), b \in Seq(Event), v \in Seq(Event), h \in Seq(Event) :
              s = saved.events /\ b = batch.events /\ v = events /\ h = <<e>>
        BY <2>1, <3>1
      <4> HIDE DEF LogInv, LogTypeOK, PutEvent
      <4>2. ((s \o b) \o v) \o h = (s \o b) \o (v \o h)
        <5>1. s \o b \in Seq(Event)
          BY ConcatProperties
        <5> QED
          BY <5>1, ThreeParts, Zenon
      <4> QED
        BY <4>1, <4>2, Zenon
    <3>3. ~failed => accepted = saved.events \o batch.events \o events
      BY DEF InOrder
    <3> HIDE DEF LogInv, LogTypeOK, PutEvent
    <3>4. saved'.events = saved.events /\ batch'.events = batch.events /\ failed' = failed
      BY <3>1
    <3> QED
      BY <2>1, <3>2, <3>3, <3>4, Zenon DEF InOrder
  <2>3. DueIsSaved'
    BY <2>1, LenProperties DEF DueIsSaved
  <2> QED
    BY <2>1, <2>2, <2>3
<1> QED
  BY <1>1, <1>2

(* The goroutine takes from the front of the buffer what it adds to the end  *)
(* of the batch.                                                             *)
LEMMA CollectInv == ASSUME LogInv, Collect PROVE LogInv'
<1> USE DEF LogInv, LogTypeOK
<1>1. /\ UNCHANGED <<accepted, saved, failed, adding, quit, due>>
      /\ run' = "collect" /\ run # "done"
  BY DEF Collect, Selecting, history
<1>2. DueIsSaved'
  BY <1>1 DEF DueIsSaved
<1>3. CASE /\ events # <<>> /\ events' = Tail(events)
           /\ batch' = [batch EXCEPT !.events = Append(@, Head(events))]
  <2>1. Head(events) \in Event /\ Tail(events) \in Seq(Event) /\ events = <<Head(events)>> \o Tail(events)
    BY <1>3, HeadTailProperties
  <2>2. /\ batch' = [events |-> Append(batch.events, Head(events)), chunks |-> batch.chunks]
        /\ batch'.events = batch.events \o <<Head(events)>>
        /\ batch'.events \in Seq(Event)
    <3>1. batch.events \in Seq(Event) /\ batch = [events |-> batch.events, chunks |-> batch.chunks]
      BY DEF IsRecords
    <3>2. batch' = [events |-> Append(batch.events, Head(events)), chunks |-> batch.chunks]
      BY <1>3, <3>1
    <3> HIDE DEF LogInv, LogTypeOK
    <3>3. /\ Append(batch.events, Head(events)) = batch.events \o <<Head(events)>>
          /\ Append(batch.events, Head(events)) \in Seq(Event)
      BY <2>1, <3>1, AppendProperties, AppendIsConcat
    <3> QED
      BY <3>2, <3>3
  <2>3. IsRecords(batch')
    BY <2>2 DEF IsRecords
  <2>4. InOrder'
    <3> DEFINE s == saved.events
               b == batch.events
               h == <<Head(events)>>
               t == Tail(events)
    <3>1. s \in Seq(Event) /\ b \in Seq(Event) /\ h \in Seq(Event) /\ t \in Seq(Event)
      BY <2>1 DEF IsRecords
    <3>2. ~failed => accepted = (s \o b) \o (h \o t)
      BY <2>1 DEF InOrder
    <3>3. ~failed' => accepted' = (s \o (b \o h)) \o t
      <4>1. (s \o b) \o (h \o t) = (s \o (b \o h)) \o t
        <5>1. PICK s1 \in Seq(Event), b1 \in Seq(Event), h1 \in Seq(Event), t1 \in Seq(Event) :
                s1 = s /\ b1 = b /\ h1 = h /\ t1 = t
          BY <3>1
        <5> HIDE DEF s, b, h, t, LogInv, LogTypeOK
        <5>2. (s1 \o b1) \o (h1 \o t1) = (s1 \o (b1 \o h1)) \o t1
          <6>1. s1 \o b1 \in Seq(Event) /\ b1 \o h1 \in Seq(Event)
            BY ConcatProperties
          <6>2. (s1 \o b1) \o (h1 \o t1) = ((s1 \o b1) \o h1) \o t1
            BY <6>1, ConcatAssociative, SMTT(30)
          <6>3. (s1 \o b1) \o h1 = s1 \o (b1 \o h1)
            BY ThreeParts, ZenonT(60)
          <6> QED
            BY <6>2, <6>3, Zenon
        <5> QED
          BY <5>1, <5>2, Zenon
      <4> QED
        BY <1>1, <3>2, <4>1
    <3> QED
      BY <1>1, <1>3, <2>2, <3>3 DEF InOrder
  <2> QED
    BY <1>1, <1>2, <1>3, <2>1, <2>3, <2>4
<1>4. CASE UNCHANGED events /\ batch' = [batch EXCEPT !.chunks = AddChunk(@, Head(output))]
  <2>1. batch' = [events |-> batch.events, chunks |-> AddChunk(batch.chunks, Head(output))]
    BY <1>4 DEF IsRecords
  <2> QED
    BY <1>1, <1>2, <1>4, <2>1 DEF IsRecords, InOrder
<1> QED
  BY <1>3, <1>4 DEF Collect, Take

(* A transaction saves a batch b whole, or nothing of it.                    *)
LEMMA SaveInv ==
  ASSUME LogInv, NEW b, IsRecords(b), Save(b), UNCHANGED accepted,
         batch' = NoRecords, events' \in Seq(Event),
         batch.events \o events = b.events \o events'
  PROVE  InOrder' /\ IsRecords(saved') /\ IsRecords(batch') /\ failed' \in BOOLEAN
<1> USE DEF LogInv, LogTypeOK
<1>1. IsRecords(batch') /\ batch'.events = <<>> /\ failed' \in BOOLEAN
  <2>1. NoRecords.events = <<>> /\ IsRecords(NoRecords)
    BY EmptySeq DEF NoRecords, IsRecords
  <2> QED
    BY <2>1 DEF Save
<1>2. CASE failed' = TRUE /\ UNCHANGED saved
  BY <1>1, <1>2 DEF InOrder
<1>3. CASE /\ saved' = [events |-> saved.events \o b.events, chunks |-> saved.chunks \o b.chunks]
           /\ UNCHANGED failed
  <2>1. saved'.events = saved.events \o b.events /\ saved'.events \in Seq(Event) /\ IsRecords(saved')
    BY <1>3, ConcatProperties DEF IsRecords
  <2>2. InOrder'
    <3> DEFINE s == saved.events
    <3>1. /\ s \in Seq(Event) /\ b.events \in Seq(Event) /\ batch.events \in Seq(Event)
          /\ (s \o b.events) \o <<>> = s \o b.events
      BY ConcatProperties, ConcatEmptySeq DEF IsRecords
    <3>2. /\ (s \o batch.events) \o events = s \o (batch.events \o events)
          /\ (s \o b.events) \o events' = s \o (b.events \o events')
      <4>1. events \in Seq(Event) /\ events' \in Seq(Event)
        OBVIOUS
      <4>2. PICK s1 \in Seq(Event), b1 \in Seq(Event), c1 \in Seq(Event),
                 v1 \in Seq(Event), v2 \in Seq(Event) :
              s1 = s /\ b1 = batch.events /\ c1 = b.events /\ v1 = events /\ v2 = events'
        BY <3>1, <4>1
      <4> HIDE DEF s, LogInv, LogTypeOK
      <4>3. (s1 \o b1) \o v1 = s1 \o (b1 \o v1)
        BY ThreeParts, ZenonT(60)
      <4>4. (s1 \o c1) \o v2 = s1 \o (c1 \o v2)
        BY ThreeParts, ZenonT(60)
      <4> QED
        BY <4>2, <4>3, <4>4, Zenon
    <3>3. ~failed => accepted = (s \o batch.events) \o events
      BY DEF InOrder
    <3> QED
      BY <1>1, <1>3, <2>1, <3>1, <3>2, <3>3 DEF InOrder
  <2> QED
    BY <1>1, <2>1, <2>2
<1> QED
  BY <1>2, <1>3 DEF Save

LEMMA SaveBatchInv == ASSUME LogInv, SaveBatch PROVE LogInv'
<1> USE DEF SaveBatch, LogInv, LogTypeOK, history
<1>1. InOrder' /\ IsRecords(saved') /\ IsRecords(batch') /\ failed' \in BOOLEAN
  BY SaveInv
<1>2. DueIsSaved'
  BY DEF DueIsSaved
<1> QED
  BY <1>1, <1>2

LEMMA FinishInv == ASSUME LogInv, Finish PROVE LogInv'
<1> USE DEF Finish, LogInv, LogTypeOK, history
<1>1. batch.events \in Seq(Event) /\ batch.events \o events \in Seq(Event)
  BY ConcatProperties DEF IsRecords
<1>2. IsRecords(Drained) /\ Drained.events = batch.events \o events
  BY <1>1 DEF Drained, IsRecords
<1>3. events' \in Seq(Event) /\ batch.events \o events = Drained.events \o events'
  BY <1>1, <1>2, ConcatEmptySeq
<1>4. InOrder' /\ IsRecords(saved') /\ IsRecords(batch') /\ failed' \in BOOLEAN
  BY <1>2, <1>3, SaveInv
<1>5. DueIsSaved'
  <2> SUFFICES ASSUME ~failed' PROVE due <= Len(saved'.events)
    BY DEF DueIsSaved
  <2>1. accepted = saved'.events \o <<>> \o <<>>
    BY <1>4 DEF InOrder, NoRecords
  <2>2. accepted = saved'.events
    BY <1>4, <2>1, ConcatEmptySeq DEF IsRecords
  <2> QED
    BY <2>2 DEF DueIsSaved
<1> QED
  BY <1>3, <1>4, <1>5

LEMMA LogNextInv == LogInv /\ [HeadlessNext]_headlessVars => LogInv'
<1> SUFFICES ASSUME LogInv, [HeadlessNext]_headlessVars PROVE LogInv'
  OBVIOUS
<1>1. LogStep \/ UNCHANGED logVars
  BY HeadlessLogStep DEF LogInv
<1> USE DEF LogInv, LogTypeOK, InOrder, DueIsSaved, IsRecords, history
<1>2. CASE UNCHANGED logVars
  BY <1>2 DEF logVars
<1>3. ASSUME NEW e \in Event, LogEvent(e) PROVE LogInv'
  BY <1>3 DEF LogEvent
<1>4. ASSUME NEW s, NEW data, WriteLog(s, data) PROVE LogInv'
  BY <1>4 DEF WriteLog
<1>5. ASSUME NEW s \in Start, PutChunk(s) PROVE LogInv'
  BY <1>5 DEF PutChunk
<1>6. CASE CloseLog
  BY <1>6, LenProperties DEF CloseLog
<1> QED
  BY <1>1, <1>2, <1>3, <1>4, <1>5, <1>6, PutEventInv, CollectInv, SaveBatchInv, FinishInv
     DEF LogStep, Writer

(* No event that reached the buffer is lost or changes its place, and what   *)
(* was in the buffer when Close was called is in the tables when it returns, *)
(* as long as no transaction failed.                                         *)
THEOREM EventsReachTheTables == HeadlessSpec => []EventsSaved
<1>1. LogInv => EventsSaved
  BY LenProperties DEF LogInv, LogTypeOK, InOrder, DueIsSaved, IsRecords, EventsSaved
<1> QED
  BY <1>1, LogInitInv, LogNextInv, PTL DEF HeadlessSpec
=============================================================================
