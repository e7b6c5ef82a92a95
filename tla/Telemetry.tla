------------------------------ MODULE Telemetry ------------------------------
(***************************************************************************)
(* The telemetry recorder of a collection (TelemetryRecorder and            *)
(* ResilientTelemetryRecorder in telemetry.py, run_with_telemetry in        *)
(* main.py).  Request threads add samples to the current interval; they and *)
(* a flusher thread turn an interval into a record and put it on a bounded  *)
(* queue; a writer thread writes the records to a file of bounded size.     *)
(* When the collection ends, or a recorder method raises, finish flushes    *)
(* the last interval and puts a summary on the queue.                       *)
(*                                                                         *)
(* What is computed under the recorder's lock is one step, since nothing    *)
(* blocks there.  Whether a flush is due is left open.  Sizes are numbers   *)
(* of units.  _dropped_records is only ever compared with zero, which makes *)
(* its unlocked increments one step as well.                                *)
(***************************************************************************)
EXTENDS Integers, Sequences, FiniteSets

CONSTANTS
  Workers,        \* the request threads
  Main,           \* the thread that runs the collection
  Flusher,        \* okta-telemetry-flusher
  Capacity,       \* queue_capacity
  MaxIntervals,   \* max_interval_records
  MaxBytes,       \* max_file_bytes
  Reserve,        \* SUMMARY_RESERVE_BYTES
  RecordBytes,    \* size of a run_start or an interval record
  StatusBytes,    \* size of the export_status record
  ShortBytes,     \* size of the summary without measurements
  SummaryBytes,   \* the possible sizes of a full summary
  None,           \* no record
  MaxSamples      \* BOUND: samples of one worker

ASSUME ThreadsAssumption == /\ IsFiniteSet(Workers)
                            /\ Main \notin Workers
                            /\ Flusher \notin Workers
                            /\ Main # Flusher

\* TelemetrySettings.from_mapping: at least two records fit into the queue, and
\* the file is larger than its reserve.
ASSUME SettingsAssumption == /\ Capacity \in Nat /\ Capacity >= 2
                             /\ MaxIntervals \in Nat \ {0}
                             /\ MaxBytes \in Nat
                             /\ Reserve \in 0..MaxBytes

\* The reserve is 32 KiB: far more than the short records need.
ASSUME SizesAssumption == /\ RecordBytes \in Nat
                          /\ StatusBytes \in Nat
                          /\ ShortBytes \in Nat
                          /\ SummaryBytes \subseteq Nat
                          /\ StatusBytes + ShortBytes <= Reserve

ASSUME BoundsAssumption == MaxSamples \in Nat

Threads == Workers \cup {Main, Flusher}
Samples == Workers \X (1..MaxSamples)
States == {"complete", "incomplete"}

RunStart == [type |-> "run_start"]
Interval(n) == [type |-> "interval", sequence |-> n]
Summary(s, total) == [type |-> "run_summary", state |-> s, total |-> total]

Records ==
  {RunStart} \cup {Interval(n) : n \in 1..MaxIntervals}
    \cup {Summary(s, total) : s \in States, total \in SUBSET Samples}

\* What a line of the file says; telemetry is the telemetry_state of a summary.
Lines ==
  [type: {"run_start", "export_status"}] \cup [type: {"interval"}, sequence: 1..MaxIntervals]
    \cup [type: {"run_summary"}, state: States, telemetry: States,
          total: SUBSET Samples]

ASSUME NoneAssumption == None \notin Records

VARIABLES
  interval,         \* _interval: the samples since the latest flush
  summary,          \* _summary: the samples flushed before
  sequence,         \* _sequence
  intervalRecords,  \* _interval_records
  dropped,          \* _dropped_records is not zero
  truncated,        \* _output_truncated
  exporterError,    \* _exporter_error
  finished,         \* _finished
  failed,           \* ResilientTelemetryRecorder._failed
  queue,            \* _queue
  flusherStop,      \* _flusher_stop
  writerStop,       \* _writer_stop
  pc,               \* where each thread stands
  hand,             \* the record that a thread is about to put on the queue
  ending,           \* the state that a thread in finish was called with
  left,             \* samples that a worker has still to record
  writer,           \* where the writer stands
  holding,          \* the record that the writer has taken
  bytes,            \* bytes_written
  statusWritten,    \* truncation_written
  file,             \* the lines of the artifact
  recorded,         \* history: every sample added to an interval
  late              \* history: a join of the flusher timed out

aggregates == <<interval, summary, sequence, intervalRecords, recorded>>
flags == <<dropped, truncated, exporterError>>
ends == <<finished, failed, flusherStop, writerStop, ending, late>>
writerVars == <<writer, holding, bytes, statusWritten, file>>
vars == <<aggregates, flags, ends, queue, pc, hand, left, writerVars>>

\* The recorder is constructed: the threads are started, run_start is queued.
Init ==
  /\ interval = {}
  /\ summary = {}
  /\ sequence = 0
  /\ intervalRecords = 0
  /\ dropped = FALSE
  /\ truncated = FALSE
  /\ exporterError = FALSE
  /\ finished = FALSE
  /\ failed = FALSE
  /\ queue = <<RunStart>>
  /\ flusherStop = FALSE
  /\ writerStop = FALSE
  /\ pc = [t \in Threads |-> "idle"]
  /\ hand = [t \in Threads |-> None]
  /\ ending = [t \in Threads |-> "incomplete"]
  /\ left = [t \in Workers |-> MaxSamples]
  /\ writer = "opening"
  /\ holding = None
  /\ bytes = 0
  /\ statusWritten = FALSE
  /\ file = <<>>
  /\ recorded = {}
  /\ late = FALSE

Goto(t, label) == pc' = [pc EXCEPT ![t] = label]

-----------------------------------------------------------------------------
(***************************************************************************)
(* record_http_response, record_page and the others, in a request thread.   *)
(***************************************************************************)

\* active is read without the lock.
Record(t) ==
  /\ pc[t] = "idle"
  /\ left[t] > 0
  /\ left' = [left EXCEPT ![t] = @ - 1]
  /\ IF finished \/ failed THEN UNCHANGED pc ELSE Goto(t, "recording")
  /\ UNCHANGED <<aggregates, flags, ends, queue, hand, writerVars>>

\* The sample is added to the interval, and a flush may be due.
AddSample(t) ==
  /\ pc[t] = "recording"
  /\ LET sample == <<t, MaxSamples - left[t]>>
     IN  /\ interval' = interval \cup {sample}
         /\ recorded' = recorded \cup {sample}
  /\ \E label \in {"idle", "flush"} : Goto(t, label)
  /\ UNCHANGED <<summary, sequence, intervalRecords, flags, ends, queue, hand,
                 left, writerVars>>

\* A recorder method raises; the wrapper lets it finish the recording.
Fault(t) ==
  /\ pc[t] = "recording"
  /\ failed' = TRUE
  /\ ending' = [ending EXCEPT ![t] = "incomplete"]
  /\ Goto(t, "finish")
  /\ UNCHANGED <<aggregates, flags, finished, flusherStop, writerStop, late,
                 queue, hand, left, writerVars>>

-----------------------------------------------------------------------------
(***************************************************************************)
(* flush, by a request thread that finds it due, by the flusher and, for    *)
(* the last time, by finish.                                                *)
(***************************************************************************)

\* Where a thread goes from the flush it stands at.
AfterFlush(t) == IF pc[t] = "lastFlush" THEN "summarise" ELSE "idle"

Flushing(t) == pc[t] \in {"flush", "lastFlush"}

\* There is nothing to flush, or the flush is not due any more.
FlushNothing(t) ==
  /\ Flushing(t)
  /\ \/ interval = {}
     \/ t \in Workers /\ pc[t] = "flush"
  /\ Goto(t, AfterFlush(t))
  /\ UNCHANGED <<aggregates, flags, ends, queue, hand, left, writerVars>>

\* Wrong: the interval goes on (SamplesConserved), its number is not used up
\* (IntervalsOnce).
TakeIntervalKeeps ==
  /\ interval # {}
  /\ sequence' = sequence + 1
  /\ summary' = summary \cup interval
  /\ UNCHANGED <<interval, recorded>>

TakeIntervalUnnumbered ==
  /\ interval # {}
  /\ summary' = summary \cup interval
  /\ interval' = {}
  /\ UNCHANGED <<sequence, recorded>>

\* The interval is merged into the summary and a new one begins.
TakeInterval ==
  /\ interval # {}
  /\ sequence' = sequence + 1
  /\ summary' = summary \cup interval
  /\ interval' = {}
  /\ UNCHANGED recorded

\* Its record goes to the queue once the lock is free,
FlushRecord(t) ==
  /\ Flushing(t)
  /\ TakeInterval
  /\ intervalRecords < MaxIntervals
  /\ intervalRecords' = intervalRecords + 1
  /\ hand' = [hand EXCEPT ![t] = Interval(sequence + 1)]
  /\ Goto(t, IF pc[t] = "lastFlush" THEN "lastPut" ELSE "put")
  /\ UNCHANGED <<flags, ends, queue, left, writerVars>>

\* unless there have been enough records.
FlushOverLimit(t) ==
  /\ Flushing(t)
  /\ TakeInterval
  /\ intervalRecords >= MaxIntervals
  /\ dropped' = TRUE
  /\ truncated' = TRUE
  /\ Goto(t, AfterFlush(t))
  /\ UNCHANGED <<intervalRecords, exporterError, ends, queue, hand, left,
                 writerVars>>

\* The flusher wakes up, or stops.
FlusherWakes ==
  /\ pc[Flusher] = "idle"
  /\ Goto(Flusher, IF flusherStop THEN "exited" ELSE "flush")
  /\ UNCHANGED <<aggregates, flags, ends, queue, hand, left, writerVars>>

-----------------------------------------------------------------------------
(***************************************************************************)
(* _enqueue.  Nobody waits for room; only the summary makes room for itself *)
(* by taking out the oldest record.                                         *)
(***************************************************************************)
\* Wrong: the queue has no bound of its own (TypeOK).
HasRoomForOneMore == Len(queue) <= Capacity

HasRoom == Len(queue) < Capacity

AfterPut(t) == CASE pc[t] = "put"     -> "idle"
                 [] pc[t] = "lastPut" -> "summarise"
                 [] OTHER             -> "stopWriter"

\* put_nowait, the first time or after the eviction
Put(t) ==
  /\ pc[t] \in {"put", "lastPut", "putSummary", "putAgain"}
  /\ HasRoom
  /\ queue' = Append(queue, hand[t])
  /\ hand' = [hand EXCEPT ![t] = None]
  /\ Goto(t, AfterPut(t))
  /\ UNCHANGED <<aggregates, flags, ends, left, writerVars>>

\* An interval record is dropped.
DropRecord(t) ==
  /\ pc[t] \in {"put", "lastPut"}
  /\ ~HasRoom
  /\ dropped' = TRUE
  /\ hand' = [hand EXCEPT ![t] = None]
  /\ Goto(t, AfterPut(t))
  /\ UNCHANGED <<aggregates, truncated, exporterError, ends, queue, left,
                 writerVars>>

\* Wrong: the thread waits for room (CollectionReturns).
SummaryWaitsForRoom(t) ==
  /\ pc[t] = "putSummary"
  /\ ~HasRoom
  /\ UNCHANGED vars

SummaryFindsNoRoom(t) ==
  /\ pc[t] = "putSummary"
  /\ ~HasRoom
  /\ dropped' = TRUE
  /\ Goto(t, "evict")
  /\ UNCHANGED <<aggregates, truncated, exporterError, ends, queue, hand, left,
                 writerVars>>

Evict(t) ==
  /\ pc[t] = "evict"
  /\ queue # <<>>
  /\ queue' = Tail(queue)
  /\ Goto(t, "putAgain")
  /\ UNCHANGED <<aggregates, flags, ends, hand, left, writerVars>>

\* The writer has emptied the queue in between, or another thread has filled
\* it: the summary is lost.
LoseSummary(t) ==
  /\ \/ pc[t] = "evict" /\ queue = <<>>
     \/ pc[t] = "putAgain" /\ ~HasRoom
  /\ exporterError' = TRUE
  /\ hand' = [hand EXCEPT ![t] = None]
  /\ Goto(t, "stopWriter")
  /\ UNCHANGED <<aggregates, dropped, truncated, ends, queue, left, writerVars>>

-----------------------------------------------------------------------------
(***************************************************************************)
(* finish                                                                  *)
(***************************************************************************)

\* The collection ends: well when every request thread is done, or with an
\* exception.  After a fault the wrapper does not call the recorder.
CollectionEnds(state) ==
  /\ pc[Main] = "idle"
  /\ state = "complete" => \A t \in Workers : pc[t] = "idle" /\ left[t] = 0
  /\ ending' = [ending EXCEPT ![Main] = state]
  /\ Goto(Main, IF failed THEN "done" ELSE "finish")
  /\ UNCHANGED <<aggregates, flags, finished, failed, flusherStop, writerStop,
                 late, queue, hand, left, writerVars>>

Back(t) == IF t = Main THEN "done" ELSE "idle"

\* if self._finished: return
Finish(t) ==
  /\ pc[t] = "finish"
  /\ Goto(t, IF finished THEN Back(t) ELSE "claim")
  /\ UNCHANGED <<aggregates, flags, ends, queue, hand, left, writerVars>>

\* self._finished = True; nothing keeps two threads from getting here.
Claim(t) ==
  /\ pc[t] = "claim"
  /\ finished' = TRUE
  /\ flusherStop' = TRUE
  /\ Goto(t, "joinFlusher")
  /\ UNCHANGED <<aggregates, flags, failed, writerStop, ending, late, queue,
                 hand, left, writerVars>>

\* The join ends when the flusher has, or after EXPORTER_JOIN_TIMEOUT_SECONDS.
JoinFlusher(t) ==
  /\ pc[t] = "joinFlusher"
  /\ late' = (late \/ pc[Flusher] # "exited")
  /\ Goto(t, "lastFlush")
  /\ UNCHANGED <<aggregates, flags, finished, failed, flusherStop, writerStop,
                 ending, queue, hand, left, writerVars>>

Summarise(t) ==
  /\ pc[t] = "summarise"
  /\ hand' = [hand EXCEPT ![t] = Summary(ending[t], summary)]
  /\ Goto(t, "putSummary")
  /\ UNCHANGED <<aggregates, flags, ends, queue, left, writerVars>>

StopWriter(t) ==
  /\ pc[t] = "stopWriter"
  /\ writerStop' = TRUE
  /\ Goto(t, "joinWriter")
  /\ UNCHANGED <<aggregates, flags, finished, failed, flusherStop, ending, late,
                 queue, hand, left, writerVars>>

\* The join ends when the writer has, or times out.
JoinWriter(t) ==
  /\ pc[t] = "joinWriter"
  /\ Goto(t, Back(t))
  /\ UNCHANGED <<aggregates, flags, ends, queue, hand, left, writerVars>>

-----------------------------------------------------------------------------
(***************************************************************************)
(* _writer_loop                                                            *)
(***************************************************************************)

Open ==
  /\ writer = "opening"
  /\ writer' = "running"
  /\ UNCHANGED <<aggregates, flags, ends, queue, pc, hand, left, holding, bytes,
                 statusWritten, file>>

Get ==
  /\ writer = "running"
  /\ holding = None
  /\ queue # <<>>
  /\ holding' = Head(queue)
  /\ queue' = Tail(queue)
  /\ UNCHANGED <<aggregates, flags, ends, pc, hand, left, writer, bytes,
                 statusWritten, file>>

\* Wrong: nothing is kept for the summary (ReserveIsKept).
DataLimitWhole == MaxBytes

DataLimit == MaxBytes - Reserve

\* A line is written and flushed; the writer is ready for the next record.
WriteLine(line, size) ==
  /\ file' = Append(file, line)
  /\ bytes' = bytes + size
  /\ holding' = None
  /\ UNCHANGED writer

WriteData ==
  /\ holding # None
  /\ holding.type # "run_summary"
  /\ bytes + RecordBytes <= DataLimit
  /\ WriteLine(holding, RecordBytes)
  /\ UNCHANGED <<aggregates, flags, ends, queue, pc, hand, left, statusWritten>>

\* The record does not fit any more; the first time the file says so.
WriteTruncation ==
  /\ holding # None
  /\ holding.type # "run_summary"
  /\ bytes + RecordBytes > DataLimit
  /\ truncated' = TRUE
  /\ statusWritten' = TRUE
  /\ IF statusWritten
     THEN holding' = None /\ UNCHANGED <<file, bytes, writer>>
     ELSE WriteLine([type |-> "export_status"], StatusBytes)
  /\ UNCHANGED <<aggregates, dropped, exporterError, ends, queue, pc, hand,
                 left>>

\* Wrong: records that were dropped are forgotten (CompleteIsHonest).
TelemetryStateIgnoresDrops ==
  IF holding.state = "complete" /\ ~truncated /\ ~exporterError
  THEN "complete" ELSE "incomplete"

\* The state of the telemetry as the writer sees it when it gets to the
\* summary.
TelemetryState ==
  IF holding.state = "complete" /\ ~dropped /\ ~truncated /\ ~exporterError
  THEN "complete" ELSE "incomplete"

SummaryLine(telemetry) ==
  [type |-> "run_summary", state |-> holding.state, telemetry |-> telemetry,
   total |-> holding.total]

\* The summary may use the reserve.  If it is too long, a short one without
\* measurements is written, if that fits.
WriteSummary(size) ==
  /\ holding # None
  /\ holding.type = "run_summary"
  /\ \/ /\ bytes + size <= MaxBytes
        /\ WriteLine(SummaryLine(TelemetryState), size)
        /\ UNCHANGED truncated
     \/ /\ bytes + size > MaxBytes
        /\ bytes + ShortBytes <= MaxBytes
        /\ WriteLine([SummaryLine("incomplete") EXCEPT !.total = {}], ShortBytes)
        /\ truncated' = TRUE
     \/ /\ bytes + size > MaxBytes
        /\ bytes + ShortBytes > MaxBytes
        /\ holding' = None
        /\ truncated' = TRUE
        /\ UNCHANGED <<file, bytes, writer>>
  /\ UNCHANGED <<aggregates, dropped, exporterError, ends, queue, pc, hand, left,
                 statusWritten>>

\* Opening or writing raises: the queue is emptied and the thread ends.
WriterFails ==
  /\ writer = "opening" \/ holding # None
  /\ exporterError' = TRUE
  /\ queue' = <<>>
  /\ holding' = None
  /\ writer' = "exited"
  /\ UNCHANGED <<aggregates, dropped, truncated, ends, pc, hand, left, bytes,
                 statusWritten, file>>

\* Wrong: the writer leaves what is in the queue (SummaryArrives).
WriterExitsAtOnce ==
  /\ writer = "running"
  /\ holding = None
  /\ writerStop
  /\ writer' = "exited"
  /\ UNCHANGED <<aggregates, flags, ends, queue, pc, hand, left, holding, bytes,
                 statusWritten, file>>

WriterExits ==
  /\ writer = "running"
  /\ holding = None
  /\ writerStop
  /\ queue = <<>>
  /\ writer' = "exited"
  /\ UNCHANGED <<aggregates, flags, ends, queue, pc, hand, left, holding, bytes,
                 statusWritten, file>>

-----------------------------------------------------------------------------
FlushStep(t) == FlushNothing(t) \/ FlushRecord(t) \/ FlushOverLimit(t)

PutStep(t) == \/ Put(t) \/ DropRecord(t) \/ SummaryFindsNoRoom(t) \/ Evict(t)
              \/ LoseSummary(t)

FinishStep(t) == \/ Finish(t) \/ Claim(t) \/ JoinFlusher(t) \/ Summarise(t)
                 \/ StopWriter(t) \/ JoinWriter(t)

WorkerStep(t) == Record(t) \/ AddSample(t)

WriterStep == \/ Open \/ Get \/ WriteData \/ WriteTruncation
              \/ \E size \in SummaryBytes : WriteSummary(size)
              \/ WriterExits

\* The process may end, with its daemon threads, once the collection has.
ProcessEnds ==
  /\ pc[Main] = "done"
  /\ UNCHANGED vars

Next ==
  \/ \E t \in Workers : WorkerStep(t) \/ Fault(t)
  \/ \E t \in Threads : FlushStep(t) \/ PutStep(t) \/ FinishStep(t)
  \/ FlusherWakes
  \/ \E state \in States : CollectionEnds(state)
  \/ WriterStep
  \/ WriterFails
  \/ ProcessEnds

Spec == Init /\ [][Next]_vars

\* The collection ends; every thread runs, while the process does.
Fairness ==
  /\ \A t \in Workers : WF_vars(WorkerStep(t))
  /\ \A t \in Threads : WF_vars(FlushStep(t) \/ PutStep(t) \/ FinishStep(t))
  /\ WF_vars(FlusherWakes)
  /\ WF_vars(CollectionEnds("incomplete"))
  /\ WF_vars(WriterStep)

FairSpec == Spec /\ Fairness

-----------------------------------------------------------------------------
Labels == {"idle", "recording", "flush", "put", "finish", "claim", "joinFlusher",
           "lastFlush", "lastPut", "summarise", "putSummary", "evict",
           "putAgain", "stopWriter", "joinWriter", "done", "exited"}

TypeOK ==
  /\ interval \subseteq Samples /\ summary \subseteq Samples
  /\ recorded \subseteq Samples
  /\ sequence \in Nat /\ intervalRecords \in 0..MaxIntervals
  /\ dropped \in BOOLEAN /\ truncated \in BOOLEAN /\ exporterError \in BOOLEAN
  /\ finished \in BOOLEAN /\ failed \in BOOLEAN /\ late \in BOOLEAN
  /\ flusherStop \in BOOLEAN /\ writerStop \in BOOLEAN
  /\ queue \in Seq(Records) /\ Len(queue) <= Capacity
  /\ pc \in [Threads -> Labels]
  /\ hand \in [Threads -> Records \cup {None}]
  /\ ending \in [Threads -> States]
  /\ left \in [Workers -> 0..MaxSamples]
  /\ writer \in {"opening", "running", "exited"}
  /\ holding \in Records \cup {None}
  /\ bytes \in Nat
  /\ statusWritten \in BOOLEAN
  /\ file \in Seq(Lines)

\* However many threads flush at once, each sample is counted once: in the
\* current interval or in the summary.
SamplesConserved ==
  /\ interval \cup summary = recorded
  /\ interval \cap summary = {}

\* However many threads finish the recording and however late a record comes,
\* the file outgrows its bound at most by one truncation notice.
FileNearlyBounded == bytes <= MaxBytes + StatusBytes

LinesOf(type) == {i \in DOMAIN file : file[i].type = type}

\* The reserve is kept for the summary: the first one always fits, a short one
\* at least.
ReserveIsKept == LinesOf("run_summary") = {} => bytes + ShortBytes <= MaxBytes

\* The file stays within its bound and keeps room for the summary.
FileKeepsItsBounds == FileNearlyBounded /\ ReserveIsKept

\* The summary says that telemetry is complete.
ClaimsComplete(line) == line.type = "run_summary" /\ line.telemetry = "complete"

\* What such a summary promises: it counts every sample, and the file begins
\* with the run_start record and holds the record of every interval.
HoldsEverything(line) ==
  /\ file[1].type = "run_start"
  /\ line.total = recorded
  /\ \A n \in 1..sequence :
       \E i \in LinesOf("interval") : file[i].sequence = n

\* A summary that claims to be complete is, if the flusher was done when it
\* was made.
CompleteIsHonest ==
  \A i \in DOMAIN file :
    ClaimsComplete(file[i]) /\ ~late => HoldsEverything(file[i])

\* No record is written twice, and no two records have the same number.
IntervalsOnce ==
  \A i, j \in LinesOf("interval") : file[i].sequence = file[j].sequence => i = j

\* The file tells no more and no less than what was recorded, as far as it
\* claims to.
FileIsHonest == CompleteIsHonest /\ IntervalsOnce

\* Telemetry never blocks the collection: finish always returns.
CollectionReturns == <>(pc[Main] = "done")

\* While the process runs on, a summary follows the end of the collection,
\* unless the recorder or the exporter failed.
SummaryArrives ==
  finished ~> (exporterError \/ failed \/ LinesOf("run_summary") # {})

\* README.md: "Output truncation, dropped records, and exporter failure are
\* explicit": a summary without them holds everything.
LossIsExplicit ==
  \A i \in DOMAIN file : ClaimsComplete(file[i]) => HoldsEverything(file[i])
=============================================================================
