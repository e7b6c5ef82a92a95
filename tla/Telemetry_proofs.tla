-------------------------- MODULE Telemetry_proofs --------------------------
(***************************************************************************)
(* Proofs about Telemetry, for any number of request threads and any        *)
(* setting.                                                                *)
(***************************************************************************)
EXTENDS Telemetry, SequenceTheorems, TLAPS

\* The records that the threads queue are records, and none of them is None.
LEMMA RecordTypes ==
  /\ RunStart \in Records
  /\ \A n \in 1..MaxIntervals : Interval(n) \in Records
  /\ \A s \in States, total \in SUBSET Samples : Summary(s, total) \in Records
BY DEF Records

\* So are the lines that the writer writes.
LEMMA LineTypes ==
  /\ [type |-> "run_start"] \in Lines
  /\ [type |-> "export_status"] \in Lines
BY DEF Lines

\* A record that is no summary is written as it is,
LEMMA DataLines ==
  \A r \in Records : r.type # "run_summary" => r \in Lines
BY DEF Records, RunStart, Interval, Summary, Lines

\* a summary with the state of the telemetry,
LEMMA SummaryLines ==
  ASSUME holding \in Records, holding.type = "run_summary",
         NEW telemetry \in States
  PROVE  SummaryLine(telemetry) \in Lines
<1>1. PICK s \in States, total \in SUBSET Samples : holding = Summary(s, total)
  BY DEF Records, RunStart, Interval
<1> QED
  BY <1>1 DEF SummaryLine, Summary, Lines

\* perhaps without its measurements.
LEMMA ShortLines ==
  ASSUME SummaryLine("incomplete") \in Lines
  PROVE  [SummaryLine("incomplete") EXCEPT !.total = {}] \in Lines
BY DEF SummaryLine, Lines, States

-----------------------------------------------------------------------------
\* Every interval has had a record, as long as there may be more.
Numbered == intervalRecords < MaxIntervals => sequence = intervalRecords

LEMMA NumberedStep == TypeOK /\ Numbered /\ [Next]_vars => Numbered'
<1> SUFFICES ASSUME TypeOK, Numbered, [Next]_vars
             PROVE  Numbered'
  OBVIOUS
<1>1. ASSUME NEW t \in Workers, Record(t)
      PROVE  Numbered'
  BY <1>1 DEF Record, Threads, TypeOK, Numbered, aggregates, flags, ends,
    writerVars
<1>2. ASSUME NEW t \in Workers, AddSample(t)
      PROVE  Numbered'
  BY <1>2 DEF AddSample, Threads, Samples, TypeOK, Numbered, aggregates, flags,
    ends, writerVars
<1>3. ASSUME NEW t \in Workers, Fault(t)
      PROVE  Numbered'
  BY <1>3 DEF Fault, Threads, States, TypeOK, Numbered, aggregates, flags, ends,
    writerVars
<1>4. ASSUME NEW t \in Threads, FlushNothing(t)
      PROVE  Numbered'
  BY <1>4 DEF FlushNothing, Flushing, AfterFlush, TypeOK, Numbered, aggregates,
    flags, ends, writerVars
<1>5. ASSUME NEW t \in Threads, FlushRecord(t)
      PROVE  Numbered'
  BY <1>5 DEF FlushRecord, Flushing, TakeInterval, TypeOK, Numbered, aggregates,
    flags, ends, writerVars
<1>6. ASSUME NEW t \in Threads, FlushOverLimit(t)
      PROVE  Numbered'
  BY <1>6, SettingsAssumption DEF FlushOverLimit, TypeOK, Numbered
<1>7. ASSUME NEW t \in Threads, Put(t)
      PROVE  Numbered'
  BY <1>7 DEF Put, HasRoom, AfterPut, TypeOK, Numbered, aggregates, flags, ends,
    writerVars
<1>8. ASSUME NEW t \in Threads, DropRecord(t)
      PROVE  Numbered'
  BY <1>8 DEF DropRecord, AfterPut, TypeOK, Numbered, aggregates, flags, ends,
    writerVars
<1>9. ASSUME NEW t \in Threads, SummaryFindsNoRoom(t)
      PROVE  Numbered'
  BY <1>9 DEF SummaryFindsNoRoom, TypeOK, Numbered, aggregates, flags, ends,
    writerVars
<1>10. ASSUME NEW t \in Threads, Evict(t)
      PROVE  Numbered'
  BY <1>10 DEF Evict, TypeOK, Numbered, aggregates, flags, ends, writerVars
<1>11. ASSUME NEW t \in Threads, LoseSummary(t)
      PROVE  Numbered'
  BY <1>11 DEF LoseSummary, TypeOK, Numbered, aggregates, flags, ends,
    writerVars
<1>12. ASSUME NEW t \in Threads, Finish(t)
      PROVE  Numbered'
  BY <1>12 DEF Finish, Back, TypeOK, Numbered, aggregates, flags, ends,
    writerVars
<1>13. ASSUME NEW t \in Threads, Claim(t)
      PROVE  Numbered'
  BY <1>13 DEF Claim, TypeOK, Numbered, aggregates, flags, ends, writerVars
<1>14. ASSUME NEW t \in Threads, JoinFlusher(t)
      PROVE  Numbered'
  BY <1>14 DEF JoinFlusher, TypeOK, Numbered, aggregates, flags, ends,
    writerVars
<1>15. ASSUME NEW t \in Threads, Summarise(t)
      PROVE  Numbered'
  BY <1>15 DEF Summarise, TypeOK, Numbered, aggregates, flags, ends, writerVars
<1>16. ASSUME NEW t \in Threads, StopWriter(t)
      PROVE  Numbered'
  BY <1>16 DEF StopWriter, TypeOK, Numbered, aggregates, flags, ends, writerVars
<1>17. ASSUME NEW t \in Threads, JoinWriter(t)
      PROVE  Numbered'
  BY <1>17 DEF JoinWriter, Back, TypeOK, Numbered, aggregates, flags, ends,
    writerVars
<1>18. CASE FlusherWakes
  BY <1>18 DEF FlusherWakes, Threads, TypeOK, Numbered, aggregates, flags, ends,
    writerVars
<1>19. ASSUME NEW state \in States, CollectionEnds(state)
      PROVE  Numbered'
  BY <1>19 DEF CollectionEnds, Threads, TypeOK, Numbered, aggregates, flags,
    ends, writerVars
<1>20. CASE Open
  BY <1>20 DEF Open, TypeOK, Numbered, aggregates, flags, ends, writerVars
<1>21. CASE Get
  BY <1>21 DEF Get, TypeOK, Numbered, aggregates, flags, ends, writerVars
<1>22. CASE WriteData
  BY <1>22 DEF WriteData, WriteLine, TypeOK, Numbered, aggregates, flags, ends,
    writerVars
<1>23. CASE WriteTruncation
  BY <1>23 DEF WriteTruncation, WriteLine, TypeOK, Numbered, aggregates, flags,
    ends, writerVars
<1>24. ASSUME NEW size \in SummaryBytes, WriteSummary(size)
      PROVE  Numbered'
  BY <1>24 DEF WriteSummary, WriteLine, TypeOK, Numbered, aggregates, flags,
    ends, writerVars
<1>25. CASE WriterExits
  BY <1>25 DEF WriterExits, TypeOK, Numbered, aggregates, flags, ends,
    writerVars
<1>26. CASE WriterFails
  BY <1>26 DEF WriterFails, TypeOK, Numbered, aggregates, flags, ends,
    writerVars
<1>27. CASE ProcessEnds
  BY <1>27 DEF ProcessEnds, vars, TypeOK, Numbered, aggregates, flags, ends,
    writerVars
<1>28. CASE UNCHANGED vars
  BY <1>28 DEF vars, TypeOK, Numbered, aggregates, flags, ends, writerVars
<1> QED
  BY <1>1, <1>2, <1>3, <1>4, <1>5, <1>6, <1>7, <1>8, <1>9, <1>10, <1>11, <1>12,
    <1>13, <1>14, <1>15, <1>16, <1>17, <1>18, <1>19, <1>20, <1>21, <1>22, <1>23,
    <1>24, <1>25, <1>26, <1>27, <1>28 DEF Next, WorkerStep, FlushStep, PutStep,
    FinishStep, WriterStep

\* A thread that is about to put a record on the queue has one.
HandsFull ==
  \A t \in Threads :
    pc[t] \in {"put", "lastPut", "putSummary", "evict", "putAgain"}
      => hand[t] \in Records

LEMMA HandsStep == TypeOK /\ Numbered /\ HandsFull /\ [Next]_vars => HandsFull'
<1> SUFFICES ASSUME TypeOK, Numbered, HandsFull, [Next]_vars
             PROVE  HandsFull'
  OBVIOUS
<1> USE RecordTypes
<1>1. ASSUME NEW t \in Workers, Record(t)
      PROVE  HandsFull'
  BY <1>1 DEF Record, Threads, TypeOK, HandsFull, Goto, aggregates, flags, ends,
    writerVars
<1>2. ASSUME NEW t \in Workers, AddSample(t)
      PROVE  HandsFull'
  BY <1>2 DEF AddSample, Threads, Samples, TypeOK, HandsFull, Goto, aggregates,
    flags, ends, writerVars
<1>3. ASSUME NEW t \in Workers, Fault(t)
      PROVE  HandsFull'
  BY <1>3 DEF Fault, Threads, States, TypeOK, HandsFull, Goto, aggregates,
    flags, ends, writerVars
<1>4. ASSUME NEW t \in Threads, FlushNothing(t)
      PROVE  HandsFull'
  BY <1>4 DEF FlushNothing, Flushing, AfterFlush, TypeOK, HandsFull, Goto,
    aggregates, flags, ends, writerVars
<1>5. ASSUME NEW t \in Threads, FlushRecord(t)
      PROVE  HandsFull'
  <2>1. Interval(sequence + 1) \in Records
    BY <1>5, SettingsAssumption DEF FlushRecord, Numbered, TypeOK
  <2> QED
    BY <1>5, <2>1 DEF FlushRecord, TypeOK, HandsFull, Goto
<1>6. ASSUME NEW t \in Threads, FlushOverLimit(t)
      PROVE  HandsFull'
  BY <1>6 DEF FlushOverLimit, Flushing, TakeInterval, AfterFlush, TypeOK,
    HandsFull, Goto, aggregates, flags, ends, writerVars
<1>7. ASSUME NEW t \in Threads, Put(t)
      PROVE  HandsFull'
  BY <1>7 DEF Put, HasRoom, AfterPut, TypeOK, HandsFull, Goto, aggregates,
    flags, ends, writerVars
<1>8. ASSUME NEW t \in Threads, DropRecord(t)
      PROVE  HandsFull'
  BY <1>8 DEF DropRecord, AfterPut, TypeOK, HandsFull, Goto, aggregates, flags,
    ends, writerVars
<1>9. ASSUME NEW t \in Threads, SummaryFindsNoRoom(t)
      PROVE  HandsFull'
  BY <1>9 DEF SummaryFindsNoRoom, TypeOK, HandsFull, Goto, aggregates, flags,
    ends, writerVars
<1>10. ASSUME NEW t \in Threads, Evict(t)
      PROVE  HandsFull'
  BY <1>10 DEF Evict, TypeOK, HandsFull, Goto, aggregates, flags, ends,
    writerVars
<1>11. ASSUME NEW t \in Threads, LoseSummary(t)
      PROVE  HandsFull'
  BY <1>11 DEF LoseSummary, TypeOK, HandsFull, Goto, aggregates, flags, ends,
    writerVars
<1>12. ASSUME NEW t \in Threads, Finish(t)
      PROVE  HandsFull'
  BY <1>12 DEF Finish, Back, TypeOK, HandsFull, Goto, aggregates, flags, ends,
    writerVars
<1>13. ASSUME NEW t \in Threads, Claim(t)
      PROVE  HandsFull'
  BY <1>13 DEF Claim, TypeOK, HandsFull, Goto, aggregates, flags, ends,
    writerVars
<1>14. ASSUME NEW t \in Threads, JoinFlusher(t)
      PROVE  HandsFull'
  BY <1>14 DEF JoinFlusher, TypeOK, HandsFull, Goto, aggregates, flags, ends,
    writerVars
<1>15. ASSUME NEW t \in Threads, Summarise(t)
      PROVE  HandsFull'
  BY <1>15 DEF Summarise, TypeOK, HandsFull, Goto, aggregates, flags, ends,
    writerVars
<1>16. ASSUME NEW t \in Threads, StopWriter(t)
      PROVE  HandsFull'
  BY <1>16 DEF StopWriter, TypeOK, HandsFull, Goto, aggregates, flags, ends,
    writerVars
<1>17. ASSUME NEW t \in Threads, JoinWriter(t)
      PROVE  HandsFull'
  BY <1>17 DEF JoinWriter, Back, TypeOK, HandsFull, Goto, aggregates, flags,
    ends, writerVars
<1>18. CASE FlusherWakes
  BY <1>18 DEF FlusherWakes, Threads, TypeOK, HandsFull, Goto, aggregates,
    flags, ends, writerVars
<1>19. ASSUME NEW state \in States, CollectionEnds(state)
      PROVE  HandsFull'
  BY <1>19 DEF CollectionEnds, Threads, TypeOK, HandsFull, Goto, aggregates,
    flags, ends, writerVars
<1>20. CASE Open
  BY <1>20 DEF Open, TypeOK, HandsFull, Goto, aggregates, flags, ends,
    writerVars
<1>21. CASE Get
  BY <1>21 DEF Get, TypeOK, HandsFull, Goto, aggregates, flags, ends, writerVars
<1>22. CASE WriteData
  BY <1>22 DEF WriteData, WriteLine, TypeOK, HandsFull, Goto, aggregates, flags,
    ends, writerVars
<1>23. CASE WriteTruncation
  BY <1>23 DEF WriteTruncation, WriteLine, TypeOK, HandsFull, Goto, aggregates,
    flags, ends, writerVars
<1>24. ASSUME NEW size \in SummaryBytes, WriteSummary(size)
      PROVE  HandsFull'
  BY <1>24 DEF WriteSummary, WriteLine, TypeOK, HandsFull, Goto, aggregates,
    flags, ends, writerVars
<1>25. CASE WriterExits
  BY <1>25 DEF WriterExits, TypeOK, HandsFull, Goto, aggregates, flags, ends,
    writerVars
<1>26. CASE WriterFails
  BY <1>26 DEF WriterFails, TypeOK, HandsFull, Goto, aggregates, flags, ends,
    writerVars
<1>27. CASE ProcessEnds
  BY <1>27 DEF ProcessEnds, vars, TypeOK, HandsFull, Goto, aggregates, flags,
    ends, writerVars
<1>28. CASE UNCHANGED vars
  BY <1>28 DEF vars, TypeOK, HandsFull, Goto, aggregates, flags, ends,
    writerVars
<1> QED
  BY <1>1, <1>2, <1>3, <1>4, <1>5, <1>6, <1>7, <1>8, <1>9, <1>10, <1>11, <1>12,
    <1>13, <1>14, <1>15, <1>16, <1>17, <1>18, <1>19, <1>20, <1>21, <1>22, <1>23,
    <1>24, <1>25, <1>26, <1>27, <1>28 DEF Next, WorkerStep, FlushStep, PutStep,
    FinishStep, WriterStep

\* A thread that records has taken a sample from those it had left.
StartedInv == \A t \in Workers : pc[t] = "recording" => left[t] < MaxSamples

LEMMA StartedStep == TypeOK /\ StartedInv /\ [Next]_vars => StartedInv'
<1> SUFFICES ASSUME TypeOK, StartedInv, [Next]_vars
             PROVE  StartedInv'
  OBVIOUS
<1> USE BoundsAssumption
<1>1. ASSUME NEW t \in Workers, Record(t)
      PROVE  StartedInv'
  BY <1>1 DEF Record, Threads, TypeOK, StartedInv, Threads, Goto, aggregates,
    flags, ends, writerVars
<1>2. ASSUME NEW t \in Workers, AddSample(t)
      PROVE  StartedInv'
  BY <1>2 DEF AddSample, Threads, Samples, TypeOK, StartedInv, Threads, Goto,
    aggregates, flags, ends, writerVars
<1>3. ASSUME NEW t \in Workers, Fault(t)
      PROVE  StartedInv'
  BY <1>3 DEF Fault, Threads, States, TypeOK, StartedInv, Threads, Goto,
    aggregates, flags, ends, writerVars
<1>4. ASSUME NEW t \in Threads, FlushNothing(t)
      PROVE  StartedInv'
  BY <1>4 DEF FlushNothing, Flushing, AfterFlush, TypeOK, StartedInv, Threads,
    Goto, aggregates, flags, ends, writerVars
<1>5. ASSUME NEW t \in Threads, FlushRecord(t)
      PROVE  StartedInv'
  BY <1>5 DEF FlushRecord, Flushing, TakeInterval, TypeOK, StartedInv, Threads,
    Goto, aggregates, flags, ends, writerVars
<1>6. ASSUME NEW t \in Threads, FlushOverLimit(t)
      PROVE  StartedInv'
  BY <1>6 DEF FlushOverLimit, Flushing, TakeInterval, AfterFlush, TypeOK,
    StartedInv, Threads, Goto, aggregates, flags, ends, writerVars
<1>7. ASSUME NEW t \in Threads, Put(t)
      PROVE  StartedInv'
  BY <1>7 DEF Put, HasRoom, AfterPut, TypeOK, StartedInv, Threads, Goto,
    aggregates, flags, ends, writerVars
<1>8. ASSUME NEW t \in Threads, DropRecord(t)
      PROVE  StartedInv'
  BY <1>8 DEF DropRecord, AfterPut, TypeOK, StartedInv, Threads, Goto,
    aggregates, flags, ends, writerVars
<1>9. ASSUME NEW t \in Threads, SummaryFindsNoRoom(t)
      PROVE  StartedInv'
  BY <1>9 DEF SummaryFindsNoRoom, TypeOK, StartedInv, Threads, Goto, aggregates,
    flags, ends, writerVars
<1>10. ASSUME NEW t \in Threads, Evict(t)
      PROVE  StartedInv'
  BY <1>10 DEF Evict, TypeOK, StartedInv, Threads, Goto, aggregates, flags,
    ends, writerVars
<1>11. ASSUME NEW t \in Threads, LoseSummary(t)
      PROVE  StartedInv'
  BY <1>11 DEF LoseSummary, TypeOK, StartedInv, Threads, Goto, aggregates,
    flags, ends, writerVars
<1>12. ASSUME NEW t \in Threads, Finish(t)
      PROVE  StartedInv'
  BY <1>12 DEF Finish, Back, TypeOK, StartedInv, Threads, Goto, aggregates,
    flags, ends, writerVars
<1>13. ASSUME NEW t \in Threads, Claim(t)
      PROVE  StartedInv'
  BY <1>13 DEF Claim, TypeOK, StartedInv, Threads, Goto, aggregates, flags,
    ends, writerVars
<1>14. ASSUME NEW t \in Threads, JoinFlusher(t)
      PROVE  StartedInv'
  BY <1>14 DEF JoinFlusher, TypeOK, StartedInv, Threads, Goto, aggregates,
    flags, ends, writerVars
<1>15. ASSUME NEW t \in Threads, Summarise(t)
      PROVE  StartedInv'
  BY <1>15 DEF Summarise, TypeOK, StartedInv, Threads, Goto, aggregates, flags,
    ends, writerVars
<1>16. ASSUME NEW t \in Threads, StopWriter(t)
      PROVE  StartedInv'
  BY <1>16 DEF StopWriter, TypeOK, StartedInv, Threads, Goto, aggregates, flags,
    ends, writerVars
<1>17. ASSUME NEW t \in Threads, JoinWriter(t)
      PROVE  StartedInv'
  BY <1>17 DEF JoinWriter, Back, TypeOK, StartedInv, Threads, Goto, aggregates,
    flags, ends, writerVars
<1>18. CASE FlusherWakes
  BY <1>18 DEF FlusherWakes, Threads, TypeOK, StartedInv, Threads, Goto,
    aggregates, flags, ends, writerVars
<1>19. ASSUME NEW state \in States, CollectionEnds(state)
      PROVE  StartedInv'
  BY <1>19 DEF CollectionEnds, Threads, TypeOK, StartedInv, Threads, Goto,
    aggregates, flags, ends, writerVars
<1>20. CASE Open
  BY <1>20 DEF Open, TypeOK, StartedInv, Threads, Goto, aggregates, flags, ends,
    writerVars
<1>21. CASE Get
  BY <1>21 DEF Get, TypeOK, StartedInv, Threads, Goto, aggregates, flags, ends,
    writerVars
<1>22. CASE WriteData
  BY <1>22 DEF WriteData, WriteLine, TypeOK, StartedInv, Threads, Goto,
    aggregates, flags, ends, writerVars
<1>23. CASE WriteTruncation
  BY <1>23 DEF WriteTruncation, WriteLine, TypeOK, StartedInv, Threads, Goto,
    aggregates, flags, ends, writerVars
<1>24. ASSUME NEW size \in SummaryBytes, WriteSummary(size)
      PROVE  StartedInv'
  BY <1>24 DEF WriteSummary, WriteLine, TypeOK, StartedInv, Threads, Goto,
    aggregates, flags, ends, writerVars
<1>25. CASE WriterExits
  BY <1>25 DEF WriterExits, TypeOK, StartedInv, Threads, Goto, aggregates,
    flags, ends, writerVars
<1>26. CASE WriterFails
  BY <1>26 DEF WriterFails, TypeOK, StartedInv, Threads, Goto, aggregates,
    flags, ends, writerVars
<1>27. CASE ProcessEnds
  BY <1>27 DEF ProcessEnds, vars, TypeOK, StartedInv, Threads, Goto, aggregates,
    flags, ends, writerVars
<1>28. CASE UNCHANGED vars
  BY <1>28 DEF vars, TypeOK, StartedInv, Threads, Goto, aggregates, flags, ends,
    writerVars
<1> QED
  BY <1>1, <1>2, <1>3, <1>4, <1>5, <1>6, <1>7, <1>8, <1>9, <1>10, <1>11, <1>12,
    <1>13, <1>14, <1>15, <1>16, <1>17, <1>18, <1>19, <1>20, <1>21, <1>22, <1>23,
    <1>24, <1>25, <1>26, <1>27, <1>28 DEF Next, WorkerStep, FlushStep, PutStep,
    FinishStep, WriterStep

\* Every step keeps the types.
LEMMA TypeStep == TypeOK /\ Numbered /\ HandsFull /\ StartedInv /\ [Next]_vars => TypeOK'
<1> SUFFICES ASSUME TypeOK, Numbered, HandsFull, StartedInv, [Next]_vars
             PROVE  TypeOK'
  OBVIOUS
<1> USE SettingsAssumption, SizesAssumption, BoundsAssumption, RecordTypes, LineTypes
<1>1. ASSUME NEW t \in Workers, Record(t)
      PROVE  TypeOK'
  <2>1. t \in Threads /\ left[t] \in 0..MaxSamples
    BY <1>1 DEF TypeOK, Threads
  <2>2. left' \in [Workers -> 0..MaxSamples]
    BY <1>1, <2>1 DEF Record, TypeOK
  <2>3. pc' \in [Threads -> Labels]
    BY <1>1, <2>1 DEF Record, TypeOK, Labels, Goto
  <2> QED
    BY <1>1, <2>2, <2>3 DEF Record, TypeOK, aggregates, flags, ends, writerVars
<1>2. ASSUME NEW t \in Workers, AddSample(t)
      PROVE  TypeOK'
  <2>1. t \in Threads /\ left[t] \in 0..MaxSamples
    BY <1>2 DEF TypeOK, Threads
  <2>2. <<t, MaxSamples - left[t]>> \in Samples
    BY <1>2, <2>1 DEF AddSample, Samples, StartedInv
  <2>3. interval' \subseteq Samples /\ recorded' \subseteq Samples
    BY <1>2, <2>2 DEF AddSample, TypeOK
  <2>4. pc' \in [Threads -> Labels]
    BY <1>2, <2>1 DEF AddSample, TypeOK, Labels, Goto
  <2> QED
    BY <1>2, <2>3, <2>4 DEF AddSample, TypeOK, flags, ends, writerVars
<1>3. ASSUME NEW t \in Workers, Fault(t)
      PROVE  TypeOK'
  BY <1>3 DEF Fault, Threads, States, TypeOK, Numbered, Labels, Goto,
    aggregates, flags, ends, writerVars
<1>4. ASSUME NEW t \in Threads, FlushNothing(t)
      PROVE  TypeOK'
  BY <1>4 DEF FlushNothing, Flushing, AfterFlush, TypeOK, Numbered, Labels,
    Goto, aggregates, flags, ends, writerVars
<1>5. ASSUME NEW t \in Threads, FlushRecord(t)
      PROVE  TypeOK'
  <2>1. Interval(sequence + 1) \in Records
    BY <1>5, SettingsAssumption DEF FlushRecord, Numbered, TypeOK
  <2> QED
    BY <1>5, <2>1 DEF FlushRecord, Flushing, TakeInterval, TypeOK, Labels, Goto, ends,
       flags, writerVars
<1>6. ASSUME NEW t \in Threads, FlushOverLimit(t)
      PROVE  TypeOK'
  BY <1>6 DEF FlushOverLimit, Flushing, TakeInterval, AfterFlush, TypeOK,
    Numbered, Labels, Goto, aggregates, flags, ends, writerVars
<1>7. ASSUME NEW t \in Threads, Put(t)
      PROVE  TypeOK'
  <2>1. hand[t] \in Records
    BY <1>7 DEF Put, HandsFull
  <2>2. queue' \in Seq(Records) /\ Len(queue') <= Capacity
    BY <1>7, <2>1 DEF Put, HasRoom, TypeOK
  <2>3. pc' \in [Threads -> Labels]
    BY <1>7 DEF Put, Goto, AfterPut, TypeOK, Labels
  <2>4. hand' \in [Threads -> Records \cup {None}]
    BY <1>7 DEF Put, TypeOK
  <2> QED
    BY <1>7, <2>2, <2>3, <2>4 DEF Put, TypeOK, aggregates, flags, ends, writerVars
<1>8. ASSUME NEW t \in Threads, DropRecord(t)
      PROVE  TypeOK'
  BY <1>8, SMTT(30) DEF DropRecord, AfterPut, TypeOK, Numbered, Labels, Goto, aggregates,
    flags, ends, writerVars
<1>9. ASSUME NEW t \in Threads, SummaryFindsNoRoom(t)
      PROVE  TypeOK'
  BY <1>9 DEF SummaryFindsNoRoom, TypeOK, Numbered, Labels, Goto, aggregates,
    flags, ends, writerVars
<1>10. ASSUME NEW t \in Threads, Evict(t)
      PROVE  TypeOK'
  BY <1>10 DEF Evict, TypeOK, Numbered, Labels, Goto, aggregates, flags, ends,
    writerVars
<1>11. ASSUME NEW t \in Threads, LoseSummary(t)
      PROVE  TypeOK'
  BY <1>11 DEF LoseSummary, TypeOK, Numbered, Labels, Goto, aggregates, flags,
    ends, writerVars
<1>12. ASSUME NEW t \in Threads, Finish(t)
      PROVE  TypeOK'
  BY <1>12 DEF Finish, Back, TypeOK, Numbered, Labels, Goto, aggregates, flags,
    ends, writerVars
<1>13. ASSUME NEW t \in Threads, Claim(t)
      PROVE  TypeOK'
  BY <1>13 DEF Claim, TypeOK, Numbered, Labels, Goto, aggregates, flags, ends,
    writerVars
<1>14. ASSUME NEW t \in Threads, JoinFlusher(t)
      PROVE  TypeOK'
  BY <1>14 DEF JoinFlusher, TypeOK, Numbered, Labels, Goto, aggregates, flags,
    ends, writerVars
<1>15. ASSUME NEW t \in Threads, Summarise(t)
      PROVE  TypeOK'
  BY <1>15 DEF Summarise, TypeOK, Numbered, Labels, Goto, aggregates, flags,
    ends, writerVars
<1>16. ASSUME NEW t \in Threads, StopWriter(t)
      PROVE  TypeOK'
  BY <1>16 DEF StopWriter, TypeOK, Numbered, Labels, Goto, aggregates, flags,
    ends, writerVars
<1>17. ASSUME NEW t \in Threads, JoinWriter(t)
      PROVE  TypeOK'
  BY <1>17 DEF JoinWriter, Back, TypeOK, Numbered, Labels, Goto, aggregates,
    flags, ends, writerVars
<1>18. CASE FlusherWakes
  BY <1>18 DEF FlusherWakes, Threads, TypeOK, Numbered, Labels, Goto,
    aggregates, flags, ends, writerVars
<1>19. ASSUME NEW state \in States, CollectionEnds(state)
      PROVE  TypeOK'
  BY <1>19 DEF CollectionEnds, Threads, TypeOK, Numbered, Labels, Goto,
    aggregates, flags, ends, writerVars
<1>20. CASE Open
  BY <1>20 DEF Open, TypeOK, Numbered, Labels, Goto, aggregates, flags, ends,
    writerVars
<1>21. CASE Get
  BY <1>21 DEF Get, TypeOK, Numbered, Labels, Goto, aggregates, flags, ends,
    writerVars
<1>22. CASE WriteData
  <2>1. holding \in Lines
    BY <1>22, DataLines DEF WriteData, TypeOK
  <2>2. file' \in Seq(Lines)
    BY <1>22, <2>1 DEF WriteData, WriteLine, TypeOK
  <2> QED
    BY <1>22, <2>2 DEF WriteData, WriteLine, TypeOK, aggregates, flags, ends
<1>23. CASE WriteTruncation
  <2>1. file' \in Seq(Lines)
    <3>1. file \in Seq(Lines)
      BY DEF TypeOK
    <3>2. \/ file' = file
          \/ file' = Append(file, [type |-> "export_status"])
      BY <1>23 DEF WriteTruncation, WriteLine
    <3> QED
      BY <3>1, <3>2, LineTypes
  <2> QED
    BY <1>23, <2>1 DEF WriteTruncation, WriteLine, TypeOK, aggregates, ends
<1>24. ASSUME NEW size \in SummaryBytes, WriteSummary(size)
      PROVE  TypeOK'
  <2>1. \A telemetry \in States : SummaryLine(telemetry) \in Lines
    BY <1>24, SummaryLines DEF WriteSummary, TypeOK
  <2>2. [SummaryLine("incomplete") EXCEPT !.total = {}] \in Lines
    BY <2>1, ShortLines DEF States
  <2>3. TelemetryState \in States
    BY DEF TelemetryState, States
  <2>4. file' \in Seq(Lines)
    <3>1. file \in Seq(Lines)
      BY DEF TypeOK
    <3>2. \/ file' = file
          \/ \E line \in Lines : file' = Append(file, line)
      BY <1>24, <2>1, <2>2, <2>3 DEF WriteSummary, WriteLine
    <3> QED
      BY <3>1, <3>2
  <2>5. bytes' \in Nat
    BY <1>24 DEF WriteSummary, WriteLine, TypeOK
  <2> QED
    BY <1>24, <2>4, <2>5, ZenonT(30) DEF WriteSummary, WriteLine, TypeOK, aggregates, ends
<1>25. CASE WriterExits
  BY <1>25 DEF WriterExits, TypeOK, Numbered, Labels, Goto, aggregates, flags,
    ends, writerVars
<1>26. CASE WriterFails
  BY <1>26 DEF WriterFails, TypeOK, Numbered, Labels, Goto, aggregates, flags,
    ends, writerVars
<1>27. CASE ProcessEnds
  BY <1>27 DEF ProcessEnds, vars, TypeOK, Numbered, Labels, Goto, aggregates,
    flags, ends, writerVars
<1>28. CASE UNCHANGED vars
  BY <1>28 DEF vars, TypeOK, Numbered, Labels, Goto, aggregates, flags, ends,
    writerVars
<1> QED
  BY <1>1, <1>2, <1>3, <1>4, <1>5, <1>6, <1>7, <1>8, <1>9, <1>10, <1>11, <1>12,
    <1>13, <1>14, <1>15, <1>16, <1>17, <1>18, <1>19, <1>20, <1>21, <1>22, <1>23,
    <1>24, <1>25, <1>26, <1>27, <1>28 DEF Next, WorkerStep, FlushStep, PutStep,
    FinishStep, WriterStep

LEMMA InitTypes == Init => TypeOK
<1> SUFFICES ASSUME Init
             PROVE  TypeOK
  OBVIOUS
<1>1. queue \in Seq(Records) /\ Len(queue) <= Capacity
  BY RecordTypes, SettingsAssumption DEF Init
<1>2. file \in Seq(Lines)
  <2>1. file = <<>>
    BY DEF Init
  <2> QED
    BY <2>1
<1>3. /\ pc \in [Threads -> Labels]
      /\ hand \in [Threads -> Records \cup {None}]
      /\ ending \in [Threads -> States]
      /\ left \in [Workers -> 0..MaxSamples]
  BY BoundsAssumption DEF Init, Labels, States
<1>4. /\ sequence \in Nat /\ intervalRecords \in 0..MaxIntervals
      /\ bytes \in Nat
  BY SettingsAssumption DEF Init
<1>5. /\ interval \subseteq Samples /\ summary \subseteq Samples
      /\ recorded \subseteq Samples /\ holding \in Records \cup {None}
  BY DEF Init
<1>6. /\ dropped \in BOOLEAN /\ truncated \in BOOLEAN /\ exporterError \in BOOLEAN
      /\ finished \in BOOLEAN /\ failed \in BOOLEAN /\ late \in BOOLEAN
      /\ flusherStop \in BOOLEAN /\ writerStop \in BOOLEAN
      /\ statusWritten \in BOOLEAN /\ writer \in {"opening", "running", "exited"}
  BY DEF Init
<1> QED
  BY <1>1, <1>2, <1>3, <1>4, <1>5, <1>6 DEF TypeOK

\* TypeCorrect: every variable keeps to its type; in particular the queue never
\* holds more than queue_capacity records.
THEOREM TypeCorrect == Spec => []TypeOK
<1>1. Init => TypeOK
  BY InitTypes
<1>2. Init => Numbered /\ HandsFull /\ StartedInv
  BY DEF Init, Numbered, HandsFull, StartedInv, Threads
<1>3. TypeOK /\ Numbered /\ HandsFull /\ StartedInv /\ [Next]_vars
        => (TypeOK /\ Numbered /\ HandsFull /\ StartedInv)'
  BY TypeStep, NumberedStep, HandsStep, StartedStep
<1> QED
  BY <1>1, <1>2, <1>3, PTL DEF Spec

-----------------------------------------------------------------------------
\* A thread that records has a sample less to record.
LEMMA StartedCorrect == Spec => []StartedInv
<1>1. Init => StartedInv
  BY DEF Init, StartedInv, Threads
<1> QED
  BY <1>1, StartedStep, TypeCorrect, PTL DEF Spec

(***************************************************************************)
(* Samples.                                                                *)
(***************************************************************************)

\* The sample that a thread is about to add is none of those recorded.
SampleInv ==
  /\ SamplesConserved
  /\ \A t \in Workers, n \in 1..MaxSamples :
       <<t, n>> \in recorded =>
         /\ n <= MaxSamples - left[t]
         /\ pc[t] = "recording" => n < MaxSamples - left[t]

LEMMA SampleStep == TypeOK /\ StartedInv /\ SampleInv /\ [Next]_vars => SampleInv'
<1> SUFFICES ASSUME TypeOK, StartedInv, SampleInv, [Next]_vars
             PROVE  SampleInv'
  OBVIOUS
<1> USE BoundsAssumption
<1>1. ASSUME NEW t \in Workers, Record(t)
      PROVE  SampleInv'
  BY <1>1 DEF Record, Threads, TypeOK, SampleInv, SamplesConserved, Threads,
    Goto, aggregates, flags, ends, writerVars
<1>2. ASSUME NEW t \in Workers, AddSample(t)
      PROVE  SampleInv'
  BY <1>2 DEF AddSample, Threads, Samples, TypeOK, SampleInv, SamplesConserved,
    Threads, Goto, aggregates, flags, ends, writerVars
<1>3. ASSUME NEW t \in Workers, Fault(t)
      PROVE  SampleInv'
  BY <1>3 DEF Fault, Threads, States, TypeOK, SampleInv, SamplesConserved,
    Threads, Goto, aggregates, flags, ends, writerVars
<1>4. ASSUME NEW t \in Threads, FlushNothing(t)
      PROVE  SampleInv'
  BY <1>4 DEF FlushNothing, Flushing, AfterFlush, TypeOK, SampleInv,
    SamplesConserved, Threads, Goto, aggregates, flags, ends, writerVars
<1>5. ASSUME NEW t \in Threads, FlushRecord(t)
      PROVE  SampleInv'
  BY <1>5 DEF FlushRecord, Flushing, TakeInterval, TypeOK, SampleInv,
    SamplesConserved, Threads, Goto, aggregates, flags, ends, writerVars
<1>6. ASSUME NEW t \in Threads, FlushOverLimit(t)
      PROVE  SampleInv'
  BY <1>6 DEF FlushOverLimit, Flushing, TakeInterval, AfterFlush, TypeOK,
    SampleInv, SamplesConserved, Threads, Goto, aggregates, flags, ends,
    writerVars
<1>7. ASSUME NEW t \in Threads, Put(t)
      PROVE  SampleInv'
  BY <1>7 DEF Put, HasRoom, AfterPut, TypeOK, SampleInv, SamplesConserved,
    Threads, Goto, aggregates, flags, ends, writerVars
<1>8. ASSUME NEW t \in Threads, DropRecord(t)
      PROVE  SampleInv'
  BY <1>8 DEF DropRecord, AfterPut, TypeOK, SampleInv, SamplesConserved,
    Threads, Goto, aggregates, flags, ends, writerVars
<1>9. ASSUME NEW t \in Threads, SummaryFindsNoRoom(t)
      PROVE  SampleInv'
  BY <1>9 DEF SummaryFindsNoRoom, TypeOK, SampleInv, SamplesConserved, Threads,
    Goto, aggregates, flags, ends, writerVars
<1>10. ASSUME NEW t \in Threads, Evict(t)
      PROVE  SampleInv'
  BY <1>10 DEF Evict, TypeOK, SampleInv, SamplesConserved, Threads, Goto,
    aggregates, flags, ends, writerVars
<1>11. ASSUME NEW t \in Threads, LoseSummary(t)
      PROVE  SampleInv'
  BY <1>11 DEF LoseSummary, TypeOK, SampleInv, SamplesConserved, Threads, Goto,
    aggregates, flags, ends, writerVars
<1>12. ASSUME NEW t \in Threads, Finish(t)
      PROVE  SampleInv'
  BY <1>12 DEF Finish, Back, TypeOK, SampleInv, SamplesConserved, Threads, Goto,
    aggregates, flags, ends, writerVars
<1>13. ASSUME NEW t \in Threads, Claim(t)
      PROVE  SampleInv'
  BY <1>13 DEF Claim, TypeOK, SampleInv, SamplesConserved, Threads, Goto,
    aggregates, flags, ends, writerVars
<1>14. ASSUME NEW t \in Threads, JoinFlusher(t)
      PROVE  SampleInv'
  BY <1>14 DEF JoinFlusher, TypeOK, SampleInv, SamplesConserved, Threads, Goto,
    aggregates, flags, ends, writerVars
<1>15. ASSUME NEW t \in Threads, Summarise(t)
      PROVE  SampleInv'
  BY <1>15 DEF Summarise, TypeOK, SampleInv, SamplesConserved, Threads, Goto,
    aggregates, flags, ends, writerVars
<1>16. ASSUME NEW t \in Threads, StopWriter(t)
      PROVE  SampleInv'
  BY <1>16 DEF StopWriter, TypeOK, SampleInv, SamplesConserved, Threads, Goto,
    aggregates, flags, ends, writerVars
<1>17. ASSUME NEW t \in Threads, JoinWriter(t)
      PROVE  SampleInv'
  BY <1>17 DEF JoinWriter, Back, TypeOK, SampleInv, SamplesConserved, Threads,
    Goto, aggregates, flags, ends, writerVars
<1>18. CASE FlusherWakes
  BY <1>18 DEF FlusherWakes, Threads, TypeOK, SampleInv, SamplesConserved,
    Threads, Goto, aggregates, flags, ends, writerVars
<1>19. ASSUME NEW state \in States, CollectionEnds(state)
      PROVE  SampleInv'
  BY <1>19 DEF CollectionEnds, Threads, TypeOK, SampleInv, SamplesConserved,
    Threads, Goto, aggregates, flags, ends, writerVars
<1>20. CASE Open
  BY <1>20 DEF Open, TypeOK, SampleInv, SamplesConserved, Threads, Goto,
    aggregates, flags, ends, writerVars
<1>21. CASE Get
  BY <1>21 DEF Get, TypeOK, SampleInv, SamplesConserved, Threads, Goto,
    aggregates, flags, ends, writerVars
<1>22. CASE WriteData
  BY <1>22 DEF WriteData, WriteLine, TypeOK, SampleInv, SamplesConserved,
    Threads, Goto, aggregates, flags, ends, writerVars
<1>23. CASE WriteTruncation
  BY <1>23 DEF WriteTruncation, WriteLine, TypeOK, SampleInv, SamplesConserved,
    Threads, Goto, aggregates, flags, ends, writerVars
<1>24. ASSUME NEW size \in SummaryBytes, WriteSummary(size)
      PROVE  SampleInv'
  BY <1>24 DEF WriteSummary, WriteLine, TypeOK, SampleInv, SamplesConserved,
    Threads, Goto, aggregates, flags, ends, writerVars
<1>25. CASE WriterExits
  BY <1>25 DEF WriterExits, TypeOK, SampleInv, SamplesConserved, Threads, Goto,
    aggregates, flags, ends, writerVars
<1>26. CASE WriterFails
  BY <1>26 DEF WriterFails, TypeOK, SampleInv, SamplesConserved, Threads, Goto,
    aggregates, flags, ends, writerVars
<1>27. CASE ProcessEnds
  BY <1>27 DEF ProcessEnds, vars, TypeOK, SampleInv, SamplesConserved, Threads,
    Goto, aggregates, flags, ends, writerVars
<1>28. CASE UNCHANGED vars
  BY <1>28 DEF vars, TypeOK, SampleInv, SamplesConserved, Threads, Goto,
    aggregates, flags, ends, writerVars
<1> QED
  BY <1>1, <1>2, <1>3, <1>4, <1>5, <1>6, <1>7, <1>8, <1>9, <1>10, <1>11, <1>12,
    <1>13, <1>14, <1>15, <1>16, <1>17, <1>18, <1>19, <1>20, <1>21, <1>22, <1>23,
    <1>24, <1>25, <1>26, <1>27, <1>28 DEF Next, WorkerStep, FlushStep, PutStep,
    FinishStep, WriterStep

\* SamplesAreConserved: every sample that was recorded is counted once, in the
\* interval or in the summary, however the flushes of the threads interleave.
THEOREM SamplesAreConserved == Spec => []SamplesConserved
<1>1. Init => SampleInv
  BY DEF Init, SampleInv, SamplesConserved
<1>2. SampleInv => SamplesConserved
  BY DEF SampleInv
<1> QED
  BY <1>1, <1>2, SampleStep, TypeCorrect, StartedCorrect, PTL DEF Spec

-----------------------------------------------------------------------------
(***************************************************************************)
(* The size of the file.                                                   *)
(***************************************************************************)

\* The notice that the file may hold.
NoticeBytes == IF statusWritten THEN StatusBytes ELSE 0

\* Without a summary only the notice may use the reserve.
SizeInv ==
  /\ bytes <= MaxBytes + NoticeBytes
  /\ LinesOf("run_summary") = {} => bytes <= DataLimit + NoticeBytes

\* A file that has no summary after a line was appended had none before.
LEMMA NoSummaryYet ==
  ASSUME TypeOK, NEW line, file' = Append(file, line),
         LinesOf("run_summary")' = {}
  PROVE  LinesOf("run_summary") = {} /\ line.type # "run_summary"
<1>1. /\ Len(file') = Len(file) + 1
      /\ file'[Len(file) + 1] = line
      /\ \A i \in 1..Len(file) : file'[i] = file[i]
      /\ Len(file) \in Nat /\ DOMAIN file = 1..Len(file)
      /\ DOMAIN file' = 1..Len(file')
  BY DEF TypeOK
<1> QED
  BY <1>1 DEF LinesOf

LEMMA SizeStep == TypeOK /\ SizeInv /\ [Next]_vars => SizeInv'
<1> SUFFICES ASSUME TypeOK, SizeInv, [Next]_vars
             PROVE  SizeInv'
  OBVIOUS
<1> USE SettingsAssumption, SizesAssumption
<1>0. bytes \in Nat /\ statusWritten \in BOOLEAN /\ DataLimit \in Int
  BY DEF TypeOK, DataLimit
<1>1. ASSUME NEW t \in Workers, Record(t)
      PROVE  SizeInv'
  BY <1>1 DEF Record, Threads, SizeInv, NoticeBytes, LinesOf, DataLimit,
    aggregates, flags, ends, writerVars
<1>2. ASSUME NEW t \in Workers, AddSample(t)
      PROVE  SizeInv'
  BY <1>2 DEF AddSample, Threads, Samples, SizeInv, NoticeBytes, LinesOf,
    DataLimit, aggregates, flags, ends, writerVars
<1>3. ASSUME NEW t \in Workers, Fault(t)
      PROVE  SizeInv'
  BY <1>3 DEF Fault, Threads, States, SizeInv, NoticeBytes, LinesOf, DataLimit,
    aggregates, flags, ends, writerVars
<1>4. ASSUME NEW t \in Threads, FlushNothing(t)
      PROVE  SizeInv'
  BY <1>4 DEF FlushNothing, Flushing, AfterFlush, SizeInv, NoticeBytes, LinesOf,
    DataLimit, aggregates, flags, ends, writerVars
<1>5. ASSUME NEW t \in Threads, FlushRecord(t)
      PROVE  SizeInv'
  BY <1>5 DEF FlushRecord, Flushing, TakeInterval, SizeInv, NoticeBytes,
    LinesOf, DataLimit, aggregates, flags, ends, writerVars
<1>6. ASSUME NEW t \in Threads, FlushOverLimit(t)
      PROVE  SizeInv'
  BY <1>6 DEF FlushOverLimit, Flushing, TakeInterval, AfterFlush, SizeInv,
    NoticeBytes, LinesOf, DataLimit, aggregates, flags, ends, writerVars
<1>7. ASSUME NEW t \in Threads, Put(t)
      PROVE  SizeInv'
  BY <1>7 DEF Put, HasRoom, AfterPut, SizeInv, NoticeBytes, LinesOf, DataLimit,
    aggregates, flags, ends, writerVars
<1>8. ASSUME NEW t \in Threads, DropRecord(t)
      PROVE  SizeInv'
  BY <1>8 DEF DropRecord, AfterPut, SizeInv, NoticeBytes, LinesOf, DataLimit,
    aggregates, flags, ends, writerVars
<1>9. ASSUME NEW t \in Threads, SummaryFindsNoRoom(t)
      PROVE  SizeInv'
  BY <1>9 DEF SummaryFindsNoRoom, SizeInv, NoticeBytes, LinesOf, DataLimit,
    aggregates, flags, ends, writerVars
<1>10. ASSUME NEW t \in Threads, Evict(t)
      PROVE  SizeInv'
  BY <1>10 DEF Evict, SizeInv, NoticeBytes, LinesOf, DataLimit, aggregates,
    flags, ends, writerVars
<1>11. ASSUME NEW t \in Threads, LoseSummary(t)
      PROVE  SizeInv'
  BY <1>11 DEF LoseSummary, SizeInv, NoticeBytes, LinesOf, DataLimit,
    aggregates, flags, ends, writerVars
<1>12. ASSUME NEW t \in Threads, Finish(t)
      PROVE  SizeInv'
  BY <1>12 DEF Finish, Back, SizeInv, NoticeBytes, LinesOf, DataLimit,
    aggregates, flags, ends, writerVars
<1>13. ASSUME NEW t \in Threads, Claim(t)
      PROVE  SizeInv'
  BY <1>13 DEF Claim, SizeInv, NoticeBytes, LinesOf, DataLimit, aggregates,
    flags, ends, writerVars
<1>14. ASSUME NEW t \in Threads, JoinFlusher(t)
      PROVE  SizeInv'
  BY <1>14 DEF JoinFlusher, SizeInv, NoticeBytes, LinesOf, DataLimit,
    aggregates, flags, ends, writerVars
<1>15. ASSUME NEW t \in Threads, Summarise(t)
      PROVE  SizeInv'
  BY <1>15 DEF Summarise, SizeInv, NoticeBytes, LinesOf, DataLimit, aggregates,
    flags, ends, writerVars
<1>16. ASSUME NEW t \in Threads, StopWriter(t)
      PROVE  SizeInv'
  BY <1>16 DEF StopWriter, SizeInv, NoticeBytes, LinesOf, DataLimit, aggregates,
    flags, ends, writerVars
<1>17. ASSUME NEW t \in Threads, JoinWriter(t)
      PROVE  SizeInv'
  BY <1>17 DEF JoinWriter, Back, SizeInv, NoticeBytes, LinesOf, DataLimit,
    aggregates, flags, ends, writerVars
<1>18. CASE FlusherWakes
  BY <1>18 DEF FlusherWakes, Threads, SizeInv, NoticeBytes, LinesOf, DataLimit,
    aggregates, flags, ends, writerVars
<1>19. ASSUME NEW state \in States, CollectionEnds(state)
      PROVE  SizeInv'
  BY <1>19 DEF CollectionEnds, Threads, SizeInv, NoticeBytes, LinesOf,
    DataLimit, aggregates, flags, ends, writerVars
<1>20. CASE Open
  BY <1>20 DEF Open, SizeInv, NoticeBytes, LinesOf, DataLimit, aggregates,
    flags, ends, writerVars
<1>21. CASE Get
  BY <1>21 DEF Get, SizeInv, NoticeBytes, LinesOf, DataLimit, aggregates, flags,
    ends, writerVars
<1>22. CASE WriteData
  BY <1>22 DEF WriteData, WriteLine, SizeInv, NoticeBytes, LinesOf, DataLimit,
    aggregates, flags, ends, writerVars
<1>23. CASE WriteTruncation
  <2>1. CASE statusWritten
    BY <1>23, <2>1 DEF WriteTruncation, SizeInv, NoticeBytes, LinesOf, DataLimit
  <2>2. CASE ~statusWritten
    <3>1. /\ file' = Append(file, [type |-> "export_status"])
          /\ bytes' = bytes + StatusBytes
          /\ statusWritten'
      BY <1>23, <2>2 DEF WriteTruncation, WriteLine
    <3>2. LinesOf("run_summary")' = {} => LinesOf("run_summary") = {}
      BY <3>1, NoSummaryYet
    <3> QED
      BY <1>0, <2>2, <3>1, <3>2 DEF SizeInv, NoticeBytes, DataLimit
  <2> QED
    BY <2>1, <2>2, <1>0
<1>24. ASSUME NEW size \in SummaryBytes, WriteSummary(size)
      PROVE  SizeInv'
  <2>1. CASE UNCHANGED <<file, bytes>>
    BY <1>24, <2>1 DEF WriteSummary, SizeInv, NoticeBytes, LinesOf, DataLimit
  <2>2. CASE /\ \E line : line.type = "run_summary" /\ file' = Append(file, line)
             /\ bytes' <= MaxBytes
    <3>1. LinesOf("run_summary")' # {}
      BY <2>2, NoSummaryYet
    <3>2. NoticeBytes' \in Nat
      BY <1>0 DEF NoticeBytes
    <3>3. size \in Nat /\ ShortBytes \in Nat
      BY <1>24
    <3>4. bytes' \in {bytes, bytes + size, bytes + ShortBytes}
      BY <1>24 DEF WriteSummary, WriteLine
    <3>5. bytes' \in Nat
      BY <1>0, <3>3, <3>4
    <3>6. bytes' <= MaxBytes
      BY <2>2
    <3>7. bytes' <= MaxBytes + NoticeBytes'
      <4>1. \A b, m, n \in Nat : b <= m => b <= m + n
        OBVIOUS
      <4>2. MaxBytes \in Nat
        OBVIOUS
      <4> QED
        BY <3>2, <3>5, <3>6, <4>1, <4>2
    <3> QED
      BY <3>1, <3>7 DEF SizeInv
  <2>3. SummaryLine(TelemetryState).type = "run_summary"
    BY DEF SummaryLine
  <2>4. [SummaryLine("incomplete") EXCEPT !.total = {}].type = "run_summary"
    BY DEF SummaryLine
  <2> QED
    BY <1>24, <2>1, <2>2, <2>3, <2>4 DEF WriteSummary, WriteLine
<1>25. CASE WriterExits
  BY <1>25 DEF WriterExits, SizeInv, NoticeBytes, LinesOf, DataLimit,
    aggregates, flags, ends, writerVars
<1>26. CASE WriterFails
  BY <1>26 DEF WriterFails, SizeInv, NoticeBytes, LinesOf, DataLimit,
    aggregates, flags, ends, writerVars
<1>27. CASE ProcessEnds
  BY <1>27 DEF ProcessEnds, vars, SizeInv, NoticeBytes, LinesOf, DataLimit,
    aggregates, flags, ends, writerVars
<1>28. CASE UNCHANGED vars
  BY <1>28 DEF vars, SizeInv, NoticeBytes, LinesOf, DataLimit, aggregates,
    flags, ends, writerVars
<1> QED
  BY <1>1, <1>2, <1>3, <1>4, <1>5, <1>6, <1>7, <1>8, <1>9, <1>10, <1>11, <1>12,
    <1>13, <1>14, <1>15, <1>16, <1>17, <1>18, <1>19, <1>20, <1>21, <1>22, <1>23,
    <1>24, <1>25, <1>26, <1>27, <1>28 DEF Next, WorkerStep, FlushStep, PutStep,
    FinishStep, WriterStep

\* FileIsNearlyBounded: the file outgrows its bound by one truncation notice at
\* most, whatever the sizes of the summaries and however many there are.
THEOREM FileIsNearlyBounded == Spec => []FileNearlyBounded
<1>1. Init => SizeInv
  BY SettingsAssumption DEF Init, SizeInv, NoticeBytes, DataLimit
<1>2. TypeOK /\ SizeInv => FileNearlyBounded
  BY SettingsAssumption, SizesAssumption
  DEF TypeOK, SizeInv, NoticeBytes, FileNearlyBounded
<1> QED
  BY <1>1, <1>2, SizeStep, TypeCorrect, PTL DEF Spec

\* TheReserveIsKept: until a summary was written there is room for a short one.
THEOREM TheReserveIsKept == Spec => []ReserveIsKept
<1>1. Init => SizeInv
  BY SettingsAssumption DEF Init, SizeInv, NoticeBytes, DataLimit
<1>2. TypeOK /\ SizeInv => ReserveIsKept
  BY SettingsAssumption, SizesAssumption
  DEF TypeOK, SizeInv, NoticeBytes, DataLimit, ReserveIsKept
<1> QED
  BY <1>1, <1>2, SizeStep, TypeCorrect, PTL DEF Spec

\* The file stays within its bound and keeps room for the summary.
THEOREM FileBoundsAreKept == Spec => []FileKeepsItsBounds
<1>1. FileNearlyBounded /\ ReserveIsKept => FileKeepsItsBounds
  BY DEF FileKeepsItsBounds
<1>2. QED
  BY <1>1, FileIsNearlyBounded, TheReserveIsKept, PTL

-----------------------------------------------------------------------------
(***************************************************************************)
(* What the file says.                                                     *)
(***************************************************************************)

\* Where the record of interval n may be on its way to the file.
InHand(n) == \E t \in Threads : hand[t] = Interval(n)
InQueue(n) == \E i \in DOMAIN queue : queue[i] = Interval(n)
Held(n) == holding = Interval(n)
InFile(n) == \E i \in DOMAIN file : file[i] = Interval(n)

\* Each record is in one place, and only those of intervals that have ended.
OnceInv ==
  /\ \A n \in 1..MaxIntervals :
       /\ InHand(n) \/ InQueue(n) \/ Held(n) \/ InFile(n) => n <= sequence
       /\ InHand(n) => ~InQueue(n) /\ ~Held(n) /\ ~InFile(n)
       /\ InQueue(n) => ~Held(n) /\ ~InFile(n)
       /\ Held(n) => ~InFile(n)
  /\ \A n \in 1..MaxIntervals :
       /\ \A t, u \in Threads : hand[t] = Interval(n) /\ hand[u] = Interval(n) => t = u
       /\ \A i, j \in DOMAIN queue : queue[i] = Interval(n) /\ queue[j] = Interval(n) => i = j
       /\ \A i, j \in DOMAIN file : file[i] = Interval(n) /\ file[j] = Interval(n) => i = j

\* Something was lost, and a summary will say so.
Lossy == dropped \/ truncated \/ exporterError

\* Otherwise the record of every interval is somewhere,
WholeInv ==
  ~Lossy => /\ sequence <= MaxIntervals
            /\ \A n \in 1..sequence : InHand(n) \/ InQueue(n) \/ Held(n) \/ InFile(n)

\* and that of the run is ahead of them.
StartInv ==
  ~Lossy => \/ file = <<>> /\ holding = None /\ queue # <<>> /\ queue[1] = RunStart
            \/ file = <<>> /\ holding = RunStart
            \/ file # <<>> /\ file[1].type = "run_start"

\* Threads that are not about to put a record have none; a record is evicted
\* only after another one was dropped.
Putting == {"put", "lastPut", "putSummary", "evict", "putAgain"}
HandsInv ==
  \A t \in Threads : /\ pc[t] \notin Putting => hand[t] = None
                     /\ pc[t] \in {"put", "lastPut"} => hand[t] \in {Interval(n) : n \in 1..MaxIntervals}
                     /\ pc[t] \in {"evict", "putAgain"} => dropped

\* The main thread finishes once, and well only when the request threads are
\* done.
Finishing == {"finish", "claim", "joinFlusher", "lastFlush", "lastPut", "summarise",
              "putSummary", "evict", "putAgain", "stopWriter", "joinWriter", "done"}
EndInv ==
  /\ pc[Main] \in {"idle"} \cup Finishing
  /\ pc[Flusher] \in {"idle", "flush", "put", "exited"}
  /\ \A t \in Threads : ending[t] = "complete" => t = Main
  /\ ending[Main] = "complete" =>
       pc[Main] # "idle" /\ \A t \in Workers : pc[t] = "idle" /\ left[t] = 0
  /\ ~late /\ pc[Main] \in {"lastFlush", "lastPut", "summarise"} => pc[Flusher] = "exited"
  /\ ~late /\ pc[Main] \in {"lastPut", "summarise"} /\ ending[Main] = "complete" => interval = {}

\* Nothing is recorded or flushed any more.
Settled ==
  /\ ending[Main] = "complete"
  /\ pc[Flusher] = "exited"
  /\ interval = {}
Delivered == Settled /\ pc[Main] \in {"stopWriter", "joinWriter", "done"}

Good == {Summary("complete", total) : total \in SUBSET Samples}

\* A summary that may claim completeness is in the hand of the main thread, which
\* has nothing else to do, then the last record of the queue, and then that which
\* the writer holds.
GoodHands == \A t \in Threads :
               hand[t] \in Good => t = Main /\ Settled /\ hand[t].total = recorded
GoodQueue == \A i \in DOMAIN queue :
               queue[i] \in Good => i = Len(queue) /\ Delivered /\ queue[i].total = recorded
GoodHeld == holding \in Good => queue = <<>> /\ Delivered /\ holding.total = recorded

\* Once it is a line, it stays true.
LinesInv == \A i \in DOMAIN file :
              ClaimsComplete(file[i]) => Delivered /\ HoldsEverything(file[i])

SummaryInv == ~late => GoodHands /\ GoodQueue /\ GoodHeld /\ LinesInv


\* Discarding, and all that leaves the records where they are.
Discard(t) == DropRecord(t) \/ LoseSummary(t)
Rest ==
  /\ UNCHANGED <<hand, queue, holding, file, sequence>>
  /\ Lossy => Lossy'

LEMMA RecordMoves ==
  ASSUME TypeOK, [Next]_vars
  PROVE  \/ Rest
         \/ \E t \in Threads : \/ FlushRecord(t) \/ FlushOverLimit(t) \/ Put(t)
                               \/ Discard(t) \/ Evict(t) \/ Summarise(t)
         \/ Get \/ WriteData \/ WriteTruncation \/ WriterFails
         \/ \E size \in SummaryBytes : WriteSummary(size)
<1>1. ASSUME NEW t \in Workers, Record(t) \/ AddSample(t) \/ Fault(t)
      PROVE  Rest
  BY <1>1 DEF Record, AddSample, Fault, Rest, Lossy, aggregates, flags, writerVars
<1>2. ASSUME NEW t \in Threads,
             FlushNothing(t) \/ SummaryFindsNoRoom(t) \/ Finish(t) \/ Claim(t)
               \/ JoinFlusher(t) \/ StopWriter(t) \/ JoinWriter(t)
      PROVE  Rest
  BY <1>2 DEF FlushNothing, SummaryFindsNoRoom, Finish, Claim, JoinFlusher,
              StopWriter, JoinWriter, Rest, Lossy, aggregates, flags, writerVars
<1>3. CASE FlusherWakes \/ Open \/ WriterExits
  BY <1>3 DEF FlusherWakes, Open, WriterExits, Rest, Lossy, aggregates, flags,
              writerVars
<1>4. ASSUME NEW state \in States, CollectionEnds(state)
      PROVE  Rest
  BY <1>4 DEF CollectionEnds, Rest, Lossy, aggregates, flags, writerVars
<1>5. CASE ProcessEnds \/ UNCHANGED vars
  BY <1>5 DEF ProcessEnds, vars, Rest, Lossy, aggregates, flags, writerVars
<1>6. QED
  BY <1>1, <1>2, <1>3, <1>4, <1>5
  DEF Next, WorkerStep, FlushStep, PutStep, FinishStep, WriterStep, Discard

\* The threads' own part: nothing but the threads' steps changes it.
ThreadVars == <<pc, hand, ending, left, late, interval, recorded, sequence>>

LEMMA WriterMoves ==
  ASSUME WriterStep \/ WriterFails \/ ProcessEnds \/ UNCHANGED vars
  PROVE  UNCHANGED ThreadVars /\ (dropped => dropped')
BY DEF WriterStep, WriterFails, ProcessEnds, Open, Get, WriteData, WriteTruncation,
       WriteSummary, WriterExits, vars, ThreadVars, aggregates, flags, ends

LEMMA HandsKept ==
  ASSUME TypeOK, Numbered, HandsInv, [Next]_vars
  PROVE  HandsInv'
<1> USE DEF TypeOK, HandsInv, Putting, Goto
<1>1. ASSUME NEW t \in Workers, Record(t) \/ AddSample(t) \/ Fault(t)
      PROVE  HandsInv'
  BY <1>1 DEF Record, AddSample, Fault, Threads, flags
<1>2. ASSUME NEW t \in Threads, FlushNothing(t)
      PROVE  HandsInv'
  BY <1>2 DEF FlushNothing, Flushing, AfterFlush, flags
<1>3. ASSUME NEW t \in Threads, FlushRecord(t)
      PROVE  HandsInv'
  <2>1. sequence + 1 \in 1..MaxIntervals
    BY <1>3, SettingsAssumption DEF FlushRecord, Numbered
  <2>2. QED
    BY <1>3, <2>1 DEF FlushRecord, Flushing, flags
<1>4. ASSUME NEW t \in Threads, FlushOverLimit(t)
      PROVE  HandsInv'
  BY <1>4 DEF FlushOverLimit, Flushing, AfterFlush
<1>5. ASSUME NEW t \in Threads, Put(t)
      PROVE  HandsInv'
  BY <1>5 DEF Put, AfterPut, flags
<1>6. ASSUME NEW t \in Threads, Discard(t)
      PROVE  HandsInv'
  BY <1>6 DEF Discard, DropRecord, LoseSummary, AfterPut
<1>7. ASSUME NEW t \in Threads, SummaryFindsNoRoom(t) \/ Evict(t)
      PROVE  HandsInv'
  BY <1>7 DEF SummaryFindsNoRoom, Evict, flags
<1>8. ASSUME NEW t \in Threads, Summarise(t)
      PROVE  HandsInv'
  BY <1>8 DEF Summarise, flags
<1>9. ASSUME NEW t \in Threads,
             Finish(t) \/ Claim(t) \/ JoinFlusher(t) \/ StopWriter(t) \/ JoinWriter(t)
      PROVE  HandsInv'
  BY <1>9 DEF Finish, Claim, JoinFlusher, StopWriter, JoinWriter, Back, flags
<1>10. CASE FlusherWakes
  BY <1>10 DEF FlusherWakes, Threads, flags
<1>11. ASSUME NEW state \in States, CollectionEnds(state)
       PROVE  HandsInv'
  BY <1>11 DEF CollectionEnds, Threads, flags
<1>12. CASE WriterStep \/ WriterFails \/ ProcessEnds \/ UNCHANGED vars
  BY <1>12, WriterMoves DEF ThreadVars
<1>13. QED
  BY <1>1, <1>2, <1>3, <1>4, <1>5, <1>6, <1>7, <1>8, <1>9, <1>10, <1>11, <1>12
  DEF Next, WorkerStep, FlushStep, PutStep, FinishStep, Discard

LEMMA EndKept ==
  ASSUME TypeOK, EndInv, [Next]_vars
  PROVE  EndInv'
<1> USE ThreadsAssumption DEF TypeOK, EndInv, Finishing, Goto, Threads
<1>1. ASSUME NEW t \in Workers, Record(t) \/ AddSample(t) \/ Fault(t)
      PROVE  EndInv'
  BY <1>1 DEF Record, AddSample, Fault, States, aggregates, ends
<1>2. ASSUME NEW t \in Threads, FlushNothing(t)
      PROVE  EndInv'
  BY <1>2 DEF FlushNothing, Flushing, AfterFlush, aggregates, ends
<1>3. ASSUME NEW t \in Threads, FlushRecord(t)
      PROVE  EndInv'
  BY <1>3 DEF FlushRecord, Flushing, TakeInterval, ends
<1>4. ASSUME NEW t \in Threads, FlushOverLimit(t)
      PROVE  EndInv'
  BY <1>4 DEF FlushOverLimit, Flushing, AfterFlush, TakeInterval, ends
<1>5. ASSUME NEW t \in Threads, Put(t)
      PROVE  EndInv'
  BY <1>5 DEF Put, AfterPut, aggregates, ends
<1>6. ASSUME NEW t \in Threads, Discard(t)
      PROVE  EndInv'
  BY <1>6 DEF Discard, DropRecord, LoseSummary, AfterPut, aggregates, ends
<1>7. ASSUME NEW t \in Threads, SummaryFindsNoRoom(t) \/ Evict(t)
      PROVE  EndInv'
  BY <1>7 DEF SummaryFindsNoRoom, Evict, aggregates, ends
<1>8. ASSUME NEW t \in Threads, Summarise(t)
      PROVE  EndInv'
  BY <1>8 DEF Summarise, aggregates, ends
<1>9. ASSUME NEW t \in Threads,
             Finish(t) \/ Claim(t) \/ StopWriter(t) \/ JoinWriter(t)
      PROVE  EndInv'
  BY <1>9 DEF Finish, Claim, StopWriter, JoinWriter, Back, aggregates, ends
<1>10. ASSUME NEW t \in Threads, JoinFlusher(t)
       PROVE  EndInv'
  BY <1>10 DEF JoinFlusher, aggregates
<1>11. CASE FlusherWakes
  BY <1>11 DEF FlusherWakes, aggregates, ends
<1>12. ASSUME NEW state \in States, CollectionEnds(state)
       PROVE  EndInv'
  BY <1>12 DEF CollectionEnds, States, aggregates
<1>13. CASE WriterStep \/ WriterFails \/ ProcessEnds \/ UNCHANGED vars
  BY <1>13, WriterMoves DEF ThreadVars
<1>14. QED
  BY <1>1, <1>2, <1>3, <1>4, <1>5, <1>6, <1>7, <1>8, <1>9, <1>10, <1>11, <1>12, <1>13
  DEF Next, WorkerStep, FlushStep, PutStep, FinishStep, Discard

\* Sequences that grow at the end and shrink at the front.
LEMMA Appended ==
  ASSUME NEW S, NEW s \in Seq(S), NEW e
  PROVE  /\ DOMAIN s = 1..Len(s) /\ Len(s) \in Nat
         /\ DOMAIN Append(s, e) = 1..Len(s) + 1
         /\ Len(Append(s, e)) = Len(s) + 1
         /\ \A i \in 1..Len(s) : Append(s, e)[i] = s[i]
         /\ Append(s, e)[Len(s) + 1] = e
OBVIOUS

LEMMA Shortened ==
  ASSUME NEW S, NEW s \in Seq(S), s # <<>>
  PROVE  /\ DOMAIN s = 1..Len(s) /\ Len(s) \in Nat \ {0}
         /\ DOMAIN Tail(s) = 1..Len(s) - 1
         /\ Len(Tail(s)) = Len(s) - 1
         /\ \A i \in 1..Len(s) - 1 : Tail(s)[i] = s[i + 1]
         /\ Head(s) = s[1]
OBVIOUS

\* No record of an interval is None, or of another type.
LEMMA IntervalsApart ==
  ASSUME NEW n \in 1..MaxIntervals
  PROVE  /\ Interval(n) # None /\ Interval(n) # RunStart
         /\ Interval(n).type = "interval" /\ Interval(n).sequence = n
         /\ \A m \in 1..MaxIntervals : Interval(m) = Interval(n) => m = n
         /\ \A s, total : Interval(n) # Summary(s, total)
<1>1. Interval(n).type = "interval" /\ Interval(n).sequence = n
  BY DEF Interval
<1>2. \A s, total : Summary(s, total).type = "run_summary"
  BY DEF Summary
<1>3. RunStart.type = "run_start"
  BY DEF RunStart
<1>4. \A m \in 1..MaxIntervals : Interval(m).sequence = m
  BY DEF Interval
<1>5. QED
  BY <1>1, <1>2, <1>3, <1>4, RecordTypes, NoneAssumption

LEMMA OnceKept ==
  ASSUME TypeOK, Numbered, HandsInv, OnceInv, [Next]_vars
  PROVE  OnceInv'
<1> USE IntervalsApart DEF OnceInv, InHand, InQueue, Held, InFile
<1>0. /\ queue \in Seq(Records) /\ file \in Seq(Lines) /\ sequence \in Nat
      /\ hand \in [Threads -> Records \cup {None}]
  BY DEF TypeOK
<1>1. CASE Rest
  BY <1>1, <1>0 DEF Rest
<1>2. ASSUME NEW t \in Threads, FlushRecord(t)
      PROVE  OnceInv'
  <2>1. /\ hand' = [hand EXCEPT ![t] = Interval(sequence + 1)]
        /\ sequence' = sequence + 1 /\ sequence + 1 \in 1..MaxIntervals
        /\ UNCHANGED <<queue, holding, file>>
    BY <1>0, <1>2, SettingsAssumption
    DEF FlushRecord, TakeInterval, Numbered, TypeOK, writerVars
  <2>2. QED
    BY <1>0, <2>1
<1>3. ASSUME NEW t \in Threads, FlushOverLimit(t)
      PROVE  OnceInv'
  <2>1. sequence' = sequence + 1 /\ UNCHANGED <<hand, queue, holding, file>>
    BY <1>3 DEF FlushOverLimit, TakeInterval, writerVars
  <2>2. QED
    BY <1>0, <2>1
<1>4. ASSUME NEW t \in Threads, Put(t)
      PROVE  OnceInv'
  <2>1. /\ hand' = [hand EXCEPT ![t] = None] /\ queue' = Append(queue, hand[t])
        /\ UNCHANGED <<sequence, holding, file>>
    BY <1>4 DEF Put, aggregates, writerVars
  <2>2. QED
    BY <1>0, <2>1, Appended, SMTT(30)
<1>5. ASSUME NEW t \in Threads, Discard(t) \/ Summarise(t)
      PROVE  OnceInv'
  <2>1. CASE Discard(t)
    <3>1. hand' = [hand EXCEPT ![t] = None] /\ UNCHANGED <<sequence, queue, holding, file>>
      BY <2>1 DEF Discard, DropRecord, LoseSummary, aggregates, writerVars
    <3>2. QED
      BY <1>0, <3>1
  <2>2. CASE Summarise(t)
    <3>1. /\ hand' = [hand EXCEPT ![t] = Summary(ending[t], summary)]
          /\ UNCHANGED <<sequence, queue, holding, file>>
      BY <2>2 DEF Summarise, aggregates, writerVars
    <3>2. QED
      BY <1>0, <3>1
  <2>3. QED
    BY <1>5, <2>1, <2>2
<1>6. ASSUME NEW t \in Threads, Evict(t)
      PROVE  OnceInv'
  <2>1. queue # <<>> /\ queue' = Tail(queue) /\ UNCHANGED <<sequence, hand, holding, file>>
    BY <1>6 DEF Evict, aggregates, writerVars
  <2>2. \A i \in DOMAIN queue' : i + 1 \in DOMAIN queue /\ queue'[i] = queue[i + 1]
    BY <1>0, <2>1, Shortened
  <2>3. DOMAIN queue' \subseteq Nat
    BY <1>0, <2>1, Shortened
  <2>4. QED
    BY <2>1, <2>2, <2>3
<1>7. CASE Get
  <2>1. /\ queue # <<>> /\ queue' = Tail(queue) /\ holding' = Head(queue)
        /\ holding = None /\ UNCHANGED <<sequence, hand, file>>
    BY <1>7 DEF Get, aggregates
  <2>2. \A i \in DOMAIN queue' : i + 1 \in DOMAIN queue /\ queue'[i] = queue[i + 1]
    BY <1>0, <2>1, Shortened
  <2>3. /\ DOMAIN queue' \subseteq Nat \ {0}
        /\ 1 \in DOMAIN queue /\ holding' = queue[1]
    BY <1>0, <2>1, Shortened
  <2>4. QED
    BY <2>1, <2>2, <2>3
<1>8. CASE WriteData
  <2>1. /\ file' = Append(file, holding) /\ holding' = None
        /\ UNCHANGED <<sequence, hand, queue>>
    BY <1>8 DEF WriteData, WriteLine, aggregates
  <2>2. /\ DOMAIN file' = DOMAIN file \cup {Len(file) + 1}
        /\ Len(file) + 1 \notin DOMAIN file
        /\ file'[Len(file) + 1] = holding
        /\ \A i \in DOMAIN file : file'[i] = file[i]
    BY <1>0, <2>1, Appended
  <2>3. QED
    BY <2>1, <2>2
<1>9. CASE WriteTruncation \/ \E size \in SummaryBytes : WriteSummary(size)
  <2>1. /\ holding' = None /\ UNCHANGED <<sequence, hand, queue>>
        /\ \/ file' = file
           \/ \E line : line.type # "interval" /\ file' = Append(file, line)
    BY <1>9 DEF WriteTruncation, WriteSummary, WriteLine, SummaryLine, aggregates
  <2>2. CASE file' = file
    BY <2>1, <2>2
  <2>3. ASSUME NEW line, line.type # "interval", file' = Append(file, line)
        PROVE  OnceInv'
    <3>1. /\ DOMAIN file' = DOMAIN file \cup {Len(file) + 1}
          /\ file'[Len(file) + 1] = line
          /\ \A i \in DOMAIN file : file'[i] = file[i]
      BY <1>0, <2>3, Appended
    <3>2. QED
      BY <2>1, <2>3, <3>1
  <2>4. QED
    BY <2>1, <2>2, <2>3
<1>10. CASE WriterFails
  <2>1. /\ holding' = None /\ queue' = <<>> /\ UNCHANGED <<sequence, hand, file>>
    BY <1>10 DEF WriterFails, aggregates
  <2>2. QED
    BY <1>0, <2>1
<1>11. QED
  BY RecordMoves, <1>1, <1>2, <1>3, <1>4, <1>5, <1>6, <1>7, <1>8, <1>9, <1>10

\* A record only goes missing if the recorder knows.
LEMMA WholeKept ==
  ASSUME TypeOK, Numbered, HandsInv, WholeInv, [Next]_vars
  PROVE  WholeInv'
<1> DEFINE Somewhere(n) == InHand(n) \/ InQueue(n) \/ Held(n) \/ InFile(n)
<1> USE DEF WholeInv
<1>0. /\ queue \in Seq(Records) /\ file \in Seq(Lines) /\ sequence \in Nat
      /\ hand \in [Threads -> Records \cup {None}] /\ MaxIntervals \in Nat \ {0}
  BY SettingsAssumption DEF TypeOK
<1>a. ~Lossy => \A n \in 1..sequence : n \in 1..MaxIntervals /\ Somewhere(n)
  BY <1>0
<1>b. ASSUME Lossy => Lossy', sequence' = sequence,
             \A n \in 1..MaxIntervals : Somewhere(n) => Somewhere(n)'
      PROVE  WholeInv'
  BY <1>a, <1>b
<1> HIDE DEF Somewhere
<1>1. CASE Rest
  BY <1>1, <1>b DEF Rest, Somewhere, InHand, InQueue, Held, InFile
<1>2. ASSUME NEW t \in Threads, FlushRecord(t)
      PROVE  WholeInv'
  <2>1. hand[t] = None
    BY <1>2 DEF FlushRecord, Flushing, HandsInv, Putting
  <2>2. sequence' = sequence + 1 /\ sequence + 1 \in 1..MaxIntervals
    BY <1>0, <1>2 DEF FlushRecord, TakeInterval, Numbered, TypeOK
  <2>3. /\ hand' = [hand EXCEPT ![t] = Interval(sequence + 1)]
        /\ UNCHANGED <<queue, holding, file>> /\ Lossy' = Lossy
    BY <1>2 DEF FlushRecord, Lossy, flags, writerVars
  <2>4. ASSUME NEW n, n = sequence + 1
        PROVE  Somewhere(n)'
    BY <1>0, <2>3, <2>4 DEF Somewhere, InHand
  <2>5. ASSUME NEW n \in 1..MaxIntervals, Somewhere(n)
        PROVE  Somewhere(n)'
    <3>1. InHand(n) => InHand(n)'
      BY <1>0, <2>1, <2>3, IntervalsApart DEF InHand
    <3>2. QED
      BY <2>3, <2>5, <3>1 DEF Somewhere, InQueue, Held, InFile
  <2>6. ASSUME ~Lossy', NEW n \in 1..sequence'
        PROVE  Somewhere(n)'
    <3>1. n \in 1..sequence \/ n = sequence + 1
      BY <1>0, <2>2
    <3>2. CASE n = sequence + 1
      BY <2>2, <2>4, <3>2
    <3>3. CASE n \in 1..sequence
      BY <1>a, <2>3, <2>5, <2>6, <3>3
    <3>4. QED
      BY <3>1, <3>2, <3>3
  <2>7. QED
    BY <1>0, <2>2, <2>6 DEF Somewhere
<1>3. ASSUME NEW t \in Threads, FlushOverLimit(t) \/ Discard(t) \/ Evict(t)
      PROVE  Lossy'
  BY <1>3 DEF FlushOverLimit, Discard, DropRecord, LoseSummary, Evict, HandsInv, Lossy,
              flags
<1>4. ASSUME NEW t \in Threads, Put(t)
      PROVE  WholeInv'
  <2>1. /\ hand' = [hand EXCEPT ![t] = None] /\ queue' = Append(queue, hand[t])
        /\ UNCHANGED <<sequence, holding, file>> /\ Lossy' = Lossy
    BY <1>4 DEF Put, Lossy, aggregates, flags, writerVars
  <2>2. /\ DOMAIN queue' = DOMAIN queue \cup {Len(queue) + 1}
        /\ queue'[Len(queue) + 1] = hand[t]
        /\ \A i \in DOMAIN queue : queue'[i] = queue[i]
    BY <1>0, <2>1, Appended
  <2>3. ASSUME NEW n \in 1..MaxIntervals, InHand(n)
        PROVE  InHand(n)' \/ InQueue(n)'
    BY <1>0, <2>1, <2>2, <2>3 DEF InHand, InQueue
  <2>4. QED
    BY <1>b, <2>1, <2>2, <2>3 DEF Somewhere, InQueue, Held, InFile
<1>5. ASSUME NEW t \in Threads, Summarise(t)
      PROVE  WholeInv'
  <2>1. /\ hand' = [hand EXCEPT ![t] = Summary(ending[t], summary)] /\ hand[t] = None
        /\ UNCHANGED <<sequence, queue, holding, file>> /\ Lossy' = Lossy
    BY <1>5 DEF Summarise, HandsInv, Putting, Lossy, aggregates, flags, writerVars
  <2>2. ASSUME NEW n \in 1..MaxIntervals, InHand(n)
        PROVE  InHand(n)'
    BY <1>0, <2>1, <2>2, IntervalsApart DEF InHand
  <2>3. QED
    BY <1>b, <2>1, <2>2 DEF Somewhere, InQueue, Held, InFile
<1>6. CASE Get
  <2>1. /\ queue # <<>> /\ queue' = Tail(queue) /\ holding' = Head(queue)
        /\ holding = None /\ UNCHANGED <<sequence, hand, file>> /\ Lossy' = Lossy
    BY <1>6 DEF Get, Lossy, aggregates, flags
  <2>2. \A i \in DOMAIN queue \ {1} : i - 1 \in DOMAIN queue' /\ queue'[i - 1] = queue[i]
    BY <1>0, <2>1, Shortened
  <2>3. holding' = queue[1]
    BY <1>0, <2>1, Shortened
  <2>4. ASSUME NEW n \in 1..MaxIntervals
        PROVE  (InQueue(n) => InQueue(n)' \/ Held(n)') /\ ~Held(n)
    <3>1. ASSUME NEW i \in DOMAIN queue, queue[i] = Interval(n)
          PROVE  InQueue(n)' \/ Held(n)'
      <4>1. CASE i = 1
        BY <2>3, <3>1, <4>1 DEF Held
      <4>2. CASE i # 1
        BY <2>2, <3>1, <4>2 DEF InQueue
      <4>3. QED
        BY <4>1, <4>2
    <3>2. QED
      BY <2>1, <3>1, IntervalsApart DEF InQueue, Held
  <2>5. QED
    BY <1>b, <2>1, <2>4 DEF Somewhere, InHand, InFile
<1>7. CASE WriteData
  <2>1. /\ file' = Append(file, holding) /\ UNCHANGED <<sequence, hand, queue>>
        /\ Lossy' = Lossy
    BY <1>7 DEF WriteData, WriteLine, Lossy, aggregates, flags
  <2>2. /\ DOMAIN file' = DOMAIN file \cup {Len(file) + 1}
        /\ file'[Len(file) + 1] = holding
        /\ \A i \in DOMAIN file : file'[i] = file[i]
    BY <1>0, <2>1, Appended
  <2>3. ASSUME NEW n \in 1..MaxIntervals
        PROVE  InFile(n) \/ Held(n) => InFile(n)'
    BY <2>2 DEF InFile, Held
  <2>4. QED
    BY <1>b, <2>1, <2>3 DEF Somewhere, InHand, InQueue
<1>8. CASE WriteTruncation \/ WriterFails
  BY <1>8 DEF WriteTruncation, WriterFails, Lossy
<1>9. ASSUME NEW size \in SummaryBytes, WriteSummary(size)
      PROVE  WholeInv'
  <2>1. \A n \in 1..MaxIntervals : holding # Interval(n)
    BY <1>9, IntervalsApart DEF WriteSummary
  <2>2. /\ UNCHANGED <<sequence, hand, queue>> /\ (Lossy => Lossy')
        /\ \/ file' = file
           \/ \E line : file' = Append(file, line)
    BY <1>9 DEF WriteSummary, WriteLine, Lossy, aggregates, flags
  <2>3. \A i \in DOMAIN file : i \in DOMAIN file' /\ file'[i] = file[i]
    BY <1>0, <2>2, Appended
  <2>4. ASSUME NEW n \in 1..MaxIntervals
        PROVE  (InFile(n) => InFile(n)') /\ ~Held(n)
    BY <2>1, <2>3 DEF InFile, Held
  <2>5. QED
    BY <1>b, <2>2, <2>4 DEF Somewhere, InHand, InQueue
<1>10. QED
  BY RecordMoves, <1>1, <1>2, <1>3, <1>4, <1>5, <1>6, <1>7, <1>8, <1>9

\* As long as nothing is lost, the record of the run comes first.
LEMMA StartKept ==
  ASSUME TypeOK, HandsInv, StartInv, [Next]_vars
  PROVE  StartInv'
<1> USE DEF StartInv
<1>0. queue \in Seq(Records) /\ file \in Seq(Lines) /\ RunStart # None
  BY RecordTypes, NoneAssumption DEF TypeOK
<1>1. CASE UNCHANGED <<queue, holding, file>> /\ (Lossy => Lossy')
  BY <1>1
<1>2. ASSUME NEW t \in Threads,
             FlushRecord(t) \/ FlushOverLimit(t) \/ Discard(t) \/ Summarise(t)
      PROVE  UNCHANGED <<queue, holding, file>> /\ (Lossy => Lossy')
  BY <1>2 DEF FlushRecord, FlushOverLimit, Discard, DropRecord, LoseSummary, Summarise,
              Lossy, flags, writerVars
<1>3. ASSUME NEW t \in Threads, Evict(t)
      PROVE  Lossy'
  BY <1>3 DEF Evict, HandsInv, Lossy, flags
<1>4. ASSUME NEW t \in Threads, Put(t)
      PROVE  StartInv'
  <2>1. queue' = Append(queue, hand[t]) /\ UNCHANGED <<holding, file>> /\ Lossy' = Lossy
    BY <1>4 DEF Put, Lossy, flags, writerVars
  <2>2. queue' # <<>> /\ (queue # <<>> => queue'[1] = queue[1])
    BY <1>0, <2>1, Appended
  <2>3. QED
    BY <2>1, <2>2
<1>5. CASE Get
  <2>1. holding = None /\ holding' = Head(queue) /\ UNCHANGED file /\ Lossy' = Lossy
    BY <1>5 DEF Get, Lossy, flags
  <2>2. queue # <<>> => Head(queue) = queue[1]
    BY <1>0, Shortened
  <2>3. QED
    BY <1>0, <2>1, <2>2
<1>6. CASE WriteData
  <2>1. file' = Append(file, holding) /\ Lossy' = Lossy /\ holding # None
    BY <1>6 DEF WriteData, WriteLine, Lossy, flags
  <2>2. /\ file' # <<>>
        /\ file = <<>> => file'[1] = holding
        /\ file # <<>> => file'[1] = file[1]
    BY <1>0, <2>1, Appended
  <2>3. QED
    BY <2>1, <2>2 DEF RunStart
<1>7. CASE WriteTruncation \/ WriterFails
  BY <1>7 DEF WriteTruncation, WriterFails, Lossy
<1>8. ASSUME NEW size \in SummaryBytes, WriteSummary(size)
      PROVE  StartInv'
  <2>1. holding # None /\ holding # RunStart
    BY <1>8 DEF WriteSummary, RunStart
  <2>2. /\ Lossy => Lossy'
        /\ \/ file' = file
           \/ \E line : file' = Append(file, line)
    BY <1>8 DEF WriteSummary, WriteLine, Lossy, flags
  <2>3. file # <<>> => file' # <<>> /\ file'[1] = file[1]
    BY <1>0, <2>2, Appended
  <2>4. QED
    BY <2>1, <2>2, <2>3
<1>9. QED
  BY RecordMoves, <1>1, <1>2, <1>3, <1>4, <1>5, <1>6, <1>7, <1>8 DEF Rest

\* What is settled stays so, and then no thread puts anything on the queue.
LEMMA SettledStays ==
  ASSUME TypeOK, EndInv, Settled, [Next]_vars
  PROVE  /\ Settled' /\ UNCHANGED <<recorded, sequence>>
         /\ Delivered => Delivered'
<1> USE ThreadsAssumption DEF TypeOK, EndInv, Settled, Delivered, Goto, Threads
<1>1. ASSUME NEW t \in Workers, Record(t) \/ AddSample(t) \/ Fault(t)
      PROVE  FALSE
  BY <1>1 DEF Record, AddSample, Fault
<1>2. ASSUME NEW t \in Threads, FlushRecord(t) \/ FlushOverLimit(t)
      PROVE  FALSE
  BY <1>2 DEF FlushRecord, FlushOverLimit, TakeInterval
<1>3. ASSUME NEW t \in Threads,
             FlushNothing(t) \/ Put(t) \/ DropRecord(t) \/ SummaryFindsNoRoom(t)
               \/ Evict(t) \/ LoseSummary(t)
      PROVE  t = Main
  BY <1>3 DEF FlushNothing, Flushing, Put, DropRecord, SummaryFindsNoRoom, Evict,
              LoseSummary
<1>4. ASSUME NEW t \in Threads,
             FlushNothing(t) \/ Put(t) \/ DropRecord(t) \/ SummaryFindsNoRoom(t)
               \/ Evict(t) \/ LoseSummary(t)
      PROVE  /\ Settled' /\ UNCHANGED <<recorded, sequence>>
             /\ ~Delivered
  BY <1>3, <1>4 DEF FlushNothing, Flushing, Put, DropRecord, SummaryFindsNoRoom, Evict,
              LoseSummary, aggregates, ends
<1>5. ASSUME NEW t \in Threads,
             Finish(t) \/ Claim(t) \/ JoinFlusher(t) \/ Summarise(t) \/ StopWriter(t)
               \/ JoinWriter(t)
      PROVE  /\ Settled' /\ UNCHANGED <<recorded, sequence>>
             /\ Delivered => Delivered'
  BY <1>5 DEF Finish, Claim, JoinFlusher, Summarise, StopWriter, JoinWriter, Back,
              aggregates, ends
<1>6. CASE FlusherWakes \/ \E state \in States : CollectionEnds(state)
  BY <1>6 DEF FlusherWakes, CollectionEnds
<1>7. CASE WriterStep \/ WriterFails \/ ProcessEnds \/ UNCHANGED vars
  BY <1>7, WriterMoves DEF ThreadVars
<1>8. QED
  BY <1>1, <1>2, <1>4, <1>5, <1>6, <1>7
  DEF Next, WorkerStep, FlushStep, PutStep, FinishStep

LEMMA NobodyPuts ==
  ASSUME EndInv, Delivered, NEW t \in Threads
  PROVE  pc[t] \notin Putting
BY DEF EndInv, Delivered, Settled, Threads, Putting

\* A line that told the truth still does when the file grows.
LEMMA StaysTrue ==
  ASSUME NEW line, HoldsEverything(line), 1 \in DOMAIN file,
         \A i \in DOMAIN file : i \in DOMAIN file' /\ file'[i] = file[i],
         UNCHANGED <<recorded, sequence>>
  PROVE  HoldsEverything(line)'
<1>1. file'[1] = file[1] /\ line.total = recorded'
  BY DEF HoldsEverything
<1>2. LinesOf("interval") \subseteq LinesOf("interval")'
  BY DEF LinesOf
<1>3. ASSUME NEW n \in 1..sequence'
      PROVE  \E i \in LinesOf("interval")' : file'[i].sequence = n
  <2>1. PICK i \in LinesOf("interval") : file[i].sequence = n
    BY DEF HoldsEverything
  <2>2. i \in DOMAIN file
    BY <2>1 DEF LinesOf
  <2>3. QED
    BY <1>2, <2>1, <2>2
<1>4. QED
  BY <1>1, <1>3 DEF HoldsEverything

\* The lines that were written stay true while others follow that claim
\* nothing.
LEMMA LinesKept ==
  ASSUME TypeOK, EndInv, LinesInv, [Next]_vars,
         \/ file' = file
         \/ \E line : file' = Append(file, line) /\ ~ClaimsComplete(line)
  PROVE  LinesInv'
<1>0. file \in Seq(Lines)
  BY DEF TypeOK
<1>1. \A i \in DOMAIN file : i \in DOMAIN file' /\ file'[i] = file[i]
  BY <1>0, Appended
<1>2. \A i \in DOMAIN file' \ DOMAIN file : ~ClaimsComplete(file'[i])
  BY <1>0, Appended
<1>3. ASSUME NEW i \in DOMAIN file, NEW line, line = file[i], ClaimsComplete(line)
      PROVE  Delivered' /\ HoldsEverything(line)'
  <2>1. Delivered /\ HoldsEverything(line)
    BY <1>3 DEF LinesInv
  <2>2. Delivered' /\ UNCHANGED <<recorded, sequence>>
    BY <2>1, SettledStays DEF Delivered
  <2>3. 1 \in DOMAIN file
    BY <1>0
  <2>4. QED
    BY <1>1, <2>1, <2>2, <2>3, StaysTrue
<1>4. ASSUME NEW i \in DOMAIN file', ClaimsComplete(file'[i])
      PROVE  i \in DOMAIN file /\ file'[i] = file[i]
  BY <1>1, <1>2, <1>4
<1>5. QED
  BY <1>3, <1>4 DEF LinesInv, ClaimsComplete, HoldsEverything

LEMMA GoodOnes ==
  /\ None \notin Good
  /\ \A n \in 1..MaxIntervals : Interval(n) \notin Good
  /\ \A r \in Good : r.type = "run_summary" /\ r # RunStart
<1>1. \A r \in Good : r.type = "run_summary"
  BY DEF Good, Summary
<1>2. Good \subseteq Records
  BY DEF Good, Records, States
<1>3. RunStart.type # "run_summary"
  BY DEF RunStart
<1>4. QED
  BY <1>1, <1>2, <1>3, NoneAssumption, IntervalsApart

LEMMA LateStays ==
  ASSUME TypeOK, [Next]_vars
  PROVE  late => late'
<1>1. ASSUME NEW t \in Workers, Record(t) \/ AddSample(t) \/ Fault(t)
      PROVE  late' = late
  BY <1>1 DEF Record, AddSample, Fault, ends
<1>2. ASSUME NEW t \in Threads, FlushStep(t) \/ PutStep(t)
      PROVE  late' = late
  BY <1>2 DEF FlushStep, PutStep, FlushNothing, FlushRecord, FlushOverLimit, Put,
              DropRecord, SummaryFindsNoRoom, Evict, LoseSummary, ends
<1>3. ASSUME NEW t \in Threads, FinishStep(t)
      PROVE  late => late'
  BY <1>3 DEF FinishStep, Finish, Claim, JoinFlusher, Summarise, StopWriter,
              JoinWriter, ends
<1>4. CASE FlusherWakes \/ \E state \in States : CollectionEnds(state)
  BY <1>4 DEF FlusherWakes, CollectionEnds, ends
<1>5. ASSUME WriterStep \/ WriterFails \/ ProcessEnds \/ UNCHANGED vars
      PROVE  late' = late
  <2>1. UNCHANGED ThreadVars
    BY <1>5, WriterMoves
  <2>2. QED
    BY <2>1 DEF ThreadVars
<1>6. QED
  BY <1>1, <1>2, <1>3, <1>4, <1>5 DEF Next, WorkerStep

\* The main thread makes such a summary when nothing else is left to record,
LEMMA GoodHandsKept ==
  ASSUME TypeOK, EndInv, SampleInv, ~late, GoodHands, [Next]_vars
  PROVE  GoodHands'
<1>0. hand \in [Threads -> Records \cup {None}]
  BY DEF TypeOK
<1>1. ASSUME \A u \in Threads : hand'[u] \in Good => hand'[u] = hand[u]
      PROVE  GoodHands'
  BY <1>1, SettledStays DEF GoodHands, Settled
<1>2. CASE UNCHANGED hand
  BY <1>1, <1>2
<1>3. ASSUME NEW t \in Threads, Put(t) \/ Discard(t) \/ Evict(t) \/ FlushOverLimit(t)
      PROVE  GoodHands'
  <2>1. UNCHANGED hand \/ hand' = [hand EXCEPT ![t] = None]
    BY <1>3 DEF Put, Discard, DropRecord, LoseSummary, Evict, FlushOverLimit
  <2>2. QED
    BY <1>0, <1>1, <2>1, GoodOnes
<1>4. ASSUME NEW t \in Threads, FlushRecord(t)
      PROVE  GoodHands'
  <2>1. hand' = [hand EXCEPT ![t] = Interval(sequence + 1)]
    BY <1>4 DEF FlushRecord
  <2>2. Interval(sequence + 1) \notin Good
    BY DEF Interval, Good, Summary
  <2>3. QED
    BY <1>0, <1>1, <2>1, <2>2
<1>5. ASSUME NEW t \in Threads, Summarise(t)
      PROVE  GoodHands'
  <2>1. /\ pc[t] = "summarise" /\ hand' = [hand EXCEPT ![t] = Summary(ending[t], summary)]
        /\ UNCHANGED <<ending, interval, recorded>> /\ pc' = [pc EXCEPT ![t] = "putSummary"]
    BY <1>5 DEF Summarise, Goto, aggregates, ends
  <2>2. ASSUME ending[t] = "complete"
        PROVE  t = Main /\ Settled' /\ summary = recorded'
    <3>1. t = Main /\ pc[Flusher] = "exited" /\ interval = {}
      BY <2>1, <2>2 DEF EndInv
    <3>2. summary = recorded
      BY <3>1 DEF SampleInv, SamplesConserved
    <3>3. QED
      BY <2>1, <2>2, <3>1, <3>2, ThreadsAssumption DEF Settled, TypeOK, Threads
  <2>3. Summary(ending[t], summary) \in Good => ending[t] = "complete"
    BY DEF Good, Summary
  <2>4. Summary(ending[t], summary).total = summary
    BY DEF Summary
  <2>5. ASSUME NEW u \in Threads, hand'[u] \in Good
        PROVE  u = Main /\ Settled' /\ hand'[u].total = recorded'
    <3>1. CASE u = t
      <4>1. hand'[u] = Summary(ending[t], summary)
        BY <1>0, <2>1, <3>1
      <4>2. QED
        BY <2>2, <2>3, <2>4, <2>5, <3>1, <4>1
    <3>2. CASE u # t
      <4>1. hand'[u] = hand[u]
        BY <1>0, <2>1, <3>2
      <4>2. QED
        BY <2>5, <4>1, SettledStays DEF GoodHands, Settled
    <3>3. QED
      BY <3>1, <3>2
  <2>6. QED
    BY <2>5 DEF GoodHands
<1>6. CASE Get \/ WriteData \/ WriteTruncation \/ WriterFails
             \/ \E size \in SummaryBytes : WriteSummary(size)
  BY <1>2, <1>6 DEF Get, WriteData, WriteTruncation, WriterFails, WriteSummary
<1>7. QED
  BY RecordMoves, <1>2, <1>3, <1>4, <1>5, <1>6 DEF Rest

\* puts it on the queue as its last record,
LEMMA GoodQueueKept ==
  ASSUME TypeOK, EndInv, HandsInv, GoodHands, GoodQueue, [Next]_vars
  PROVE  GoodQueue'
<1>0. queue \in Seq(Records)
  BY DEF TypeOK
<1>1. ASSUME NEW k \in Nat, Len(queue') = Len(queue) - k,
             \A i \in DOMAIN queue' : i + k \in DOMAIN queue /\ queue'[i] = queue[i + k]
      PROVE  GoodQueue'
  <2>1. ASSUME NEW i \in DOMAIN queue', queue'[i] \in Good
        PROVE  i = Len(queue') /\ Delivered' /\ queue'[i].total = recorded'
    <3>1. i + k = Len(queue) /\ Delivered /\ queue'[i].total = recorded
      BY <1>1, <2>1 DEF GoodQueue
    <3>2. Delivered' /\ UNCHANGED recorded
      BY <3>1, SettledStays DEF Delivered
    <3>3. i + k \in 1..Len(queue) /\ Len(queue) \in Nat
      BY <1>0, <1>1
    <3>4. i = Len(queue')
      BY <1>0, <1>1, <3>1, <3>3
    <3>5. QED
      BY <3>1, <3>2, <3>4
  <2>2. QED
    BY <2>1 DEF GoodQueue
<1>2. CASE UNCHANGED queue
  <2>1. /\ 0 \in Nat /\ Len(queue') = Len(queue) - 0
        /\ \A i \in DOMAIN queue' : i + 0 \in DOMAIN queue /\ queue'[i] = queue[i + 0]
    BY <1>0, <1>2
  <2>2. QED
    BY <1>1, <2>1
<1>3. CASE queue # <<>> /\ queue' = Tail(queue)
  BY <1>0, <1>1, <1>3, Shortened
<1>4. CASE queue' = <<>>
  BY <1>4 DEF GoodQueue
<1>5. ASSUME NEW t \in Threads, Put(t)
      PROVE  GoodQueue'
  <2>1. /\ pc[t] \in {"put", "lastPut", "putSummary", "putAgain"}
        /\ queue' = Append(queue, hand[t]) /\ pc' = [pc EXCEPT ![t] = AfterPut(t)]
        /\ UNCHANGED <<ending, interval, recorded>>
    BY <1>5 DEF Put, Goto, aggregates, ends
  <2>2. \A i \in DOMAIN queue : queue[i] \notin Good
    BY <2>1, NobodyPuts DEF GoodQueue, Putting
  <2>3. /\ DOMAIN queue' = DOMAIN queue \cup {Len(queue')}
        /\ queue'[Len(queue')] = hand[t]
        /\ \A i \in DOMAIN queue : queue'[i] = queue[i]
    BY <1>0, <2>1, Appended
  <2>4. ASSUME hand[t] \in Good
        PROVE  Delivered' /\ hand[t].total = recorded'
    <3>1. t = Main /\ Settled /\ hand[t].total = recorded
      BY <2>4 DEF GoodHands
    <3>2. pc[t] \notin {"put", "lastPut"}
      BY <2>4, GoodOnes DEF HandsInv
    <3>3. pc'[Main] = "stopWriter"
      BY <2>1, <3>1, <3>2 DEF AfterPut, TypeOK, Threads
    <3>4. QED
      BY <2>1, <3>1, <3>3, SettledStays DEF Delivered
  <2>5. ASSUME NEW i \in DOMAIN queue', queue'[i] \in Good
        PROVE  i = Len(queue') /\ queue'[i] = hand[t]
    <3>1. i \notin DOMAIN queue
      BY <2>2, <2>3, <2>5, Zenon
    <3>2. QED
      BY <2>3, <3>1, Zenon
  <2>6. QED
    BY <2>4, <2>5 DEF GoodQueue
<1>6. ASSUME NEW t \in Threads, Evict(t) \/ Discard(t) \/ Summarise(t)
                                \/ FlushRecord(t) \/ FlushOverLimit(t)
      PROVE  GoodQueue'
  BY <1>2, <1>3, <1>6 DEF Evict, Discard, DropRecord, LoseSummary, Summarise,
                          FlushRecord, FlushOverLimit
<1>7. CASE Get \/ WriteData \/ WriteTruncation \/ WriterFails
             \/ \E size \in SummaryBytes : WriteSummary(size)
  BY <1>2, <1>3, <1>4, <1>7 DEF Get, WriteData, WriteTruncation, WriterFails,
                                WriteSummary
<1>8. QED
  BY RecordMoves, <1>2, <1>5, <1>6, <1>7 DEF Rest

\* from where the writer takes it when nothing is left behind it.
LEMMA GoodHeldKept ==
  ASSUME TypeOK, EndInv, GoodQueue, GoodHeld, [Next]_vars
  PROVE  GoodHeld'
<1>0. queue \in Seq(Records)
  BY DEF TypeOK
<1>1. CASE UNCHANGED holding /\ (queue = <<>> => queue' = <<>>)
  BY <1>1, SettledStays DEF GoodHeld, Delivered
<1>2. CASE holding' = None
  BY <1>2, GoodOnes DEF GoodHeld
<1>3. ASSUME NEW t \in Threads, Put(t)
      PROVE  GoodHeld'
  <2>1. pc[t] \in Putting /\ UNCHANGED holding
    BY <1>3 DEF Put, Putting, writerVars
  <2>2. QED
    BY <2>1, NobodyPuts DEF GoodHeld
<1>4. ASSUME NEW t \in Threads, Evict(t) \/ Discard(t) \/ Summarise(t)
                                \/ FlushRecord(t) \/ FlushOverLimit(t)
      PROVE  GoodHeld'
  BY <1>1, <1>4 DEF Evict, Discard, DropRecord, LoseSummary, Summarise, FlushRecord,
                    FlushOverLimit, writerVars
<1>5. CASE Get
  <2>1. queue # <<>> /\ holding' = Head(queue) /\ queue' = Tail(queue)
        /\ UNCHANGED <<pc, ending, interval, recorded>>
    BY <1>5 DEF Get, aggregates, ends
  <2>2. 1 \in DOMAIN queue /\ holding' = queue[1]
    BY <1>0, <2>1, Shortened
  <2>3. ASSUME holding' \in Good
        PROVE  queue' = <<>> /\ Delivered' /\ holding'.total = recorded'
    <3>1. 1 = Len(queue) /\ Delivered /\ holding'.total = recorded
      BY <2>2, <2>3 DEF GoodQueue
    <3>2. queue' = <<>>
      BY <1>0, <2>1, <3>1
    <3>3. QED
      BY <2>1, <3>1, <3>2, SettledStays DEF Delivered
  <2>4. QED
    BY <2>3 DEF GoodHeld
<1>6. CASE WriteData \/ WriteTruncation \/ WriterFails
             \/ \E size \in SummaryBytes : WriteSummary(size)
  BY <1>2, <1>6 DEF WriteData, WriteTruncation, WriterFails, WriteSummary, WriteLine
<1>7. QED
  BY RecordMoves, <1>1, <1>3, <1>4, <1>5, <1>6 DEF Rest

\* When the writer claims completeness, everything is in the file.
LEMMA NothingIsLeft ==
  ASSUME TypeOK, EndInv, HandsInv, WholeInv, StartInv, GoodHeld,
         holding \in Good, ~Lossy
  PROVE  /\ file # <<>> /\ file[1].type = "run_start"
         /\ \A n \in 1..sequence : \E i \in LinesOf("interval") : file[i].sequence = n
<1>1. queue = <<>> /\ Delivered
  BY DEF GoodHeld
<1>2. file # <<>> /\ file[1].type = "run_start"
  BY GoodOnes DEF StartInv
<1>3. ASSUME NEW n \in 1..sequence
      PROVE  \E i \in LinesOf("interval") : file[i].sequence = n
  <2>1. n \in 1..MaxIntervals /\ (InHand(n) \/ InQueue(n) \/ Held(n) \/ InFile(n))
    BY SettingsAssumption DEF WholeInv, TypeOK
  <2>2. ~InHand(n)
    BY <1>1, <2>1, NobodyPuts, IntervalsApart DEF HandsInv, InHand
  <2>3. ~InQueue(n) /\ ~Held(n)
    BY <1>1, <2>1, GoodOnes DEF InQueue, Held
  <2>4. PICK i \in DOMAIN file : file[i] = Interval(n)
    BY <2>1, <2>2, <2>3 DEF InFile
  <2>5. QED
    BY <2>1, <2>4, IntervalsApart DEF LinesOf
<1>4. QED
  BY <1>2, <1>3

LEMMA SummaryIsHonest ==
  ASSUME TypeOK, EndInv, HandsInv, WholeInv, StartInv, GoodHeld, LinesInv,
         NEW size \in SummaryBytes, WriteSummary(size)
  PROVE  LinesInv'
<1>0. file \in Seq(Lines) /\ [Next]_vars
  BY DEF TypeOK, Next, WriterStep
<1>1. CASE file' = file
  BY <1>0, <1>1, LinesKept
<1>2. CASE file' = Append(file, [SummaryLine("incomplete") EXCEPT !.total = {}])
  <2>1. ~ClaimsComplete([SummaryLine("incomplete") EXCEPT !.total = {}])
    BY DEF ClaimsComplete, SummaryLine
  <2>2. QED
    BY <1>0, <1>2, <2>1, LinesKept
<1>3. CASE file' = Append(file, SummaryLine(TelemetryState)) /\ UNCHANGED recorded
           /\ UNCHANGED sequence
  <2>1. CASE ~ClaimsComplete(SummaryLine(TelemetryState))
    BY <1>0, <1>3, <2>1, LinesKept
  <2>2. CASE ClaimsComplete(SummaryLine(TelemetryState))
    <3>1. ~Lossy /\ holding.state = "complete"
      BY <2>2 DEF ClaimsComplete, SummaryLine, TelemetryState, Lossy
    <3>2. holding # None /\ holding.type = "run_summary"
      BY DEF WriteSummary
    <3>3. holding \in Records
      BY <3>2 DEF TypeOK
    <3>4. PICK s \in States, total \in SUBSET Samples : holding = Summary(s, total)
      BY <3>2, <3>3 DEF Records, RunStart, Interval
    <3>5. holding \in Good
      <4>1. s = "complete"
        BY <3>1, <3>4 DEF Summary
      <4>2. QED
        BY <3>4, <4>1 DEF Good
    <3>6. Delivered /\ holding.total = recorded
      BY <3>5 DEF GoodHeld
    <3>7. Delivered'
      BY <1>0, <3>6, SettledStays DEF Delivered
    <3>8. /\ file # <<>> /\ file[1].type = "run_start"
          /\ \A n \in 1..sequence : \E i \in LinesOf("interval") : file[i].sequence = n
      BY <3>1, <3>5, NothingIsLeft
    <3>9. SummaryLine(TelemetryState).total = recorded
      BY <3>6 DEF SummaryLine
    <3> DEFINE line == SummaryLine(TelemetryState)
    <3>10. HoldsEverything(line)
      BY <3>8, <3>9 DEF HoldsEverything
    <3>11. /\ DOMAIN file' = DOMAIN file \cup {Len(file) + 1}
           /\ file'[Len(file) + 1] = line
           /\ \A i \in DOMAIN file : file'[i] = file[i]
           /\ 1 \in DOMAIN file
      BY <1>0, <1>3, <3>8, Appended
    <3> HIDE DEF line
    <3>12. ASSUME NEW l, HoldsEverything(l)
           PROVE  HoldsEverything(l)'
      BY <1>3, <3>11, <3>12, StaysTrue
    <3>13. ASSUME NEW i \in DOMAIN file', NEW l, l = file'[i], ClaimsComplete(l)
           PROVE  HoldsEverything(l)
      <4>1. CASE i \in DOMAIN file
        BY <3>11, <3>13, <4>1 DEF LinesInv
      <4>2. CASE i = Len(file) + 1
        BY <3>10, <3>11, <3>13, <4>2
      <4>3. QED
        BY <3>11, <4>1, <4>2
    <3>14. QED
      BY <3>7, <3>12, <3>13 DEF LinesInv, ClaimsComplete, HoldsEverything
  <2>3. QED
    BY <2>1, <2>2
<1>4. QED
  BY <1>1, <1>2, <1>3 DEF WriteSummary, WriteLine, aggregates

LEMMA SummaryKept ==
  ASSUME TypeOK, EndInv, HandsInv, WholeInv, StartInv, SampleInv, SummaryInv,
         [Next]_vars
  PROVE  SummaryInv'
<1> SUFFICES ASSUME ~late'
             PROVE  (GoodHands /\ GoodQueue /\ GoodHeld /\ LinesInv)'
  BY DEF SummaryInv
<1>1. ~late /\ GoodHands /\ GoodQueue /\ GoodHeld /\ LinesInv
  BY LateStays DEF SummaryInv
<1>2. GoodHands' /\ GoodQueue' /\ GoodHeld'
  BY <1>1, GoodHandsKept, GoodQueueKept, GoodHeldKept
<1>3. ASSUME UNCHANGED file
      PROVE  LinesInv'
  BY <1>1, <1>3, LinesKept
<1>4. ASSUME WriteData
      PROVE  LinesInv'
  <2>1. file' = Append(file, holding) /\ ~ClaimsComplete(holding)
    BY <1>4 DEF WriteData, WriteLine, ClaimsComplete
  <2>2. QED
    BY <1>1, <2>1, LinesKept
<1>5. ASSUME WriteTruncation
      PROVE  LinesInv'
  <2>1. file' = file \/ file' = Append(file, [type |-> "export_status"])
    BY <1>5 DEF WriteTruncation, WriteLine
  <2>2. ~ClaimsComplete([type |-> "export_status"])
    BY DEF ClaimsComplete
  <2>3. QED
    BY <1>1, <2>1, <2>2, LinesKept
<1>6. ASSUME NEW size \in SummaryBytes, WriteSummary(size)
      PROVE  LinesInv'
  BY <1>1, <1>6, SummaryIsHonest
<1>7. ASSUME NEW t \in Threads, \/ FlushRecord(t) \/ FlushOverLimit(t) \/ Put(t)
                                \/ Discard(t) \/ Evict(t) \/ Summarise(t)
      PROVE  UNCHANGED file
  BY <1>7 DEF FlushRecord, FlushOverLimit, Put, Discard, DropRecord, LoseSummary,
              Evict, Summarise, writerVars
<1>8. ASSUME Get \/ WriterFails
      PROVE  LinesInv'
  BY <1>3, <1>8 DEF Get, WriterFails
<1>9. LinesInv'
  BY RecordMoves, <1>3, <1>4, <1>5, <1>6, <1>7, <1>8 DEF Rest
<1>10. QED
  BY <1>2, <1>9

\* FileIsHonest: the file says nothing twice, and a summary that claims to be
\* complete holds everything, unless the flusher outlived its join.
THEOREM TheFileIsHonest == Spec => []FileIsHonest
<1> DEFINE Inv == /\ TypeOK /\ Numbered /\ HandsFull /\ StartedInv /\ SampleInv
                  /\ HandsInv /\ EndInv /\ OnceInv /\ WholeInv /\ StartInv /\ SummaryInv
<1>1. Init => Inv
  <2> SUFFICES ASSUME Init
               PROVE  Inv
    OBVIOUS
  <2>1. TypeOK /\ Numbered /\ HandsFull /\ StartedInv
    BY InitTypes DEF Init, Numbered, HandsFull, StartedInv, Threads
  <2>2. SampleInv
    BY DEF Init, SampleInv, SamplesConserved
  <2>3. HandsInv /\ EndInv
    BY DEF Init, HandsInv, EndInv, Putting, Threads
  <2>4. /\ \A t \in Threads : hand[t] = None
        /\ queue = <<RunStart>> /\ file = <<>> /\ holding = None /\ sequence = 0
        /\ DOMAIN file = {} /\ DOMAIN queue = {1} /\ queue[1] = RunStart
        /\ ~dropped /\ ~truncated /\ ~exporterError
    BY DEF Init
  <2>5. OnceInv
    BY <2>4, IntervalsApart DEF OnceInv, InHand, InQueue, Held, InFile
  <2>6. WholeInv
    BY <2>4, SettingsAssumption DEF WholeInv
  <2>7. StartInv
    BY <2>4 DEF StartInv
  <2>8. SummaryInv
    BY <2>4, GoodOnes DEF SummaryInv, GoodHands, GoodQueue, GoodHeld, LinesInv
  <2>9. QED
    BY <2>1, <2>2, <2>3, <2>5, <2>6, <2>7, <2>8
<1>2. Inv /\ [Next]_vars => Inv'
  BY TypeStep, NumberedStep, HandsStep, StartedStep, SampleStep, HandsKept, EndKept,
     OnceKept, WholeKept, StartKept, SummaryKept
<1>3. Inv => FileIsHonest
  <2> SUFFICES ASSUME Inv
               PROVE  FileIsHonest
    OBVIOUS
  <2>1. CompleteIsHonest
    BY DEF CompleteIsHonest, SummaryInv, LinesInv
  <2>2. ASSUME NEW i \in LinesOf("interval")
        PROVE  /\ i \in DOMAIN file /\ file[i].sequence \in 1..MaxIntervals
               /\ file[i] = Interval(file[i].sequence)
    <3>1. i \in DOMAIN file /\ file[i].type = "interval" /\ file[i] \in Lines
      BY DEF LinesOf, TypeOK
    <3>2. file[i] \in [type: {"interval"}, sequence: 1..MaxIntervals]
      BY <3>1 DEF Lines
    <3>3. QED
      BY <3>1, <3>2 DEF Interval
  <2>3. IntervalsOnce
    BY <2>2 DEF IntervalsOnce, OnceInv
  <2>4. QED
    BY <2>1, <2>3 DEF FileIsHonest
<1>4. QED
  BY <1>1, <1>2, <1>3, PTL DEF Spec
=============================================================================
