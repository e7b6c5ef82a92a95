SPECIFICATION FairSpec
CONSTANTS
  w1 = w1
  w2 = w2
  Workers <- MCOneWorker
  Main = Main
  Flusher = Flusher
  None = None
  Capacity = 2
  MaxIntervals = 2
  MaxBytes = 6
  Reserve = 2
  RecordBytes = 2
  StatusBytes = 1
  ShortBytes = 1
  SummaryBytes <- MCSummaryBytes
  MaxSamples = 3
INVARIANT TypeOK
INVARIANT SamplesConserved
INVARIANT FileKeepsItsBounds
INVARIANT FileIsHonest
PROPERTY CollectionReturns
PROPERTY SummaryArrives
