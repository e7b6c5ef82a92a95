SPECIFICATION Spec
CONSTANTS
  w1 = w1
  w2 = w2
  Workers <- MCWorkers
  Main = Main
  Flusher = Flusher
  None = None
  Capacity = 2
  MaxIntervals = 2
  MaxBytes = 4
  Reserve = 2
  RecordBytes = 1
  StatusBytes = 1
  ShortBytes = 1
  SummaryBytes <- MCSummaryBytes
  MaxSamples = 1
SYMMETRY Symmetry
INVARIANT LossIsExplicit
