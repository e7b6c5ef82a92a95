SPECIFICATION Spec
CONSTANTS
  MaxAttempts = 3
  InitialTimeouts = 2
  MaxElapsed = 6
  Delays <- MCDelays
  MaxTime = 7
INVARIANT KeepsReceiving429
