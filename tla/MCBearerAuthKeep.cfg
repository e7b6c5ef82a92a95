SPECIFICATION Spec
CONSTANTS
  t1 = t1
  t2 = t2
  Threads <- MCThreads
  NoToken = NoToken
  NoThread = NoThread
  Skew = 2
  Cooldown = 2
  ExpiresIn <- MCLifetimes
  MaxLatency = 1
  MaxTime = 5
  MaxIssued = 2
  MaxRequests = 2
SYMMETRY Symmetry
PROPERTY ValidTokenSurvivesFailedRefresh
