SPECIFICATION FairSpec
CONSTANTS
  t1 = t1
  t2 = t2
  Threads <- MCThreads
  NoToken = NoToken
  NoThread = NoThread
  Skew = 2
  Cooldown = 2
  ExpiresIn <- MCLifetimes
  MaxLatency = 1
  MaxTime = 4
  MaxIssued = 2
  MaxRequests = 2
INVARIANT TypeOK
INVARIANT FreshIsAccepted
PROPERTY CacheChangesForCause
PROPERTY RetryUsesAnotherToken
PROPERTY RequestsFinish
