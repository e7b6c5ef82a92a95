SPECIFICATION FairSpec
CONSTANTS
  t1 = t1
  t2 = t2
  t3 = t3
  f1 = f1
  f2 = f2
  Threads <- MCThreads
  Families <- MCFamilies
  NoFamily = NoFamily
  NoWindow = NoWindow
  FamilyCap = 2
  OrgCap = 2
  Reserve = 0
  MaxCooldown = 4
  DefaultInterval = 1
  ProbeInterval = 1
  Delays <- MCDelays
  Window = 2
  Limit = 2
  Others = 1
  Replies <- MCReplies
  Asks <- MCAsks
  MaxTime = 0
  MaxRequests = 1
INVARIANT TypeOK
INVARIANT SpentWindowBlocks
INVARIANT ResourcesConserved
PROPERTY StartsAreSpaced
PROPERTY PublicationsAdvance
PROPERTY NoStartDuringOutage
PROPERTY RequestsFinish
