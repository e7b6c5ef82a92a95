SPECIFICATION GroupsFairSpec
CONSTANTS
  MaxAttempts = 3
  InitialTimeouts = 2
  MaxElapsed = 4
  Delays <- MCDelays
  MaxTime = 3
  PageSize = 4
  Divisors <- MCDivisors
  Total = 5
INVARIANT GroupsTypeOK
INVARIANT BudgetSparesLaterPages
INVARIANT SmallestSizeIsTried
INVARIANT RetriesAreLimited
PROPERTY ListsEveryGroupOnce
PROPERTY ListingEnds
