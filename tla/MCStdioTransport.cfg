CONSTANTS
  MaxRequests = 2
  MaxBytes = 3
  MaxOutput = 4
  MayFork = TRUE
  Oversize = {TRUE, FALSE}
SPECIFICATION FairSpec
CHECK_DEADLOCK FALSE
INVARIANTS
  NobodyWaitsInVain
  HealthyMeansClean
PROPERTIES
  SettledOnce
  EveryRequestSettles
  CloseEndsWithoutHeir
