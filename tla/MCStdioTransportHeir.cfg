CONSTANTS
  MaxRequests = 1
  MaxBytes = 1
  MaxOutput = 1
  MayFork = TRUE
  Oversize = {FALSE}
SPECIFICATION FairSpec
CHECK_DEADLOCK FALSE
PROPERTIES
  CloseIsBounded
