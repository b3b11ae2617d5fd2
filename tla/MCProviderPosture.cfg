CONSTANTS
  MaxAsked = 2
SPECIFICATION FairSpec
INVARIANTS
  NeverSyntheticSuccess
  RefusalBlocks
  GapsAreTold
PROPERTIES
  PostureArrives
