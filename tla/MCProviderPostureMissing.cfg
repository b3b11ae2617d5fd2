CONSTANTS
  MaxAsked = 1
SPECIFICATION Spec
INVARIANTS
  MissingIsSaid
