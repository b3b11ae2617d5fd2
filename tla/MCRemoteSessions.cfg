CONSTANTS
  Requests = {r1, r2}
  Principals = {p1, p2}
  Sessions = {s1, s2}
  NoSession = NoSession
  BadSession = BadSession
  Nobody = Nobody
  MaxSessions = 2
  Idle = 0
  MaxAge = 1
SPECIFICATION Spec
SYMMETRY Symmetric
INVARIANTS
  TypeOK
  PermitsConserved
  ServedAsOwner
  CapacityTestIsFresh
  EndedIsGone
  NoSilentOrphan
PROPERTIES
  ImplementsLeases
