SPECIFICATION Spec
CONSTANTS
  Servers = {s1, s2}
  Nobody = Nobody
  Foreign = Foreign
  Versions = {1, 2, 3}
  Exact = 2
INVARIANTS
  StatusIsTrue
  ProvidersEndOnce
  ServiceKeepsItsTelemetry
  OneVersionSpoken
PROPERTY
  TeardownEnds
CHECK_DEADLOCK FALSE
