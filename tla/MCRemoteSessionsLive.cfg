CONSTANTS
  Requests = {r1, r2}
  Principals = {p1}
  Sessions = {s1, s2}
  NoSession = NoSession
  BadSession = BadSession
  Nobody = Nobody
  MaxSessions = 1
  Idle = 1
  MaxAge = 2
SPECIFICATION FairSpec
PROPERTIES
  AbandonedIsReclaimed
