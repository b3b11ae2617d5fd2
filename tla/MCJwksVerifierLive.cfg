CONSTANTS
  Requests = {r1, r2}
  Keys = {k1}
  NoKey = NoKey
  NoCache = NoCache
  NoOne = NoOne
  Ttl = 1
  Grace = 1
  Backoff = 1
  FetchMax = 1
  MaxGen = 1
SPECIFICATION FairSpec
PROPERTIES
  EveryCallReturns
