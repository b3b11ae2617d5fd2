CONSTANTS
  Requests = {r1, r2}
  Keys = {k1, k2}
  NoKey = NoKey
  NoCache = NoCache
  NoOne = NoOne
  Ttl = 1
  Grace = 2
  Backoff = 1
  FetchMax = 1
  MaxGen = 2
SPECIFICATION Spec
SYMMETRY Symmetric
INVARIANTS
  VerdictsAreTrue
PROPERTIES
  FetchesSpaced
  WithdrawnKeysAgeOut
  CacheNeverRegresses
