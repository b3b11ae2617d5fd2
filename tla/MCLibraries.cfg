SPECIFICATION Spec
CONSTANTS
  Policies <- SomePolicies
  Requests <- SomeRequests
  Own = Own
  None = None
  Bad = Bad
  Now = 2
  Skew = 1
  MaxItems = 2
  MaxBody = 1
  HttpPolicies <- SomeHttpPolicies
  HttpReads <- SomeReads
  Statuses = {200, 302, 401, 403, 503}
  MinLimit = 2
  MaxLimit = 3
  MaxTimeout = 1
  Loopback = {"local"}
  Absent = None
  Primaries <- SomePrimaries
  Names <- AllNames
  Shared <- SharedNames
  Scope <- ScopeOf
  MaxOutput = 1
  NoOne = None
  Manifests <- SomeManifests
  Catalogs <- SomeCatalogs
  Responses <- SomeResponses
  MaxReply = 1
  MaxDepth = 1
  MaxEdits = 2
  Nil = None
  Deployments <- SomeDeployments
  Contracts <- SomeContracts
  Situations <- SomeSituations
  MaxContractEdits = 2
  EnvironmentOnly = {"token"}
  MaxAttributes = 3
  MaxPairs = 3
  Exhibits <- SomeExhibits
  MaxParts = 2
  MaxText = 4
  Nobody = None
  DefaultClients <- TwoClients
  DefaultOrigins <- OneOrigin
INVARIANTS
  AuditsAgree
  StartupIsTrue
  EvidenceIsCurrent
  CatalogIsCallable
  HttpReadIsTrue
  AdmissionIsEntitled
CHECK_DEADLOCK FALSE
