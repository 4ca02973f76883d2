SPECIFICATION FairSpec
CONSTANTS
  g1 = g1  g2 = g2  g3 = g3  g4 = g4
  Blank = Blank
  OpenAi = 2
  Requests = {r1, r2}
  Gateways = {g1, g2, g3, g4}
  Tenants = {1, 2}
  Keys <- MCKeys
  Nodes = {1, 2}
  U64Max = 20
  LeaseTTL = 1
  ArenaSize = 2
  NoContent = NoContent
  Nobody = Nobody
  Dropped = Dropped
  MaxWaiters = 1
  Deployments <- Rollout
  RequestKinds <- PolicyKinds
  CachelessGateways = {g3}
  Layout <- OversizedNode
  ReadNode <- ReadFirst
  BodyLens = {1}
  MaxFaults = 1
  MaxRemoves = 1
INVARIANTS
  ResponseMatchesRequest
  CacheHoldsEligibleOnly
  WaitersShareMode
PROPERTIES
  ImplementsCache
  RequestsFinish
