SPECIFICATION Spec
CONSTANTS
  g1 = g1  g2 = g2  g3 = g3  g4 = g4
  Blank = Blank
  OpenAi = 2
  Requests = {r1, r2, r3}
  Gateways = {g1}
  Tenants = {1, 2}
  Keys <- MCKeys
  Nodes = {1, 2}
  U64Max = 20
  LeaseTTL = 1
  ArenaSize = 1
  NoContent = NoContent
  Nobody = Nobody
  Dropped = Dropped
  MaxWaiters = 1
  Deployments <- TwoStores
  RequestKinds <- TwoTenantKinds
  CachelessGateways = {}
  Layout <- TwoNodes
  ReadNode <- ReadFirst
  BodyLens = {1}
  MaxFaults = 0
  MaxRemoves = 0
SYMMETRY Symmetry
INVARIANTS
  ResponseMatchesRequest
