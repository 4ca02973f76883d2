SPECIFICATION Spec
CONSTANTS
  g1 = g1  g2 = g2  g3 = g3  g4 = g4
  Blank = Blank
  OpenAi = 2
  Requests = {r1, r2, r3}
  Gateways = {g1, g2}
  Tenants = {1}
  Keys <- MCKeys
  Nodes = {1, 2}
  U64Max = 20
  LeaseTTL = 1
  ArenaSize = 2
  NoContent = NoContent
  Nobody = Nobody
  Dropped = Dropped
  MaxWaiters = 1
  Deployments <- OneConfig
  RequestKinds <- SameKeyKinds
  CachelessGateways = {}
  Layout <- UnknownNode
  ReadNode <- ReadFirst
  BodyLens = {1, 3}
  MaxFaults = 2
  MaxRemoves = 0
SYMMETRY Symmetry
INVARIANTS
  CountersAddUp
  CommittedIsWritten
  AckedCommitStays
  ReservationOwned
  CoalescingSound
