SPECIFICATION Spec
CONSTANTS
  m1 = m1  m2 = m2  c1 = c1  c2 = c2  c3 = c3  t1 = t1  t2 = t2  k1 = k1  k2 = k2
  Masters <- TwoMasters
  Clients = {c1, c2, c3}
  Operators = {c3}
  OperatorOps = {"remove", "set_tenant_quota", "mount_segment"}
  Workloads <- TwoWritersOrOperator
  ClientId <- WritersAndOperator
  BindAddr <- DistinctAddrs
  None = None
  DefaultNode = n1
  DefaultLen = 2
  ObjectLen = 1
  QuotaLimit = 1
  MaxCrashes = 1
  Tenants = {t1}
  Keys = {k1, k2}
  Nodes = {n1}
  U64Max = 8
  LeaseTTL = 1
  ArenaSize = 2
  NoContent = NoContent
CHECK_DEADLOCK FALSE
INVARIANTS
  OneLeader
  AccountingSurvives
  LoneCommitSurvives
  ServedChunksHold
