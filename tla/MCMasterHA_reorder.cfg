SPECIFICATION Spec
CONSTANTS
  m1 = m1  m2 = m2  c1 = c1  c2 = c2  c3 = c3  t1 = t1  t2 = t2  k1 = k1  k2 = k2
  Masters <- OneMaster
  Clients = {c1, c2}
  Operators = {}
  OperatorOps = {"remove", "set_tenant_quota", "mount_segment"}
  Workloads <- Everybody
  ClientId <- TwoObjects
  BindAddr <- DistinctAddrs
  None = None
  DefaultNode = n1
  DefaultLen = 2
  ObjectLen = 1
  QuotaLimit = 1
  MaxCrashes = 0
  Tenants = {t1, t2}
  Keys = {k1}
  Nodes = {n1}
  U64Max = 8
  LeaseTTL = 1
  ArenaSize = 2
  NoContent = NoContent
CHECK_DEADLOCK FALSE
INVARIANTS
  AckedCommitSurvives
