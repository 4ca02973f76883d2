SPECIFICATION Spec
CONSTANTS
  Tenants = {t1, t2}
  Keys = {k1, k2}
  Nodes = {n1}
  U64Max = 3
  LeaseTTL = 2
  ObjectLens = {0, 1}
  ReplicaCounts = {0, 1}
  SegmentLens = {2}
  QuotaLimits = {1, 2}
  ReclaimTargets = {1, 2}
  PinTimes = {0, 1}
  MaxSegments = 1
  MaxTime = 2
SYMMETRY Symmetry
INVARIANTS
  TypeOK
  QuotaAccounting
  LeaseOnCommitted
PROPERTIES
  QuotaRespected
  EvictionDiscipline
CHECK_DEADLOCK FALSE
