SPECIFICATION Spec
CONSTANTS
  Tenants = {t1}
  Keys = {k1, k2}
  Nodes = {n1, n2}
  U64Max = 100
  LeaseTTL = 1
  ObjectLens = {1, 2}
  ReplicaCounts = {1, 2}
  SegmentLens = {2, 3}
  QuotaLimits = {}
  ReclaimTargets = {1}
  PinTimes = {}
  MaxSegments = 2
  MaxTime = 0
SYMMETRY Symmetry
INVARIANTS
  ChunksBelowPointer
  ChunksDisjoint
PROPERTIES
  CommittedImmutable
CHECK_DEADLOCK FALSE
