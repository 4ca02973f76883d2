SPECIFICATION Spec
CONSTANTS
  t1 = t1  k1 = k1  n1 = n1  n2 = n2
  Tenants = {t1}
  Keys = {k1}
  Nodes = {n1}
  LocalNodes = {n1}
  U64Max = 4
  LeaseTTL = 1
  Calls = {c1, c2, c3}
  CallKinds <- MCKinds
  Seed <- MCSeed
  Free = Free
INVARIANTS
  AuditComplete
  EffectsAudited
  OneFirstDrain
  PurgesInOrder
  ViewsCoverEarlier
SYMMETRY CallSymmetry
