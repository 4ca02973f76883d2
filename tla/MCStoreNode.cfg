SPECIFICATION Spec
CONSTANTS
  a = a  b = b
  ArenaSize = 3
  NoContent = NoContent
  Tasks = {w1, w2, w3, w4}
  HasSsd = TRUE
  Environments <- MCEnvironments
SYMMETRY Symmetry
\* A node whose handlers are all done may stop.
CHECK_DEADLOCK FALSE
INVARIANTS
  AckedOnSsd
  ReadsNeverGoBack
  DramHoldsAcked
  SsdAccounting
  NoTornRead
  
