SPECIFICATION Spec
CONSTANTS
  Lines <- MCLines
  Documents <- MCDocuments
  Wrapped <- MCWrapped
  MaxLines = 5
\* A call that failed, or whose answer was replayed, is over.
CHECK_DEADLOCK FALSE
INVARIANTS
  StreamDecoded
  ReplayFaithful
