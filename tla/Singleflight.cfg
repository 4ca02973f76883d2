SPECIFICATION FairSpec
CONSTANTS
  Requests = {r1, r2, r3, r4}
  SfKeys = {k1, k2}
  Results = {ok, err}
  MaxWaiters = 1
  Nobody = Nobody
  Dropped = Dropped
INVARIANTS
  EntryHasLeader
  WaitersServed
  WaiterCap
  WaitersAgree
PROPERTIES
  WaitersFinish
CHECK_DEADLOCK FALSE
