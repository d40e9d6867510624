SPECIFICATION FairSpec
CONSTANTS
  TaskKeys = {t1, t2, t3}
  EncKeys = {k1, k2}
  InitKey = k1
  Workers = {w1, w2}
  Handlers = {r1, r2}
  Policies = {"DropNewest", "DropOldest"}
  Capacities = {0, 2}
  None = None
INVARIANTS TypeOK InFlightExact ReadsUnderLiveKey NoLostWakeup
PROPERTIES AcceptedLeavesQueue StopReturns
