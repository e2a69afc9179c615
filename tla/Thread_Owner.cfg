CONSTANTS
  c1 = c1
  k1 = k1
  k2 = k2
  k3 = k3
  k4 = k4
  Nobody = Nobody
  Callers <- MC_OneCaller
  Ops <- MC_AllOps
  MaxCalls = 4
  TaskKinds = {FALSE, TRUE}
  Tasks <- MC_Tasks
  Delayed <- MC_Delayed
  MaxCapacity = 2
SPECIFICATION Spec
INVARIANTS TypeOK NoAssertFailure FlagMatchesThread
PROPERTIES CallsReturnUnlessPolling
CHECK_DEADLOCK FALSE
