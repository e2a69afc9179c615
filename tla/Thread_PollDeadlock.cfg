CONSTANTS
  c1 = c1
  c2 = c2
  Nobody = Nobody
  Callers <- MC_OneCaller
  Ops <- MC_BothOps
  MaxCalls = 2
  TaskKinds = {TRUE}
SPECIFICATION Spec
PROPERTY CallsReturn
CHECK_DEADLOCK FALSE
