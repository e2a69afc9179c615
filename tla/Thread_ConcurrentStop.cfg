CONSTANTS
  c1 = c1
  c2 = c2
  Nobody = Nobody
  Callers <- MC_TwoCallers
  Ops <- MC_BothOps
  MaxCalls = 2
  TaskKinds = {FALSE}
SPECIFICATION Spec
INVARIANT NoAssertFailure
CHECK_DEADLOCK FALSE
