CONSTANTS
  Messages <- MC_SpaceMessages
  MaxSends = 2
  BufSize = 3
SPECIFICATION Spec
INVARIANT NoUndefinedBehaviour
CHECK_DEADLOCK FALSE
