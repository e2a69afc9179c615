CONSTANTS
  Names <- MC_Names
  Values <- MC_Values
  InitParams <- MC_InitParams
  MaxOps = 4
SPECIFICATION Spec
PROPERTY ImplementsParamDict
CHECK_DEADLOCK FALSE
