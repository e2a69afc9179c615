CONSTANTS
  NumKeys = 2
  Values <- MC_Values
  Empty = ""
  InitLines <- MC_InitLines
  MaxIndex = 2
  MaxOps = 4
  IndexOnAbsent = FALSE
  Ind = Ind
  Thr = Thr
  None = None
  Indet <- Ind
  Throw <- Thr
  NoArg <- None
  Messages <- MC_Messages
  Methods <- MC_Methods
  FamilyCodes <- MC_FamilyCodes
  NxxCodes <- MC_NxxCodes
  T1 = T1
  T2 = T2
  Threads <- MC_Threads
  CallsOf <- MC_CallsOf
  MaxCalls = 2
  WriterPreferring = FALSE
SPECIFICATION SpecSetStartLine
INVARIANT RequestXorResponse
CHECK_DEADLOCK FALSE
