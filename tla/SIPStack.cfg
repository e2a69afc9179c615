CONSTANTS
  A = A  B = B  D = D  V = V  L = L  L6 = L6
  Any = Any  Auto = Auto  Invalid = Invalid  NoAddr = NoAddr
  Order <- MC_Order
  PortBits = 2
  WSFeature = TRUE
  EnabledChoices <- MC_Enabled
  Base <- MC_Base
  Max <- MC_Max
  ListenerConfigs <- MC_Configs
  BusyChoices <- MC_Busy
  LocalAddrs <- MC_LocalAddrs
  IfaceSeqs <- MC_IfaceSeqs
  Legacies <- MC_Legacies
  Carps <- MC_Carps
  RangeChoices <- MC_Ranges
  Rates <- MC_Rates
  DefaultAddrs <- MC_DefaultAddrs
  TslReads <- MC_TslReads
  ConfigBusyChoices <- MC_ConfigBusy
SPECIFICATION Spec
INVARIANTS TypeOK OutcomeMatchesRanges PlainOutcome DefaultIsListener
CHECK_DEADLOCK FALSE
