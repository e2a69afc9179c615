CONSTANTS
  Order <- MC_Order
  PortBits = 2
  Base <- MC_Base
  Max <- MC_MaxWrap
  WSFeature = TRUE
  ListenerConfigs <- MC_UdpConfig
  EnabledChoices <- MC_AllEnabled
  BusyChoices <- MC_AllBusy
SPECIFICATION Spec
PROPERTY Terminates
CHECK_DEADLOCK FALSE
