CONSTANTS
  Chars <- MC_Chars
  InitURIs <- MC_InitURIs
  Schemes <- MC_Schemes
  UserInfos <- MC_UserInfos
  HostPorts <- MC_HostPorts
  Hosts <- MC_Hosts
  Ports <- MC_Ports
  ParamStrings <- MC_ParamStrings
  HeaderStrings <- MC_HeaderStrings
  Names <- MC_Names
  Values <- MC_Values
  MaxOps = 3
SPECIFICATION Spec
CHECK_DEADLOCK FALSE
PROPERTY ImplementsURIRecord
