SPECIFICATION Spec
CONSTANTS
  Configs                 <- MCConfigs
  Garbled                 =  {"invalid", "other", "wireless"}
  MaxConnections          =  2
  SDP_MAX_REQUEST_COUNTER =  2
  SdpRetryCycles          =  2
  StartFailures           =  {TRUE, FALSE}
CHECK_DEADLOCK FALSE
INVARIANTS
  EvccOneAtATime
  PausedForSession
PROPERTIES
  EvccComesToRest
  SeccAvailableAgain
