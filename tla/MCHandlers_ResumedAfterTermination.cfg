SPECIFICATION Spec
CONSTANTS
  Configs                 <- MCDraining
  Garbled                 =  {}
  MaxConnections          =  2
  SDP_MAX_REQUEST_COUNTER =  2
  SdpRetryCycles          =  2
  StartFailures           =  {FALSE}
CHECK_DEADLOCK FALSE
PROPERTIES
  ResumedAfterTermination
