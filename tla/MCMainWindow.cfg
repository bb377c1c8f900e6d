SPECIFICATION WindowSafetySpec
CONSTANTS
  States       <- XmlStates
  InitialState <- XmlInitial
  Transitions  <- XmlTransitions
  Events       <- MCEvents
  Messages     <- XmlMessages
  ErrorRules   <- XmlErrorRules
  NoState      =  "None"
  MaxErrors    =  4
  InitialLevel =  0
  FullLevel    =  2
  PaymentDelay =  2
  Vehicles     =  {v1}
  NoVehicle    =  v0
  DbFailures   =  {"error", "lost"}
  MaxSessions  =  2
CHECK_DEADLOCK FALSE
INVARIANTS
  WindowTypeOK
  ChargeTimerFollowsState
  LevelBelongsToCharge
  EpisodeLegal
PROPERTIES
  CompletedByFullCharge
