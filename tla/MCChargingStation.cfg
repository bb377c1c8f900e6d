SPECIFICATION StationSpec
CONSTANTS
  States       <- ShortStates
  InitialState <- XmlInitial
  Transitions  <- ShortTransitions
  Events       <- MCEvents
  Messages     =  {}
  ErrorRules   <- NoErrors
  NoState      =  "None"
  MaxErrors    =  0
  InitialLevel =  0
  FullLevel    =  1
  PaymentDelay =  1
  Vehicles     =  {v1}
  NoVehicle    =  v0
  DbFailures   =  {}
  MaxSessions  =  1
  NoTransaction = 0
  Heartbeats    = 0
  MaxTasks      = 2
  Tracked       = {"send_charging_started", "stop_transaction"}
  LogColumns   <- CreatedLogColumns
  ErrorColumns <- CreatedErrorColumns
CHECK_DEADLOCK FALSE
INVARIANTS
  StopsHaveCompletedSession
