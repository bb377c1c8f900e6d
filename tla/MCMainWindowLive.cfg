SPECIFICATION WindowSpec
CONSTANTS
  States       <- XmlStates
  InitialState <- XmlInitial
  Transitions  <- XmlTransitions
  Events       <- MCEvents
  Messages     <- XmlMessages
  ErrorRules   <- XmlErrorRules
  NoState      =  "None"
  MaxErrors    =  4
  InitialLevel =  0
  FullLevel    =  2
  PaymentDelay =  3
  Vehicles     =  {v1, v2}
  NoVehicle    =  v0
  DbFailures   =  {}
  MaxSessions  =  2
INVARIANTS
  NeverAborts
  SessionIsNewest
PROPERTIES
  ChargeCompletes
  PaymentCompletes
