SPECIFICATION Spec
CONSTANTS
  Settings  <- MCSettings
  Leftovers <- MCLeftovers
CHECK_DEADLOCK FALSE
PROPERTIES
  ScheduleExchangeEnds
