SPECIFICATION Spec
CONSTANTS
  Settings  <- MCSettings
  Leftovers <- MCLeftovers
CHECK_DEADLOCK FALSE
INVARIANTS
  SequenceAgreement
  PowerOnlyAfterAuthorization
  GracefulStopIsSafe
  AgreedEnd
  TimerOfPhase
  EnergyPathReady
PROPERTIES
  PhasesEnd
  BothClose
  ShippedSessionsSucceed
  ImplementsHandover
