SPECIFICATION Spec
CONSTANTS
  NoTransaction = 0
  Heartbeats    = 1
  MaxTasks      = 2
  CreatedKinds  = {"send_charging_started", "stop_transaction"}
  LogColumns   <- CreatedLogColumns
  ErrorColumns <- CreatedErrorColumns
CHECK_DEADLOCK FALSE
INVARIANTS
  TypeOK
  StopsFollowStarts
  LockAccountsForTasks
PROPERTIES
  TransactionKept
  EveryTaskEnds
  ServerNotices
