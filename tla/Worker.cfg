CONSTANTS
  worker = worker
  command = command
  NoProcess = NoProcess
  Scheduled = {worker}
  Manual = {command}
  MaxExecutions = 2
SPECIFICATION FairSpec
INVARIANTS
  ZeroExitIsClean
  DisconnectedIsIdle
PROPERTIES
  LeaseReleasedByOwner
  ShutdownCompletes
  ExecutionIsForgotten
CHECK_DEADLOCK FALSE
