SPECIFICATION FairSpec
CONSTANTS
  r1 = r1
  r2 = r2
  Replicas = {r1, r2}
  NoReplica = NoReplica
  Interval = 3
  StaleLimit = 2
  RunningPoll = 1
  RetryDelay = 4
  OnStartup = {r1}
  ApiTriggers = TRUE
  Faults <- AnyFault
  MaxFaults = 3
INVARIANTS Inv RunIsRecorded LockHeldByRun
PROPERTIES ImplementsRunService NoEarlyRepeat StaleRunRecovered KeepsSyncing StopCompletes
