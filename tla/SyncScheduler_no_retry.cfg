SPECIFICATION FairSpec
CONSTANTS
  r1 = r1
  Replicas = {r1}
  NoReplica = NoReplica
  Interval = 4
  StaleLimit = 3
  RunningPoll = 1
  RetryDelay = 2
  OnStartup = {r1}
  ApiTriggers = FALSE
  Faults <- FailedRunsOnly
  MaxFaults = 1
PROPERTY RetryAfterFailure
