SPECIFICATION FairSpec
CONSTANTS
  e1 = e1
  e2 = e2
  r1 = r1
  Events = {e1, e2}
  Undated = {e2}
  Replicas = {r1}
  NoReplica = NoReplica
  BatchSize = 2
  Overlap = 1
  DayLength = 2
  Lag = 1
  LockCanBeLost = TRUE
  MaxNow = 4
  MaxFaults = 2
PROPERTY Converges
