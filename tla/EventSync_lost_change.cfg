SPECIFICATION Spec
CONSTANTS
  e1 = e1
  e2 = e2
  r1 = r1
  Events = {e1, e2}
  Undated = {}
  Replicas = {r1}
  NoReplica = NoReplica
  BatchSize = 2
  Overlap = 1
  DayLength = 3
  Lag = 1
  LockCanBeLost = FALSE
  MaxNow = 8
  MaxFaults = 0
SYMMETRY Symmetry
INVARIANT NoLostChange
