SPECIFICATION FairSpec
CONSTANTS
  k1 = k1
  k2 = k2
  t1 = t1
  t2 = t2
  t3 = t3
  l1 = l1
  l2 = l2
  l3 = l3
  l4 = l4
  l5 = l5
  Keys = {k1, k2}
  Tasks = {t1, t2, t3}
  Locks = {l1, l2, l3, l4, l5}
  NoKey = NoKey
  NoLock = NoLock
  NoTask = NoTask
  Ttl = 2
  MaxSize = 1
INVARIANTS Inv SingleFlightUnlessDisturbed NoLockLeaks
PROPERTY CallsReturn
