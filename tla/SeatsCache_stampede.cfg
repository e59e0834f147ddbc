SPECIFICATION Spec
CONSTANTS
  k1 = k1
  t1 = t1
  t2 = t2
  t3 = t3
  l1 = l1
  l2 = l2
  l3 = l3
  l4 = l4
  Keys = {k1}
  Tasks = {t1, t2, t3}
  Locks = {l1, l2, l3, l4}
  NoKey = NoKey
  NoLock = NoLock
  NoTask = NoTask
  Ttl = 1
  MaxSize = 1
SYMMETRY Symmetry
INVARIANT SingleFlight
