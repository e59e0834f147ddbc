SPECIFICATION FairSpec
CONSTANTS
  b1 = b1
  b2 = b2
  c1 = c1
  c2 = c2
  Bookings = {b1, b2}
  Cancels = {c1, c2}
  Nobody = Nobody
  Faults <- AnyFault
  MaxFaults = 2
CHECK_DEADLOCK FALSE
INVARIANTS Inv CancelledIsReleased NoSilentOrphan ActiveIsRegistered
PROPERTY CancelHeals
