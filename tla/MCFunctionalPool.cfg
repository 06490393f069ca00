CONSTANTS
  Client = {c1, c2, c3}
  Instance = {i1, i2, i3}
  None = None
  MaxHeld = 1
  MaxGets = 2
SPECIFICATION Spec
INVARIANTS Exclusive LockedWhileUsed PooledOnce
PROPERTIES ImplementsAllocator GetReturns
CHECK_DEADLOCK FALSE
