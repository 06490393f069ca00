CONSTANTS
  Client = {c1, c2}
  Instance = {i1, i2, i3}
  None = None
  MaxHeld = 2
  MaxGets = 2
SPECIFICATION Spec
PROPERTIES GetReturns
CHECK_DEADLOCK FALSE
