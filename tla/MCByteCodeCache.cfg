SPECIFICATION Spec
CONSTANTS
  e1 = e1  e2 = e2
  Engine = {e1, e2}
  Char <- MCChar
  Html <- MCHtml
  Empty <- MCEmpty
  NewPage <- MCWritten
  MaxLoads = 3
  MaxEdits = 2
  MaxTime = 2
  None = None
SYMMETRY Engines
INVARIANT FreshCode
INVARIANT Reported
INVARIANT Converted
CHECK_DEADLOCK FALSE
