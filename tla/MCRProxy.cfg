CONSTANTS
  Addr = {a1, a2}
  Upstream = {u}
  Control = {c1, c2}
  Data = {d1, d2}
  None = None
  MaxVisits = 2
  MaxBreaks = 1
SPECIFICATION Spec
INVARIANTS
  Registered
  PairedOnce
  WaitingOnTheWay
  ClaimedAlive
PROPERTIES
  ImplementsBoard
  Served
\* No visitor comes after the last, and nothing after an undefined step.
CHECK_DEADLOCK FALSE
