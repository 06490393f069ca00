SPECIFICATION TasksSpec
CONSTANTS
  timer = timer  once = once  a = a  b = b  bad = bad
  Timer = {timer}
  Once = {once}
  Version = {a, b, bad}
  Good = {a, b}
  MaxChanges = 3
  MaxClock = 2
  NoScript = NoScript
INVARIANT FreshTask
PROPERTY Reloaded
CHECK_DEADLOCK FALSE
