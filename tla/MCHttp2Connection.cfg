CONSTANTS
  MaxStream = 3
  Posts = {3}
  Heads = {1}
  MaxBody = 2
  Window = 2
  MaxAsync = 1
SPECIFICATION Spec
INVARIANTS
  OwnAnswer
  HandledOnce
PROPERTIES
  Answered
\* The client sends no more than MaxStream requests.
CHECK_DEADLOCK FALSE
