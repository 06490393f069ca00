CONSTANTS
  ReqSet <- MCPlainReqSet
  MaxReqs = 1
  Versions = {"1.1"}
  Pages = {404}
  Plain = {200}
  MaxPieces = 1
  MaxAsync = 1
SPECIFICATION Spec
INVARIANTS
  HeaderOnce
CHECK_DEADLOCK FALSE
