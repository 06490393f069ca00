\* All cuts of up to three pipelined requests of every kind, over both adapters.
CONSTANTS
  ReqSet <- MCReqSet
  MaxReqs = 3
  Versions = {"1.1", "1.0", "other"}
  Pages = {404}
  Plain = {100, 200, 304}
  MaxPieces = 2
  MaxAsync = 1
SPECIFICATION Spec
INVARIANTS
  Boundaries
  WellFramed
  KeepAliveAnnounced
PROPERTIES
  Answered
\* The client sends MaxReqs requests and stops.
CHECK_DEADLOCK FALSE
