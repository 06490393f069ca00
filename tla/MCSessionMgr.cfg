SPECIFICATION Spec
CONSTANTS
  Ptr = {p1, p2}
  a1 = a1
  a2 = a2
  s1 = s1
  s2 = s2
  s3 = s3
  Addr <- MCAddr
  Sid <- MCSid
  Hash <- MCHash
  MaxRehash = 1
  Null = Null
  NoSid = NoSid
  Key = {k}
  Val = {v}
  Nil = Nil
  Absent = Absent
  TimeAlive = 1
  MaxTime = 2
INVARIANTS
  HeldAlive
  MapMatchesHeap
  RefsCountPointers
PROPERTIES
  DanglingOnlyByPeer
  ReapedExpired
  ImplementsStore
  ExpiredReaped
