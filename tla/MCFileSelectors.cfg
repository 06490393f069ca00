SPECIFICATION Spec
CONSTANTS
  p1 = p1  p2 = p2  s1 = s1  s2 = s2  i1 = i1  i2 = i2  i3 = i3
  Slot = {s1, s2}
  Path = {p1, p2}
  Inode = {i1, i2, i3}
  Root = Root  None = None  Folder = Folder
  Index <- MCIndex
  Hosts <- MCHosts
  Requests <- MCRequests
  Present = {p1, p2}
  MaxRequests = 3
  MaxTime = 1
  Size = 3
  Threshold = 1
  Buf = 2
  Block = 2
SYMMETRY Slots
INVARIANT Delivered
INVARIANT Revalidated
PROPERTY Stored
CHECK_DEADLOCK FALSE
