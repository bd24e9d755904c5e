SPECIFICATION Spec
CONSTANTS
  s1 = s1
  s2 = s2
  p1 = p1
  p2 = p2
  d1 = d1
  d2 = d2
  Empty = Empty
  Sub = {s1, s2}
  Db = {d1, d2}
  Path = {p1, p2}
  Wanted <- MCWanted
  Payload = {Empty, x}
  None = None
  NoSub = NoSub
  MaxChanges = 2
  MaxFaults = 1
INVARIANTS
  NothingMissed
  SyncIsComplete
PROPERTIES
  QuietAfterStop
CHECK_DEADLOCK FALSE
