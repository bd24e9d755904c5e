SPECIFICATION Spec
CONSTANTS
  c1 = c1
  k1 = k1
  k2 = k2
  t1 = t1
  f1 = f1
  x = x
  Conn = {c1, c2}
  Key = {k1}
  Table = {t1}
  Field = {f1}
  Val = {x}
  Absent = Absent
  TableOf <- MCTableOf
  InitialStores <- MCStores
  WatchSets <- MCWatch
  Written <- MCWritten
  ReadKeys <- MCReadKeys
  DirectKeys = {}
  MaxDrops = 1
  MaxCmds = 1
  MaxReads = 1
  MaxSess = 1
INVARIANTS
  TypeOK
  CleanReadsCurrent
PROPERTIES
  OkIsAtomic
CHECK_DEADLOCK FALSE
