SPECIFICATION Spec
CONSTANTS
  c1 = c1
  k1 = k1
  k2 = k2
  t1 = t1
  f1 = f1
  x = x
  Conn = {c1}
  Key = {k1, k2}
  Table = {t1}
  Field = {f1, f2}
  Val = {x}
  Absent = Absent
  TableOf <- MCTableOf
  InitialStores <- MCStores
  WatchSets <- MCTables
  Written <- MCAnything
  ReadKeys <- MCReadKeys
  DirectKeys = {}
  MaxDrops = 0
  MaxCmds = 2
  MaxReads = 1
  MaxSess = 1
PROPERTY DeletesAll
CHECK_DEADLOCK FALSE
