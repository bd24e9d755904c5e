SPECIFICATION FairSpec
CONSTANTS
  r1 = r1
  r2 = r2
  d1 = d1
  k1 = k1
  k2 = k2
  t1 = t1
  f1 = f1
  x = x
  p1 = p1
  p2 = p2
  Conn = {r1, r2, d1}
  Key = {k1, k2}
  Table = {t1}
  Field = {f1, f2}
  Val = {x}
  Absent = Absent
  TableOf <- MCTableOf
  InitialStores <- MCStores
  WatchSets <- MCWatch
  Written <- MCWrites
  ReadKeys <- MCAllRead
  DirectKeys = {k2}
  MaxDrops = 1
  MaxCmds = 1
  MaxReads = 1
  MaxSess = 1
  Request = {r1, r2}
  Bulk = {r2}
  NumOps <- MCNumOps
  Proc = {p1}
  ProcOf <- MCOneProc
  NoRequest = NoRequest
INVARIANTS
  TranslibTypeOK
  SessionClosed
PROPERTIES
  ImplementsConfigStore
  SiblingsUndisturbed
  AloneReadsHold
  Answered
  WrittenIsValidated
CHECK_DEADLOCK FALSE
