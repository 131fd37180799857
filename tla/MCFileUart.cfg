SPECIFICATION FairSpec
CONSTANTS
  TxBufSize = 2
  SyncBytes = 2
  Bytes = {0, 1}
  Callers = {c1, c2}
  Mounts = {d1, d2}
  MaxDepth = 1
  NULL = NULL
INVARIANTS
  TypeOK
  ClosedWhenItMust
  NotForgotten
PROPERTIES
  ImplementsLog
  FlushTried
