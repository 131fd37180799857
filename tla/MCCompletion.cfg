SPECIFICATION FairSpec
CONSTANTS
  DoneMax = 4
  MaxCredit = 3
  Waiters = {t1}
INVARIANTS
  TypeOK
  AssertHolds
  SleeperReachable
  NoSpuriousReturn
  NoDanglingWaiter
PROPERTY
  WaiterReturns
