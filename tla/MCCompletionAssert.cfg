SPECIFICATION Spec
CONSTANTS
  DoneMax = 3
  MaxCredit = 2
  Waiters = {t1, t2}
INVARIANT
  AssertHolds
