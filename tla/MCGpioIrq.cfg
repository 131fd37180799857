SPECIFICATION Spec
CONSTANTS
  Entries = {e1, e2}
  MaxIsr = 2
INVARIANT NoMoreIrq
