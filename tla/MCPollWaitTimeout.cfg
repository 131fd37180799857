SPECIFICATION Spec
CONSTANTS
  Pollers = {p1}
  Files = {f1}
  Bad = {}
  MaxTimeout = 2
  Inline = 1
  NULL = NULL
INVARIANT
  BlocksAtMostTimeout
