SPECIFICATION Spec
CONSTANTS
  Pollers = {p1, p2}
  Files = {f1, f2}
  Bad = {}
  MaxTimeout = 0
  Inline = 1
  NULL = NULL
INVARIANTS
  TypeOK
  NoLostEvent
  NoDanglingEntry
SYMMETRY PollSymmetry
