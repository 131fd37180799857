SPECIFICATION Spec
CONSTANTS
  NULL = NULL
  Tasks = {t1, t2}
  Fds = {0, 1}
  Inodes = {i1, i2}
  MaxAbandoned = 1
PROPERTY ClosesItsOwn
