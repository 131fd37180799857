SPECIFICATION FairSpec
CONSTANTS
  Pollers = {p1, p2}
  Files = {f1}
  Bad = {bad}
  MaxTimeout = 1
  Inline = 1
  NULL = NULL
PROPERTY
  PollEnds
