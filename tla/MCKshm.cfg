SPECIFICATION FairSpec
CONSTANTS
  Size = 10
  Align = 2
  Sizes = {1, 5}
  First = 1
INVARIANTS
  TypeOK
  NoOverwrite
  ParityAgrees
PROPERTIES
  ImplementsFifo
  WriterProgress
