SPECIFICATION Spec
CONSTANTS
  Devices = {f1}
  Entries = {e1, e2}
  Keys = {1, 2, 3}
  NULL = NULL
INVARIANT SleepsUntilFrames
