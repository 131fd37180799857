SPECIFICATION FairSpec
CONSTANTS
  NULL = NULL
  NEntries = {e1, e2}
  NEvents = {"SND_EVENT_AVAIL"}
  NKeys = {1, 2}
  SndKeys = {1, 2}
  Files = {f1, f2}
  Mounters = {m1, m2}
  MaxRetries = 2
  InputKeys = {k1, k2}
  FifoSize = 2
  RcMessages <- RcMsgs
  Keycodes = {k1, k2}
  RcTimeout = 1
  Scancodes = {1, 2, 3, 4, 5}
  MaxTable = 4
  MinSize = 1
  MaxSize = 4
  Classes = {"event", "mouse"}
  Devs = {d1, d2}
  MaxId = 1
  IrqEntries = {e1, e2, e3}
  MaxIsr = 2
  FifoMax = 2
  MaxText = 3
  RxSize = 2
  RxBytes = {0, 1}
  MaxRef = 2
  MaxOpens = 3
  Tasks = {t1, t2}
  Short = 1
  Long = 2
  FifoDepth = 2
  Count = 3
  Groups <- ModuleGroups
  Fds = {0, 1}
  Inodes = {i1, i2}
  MaxAbandoned = 1
  SectSize = 2
  NSectors = 2
  BlockBytes = {0, 1}
  MaxFiles = 1
  MayFail = TRUE
  Per = 4
  NErase = 2
  ByteLen = 2
  Codes <- IrCodes
  Skew <- IrSkew
  MaxSample = 40
  HwTimeout = 60
  RawTimeout = 200
  RawSize = 2
INVARIANTS
  TypeOK
  CallbacksSafe
  AutomountSafe
  KeysAgree
  FramesReported
  LinesWhole
  TransfersWhole
  RegistriesAgree
  FilesHeld
  BlocksHeld
PROPERTIES
  CallsEnd
  DisksSettle
  KeysReleased
  ImplementsKeyTable
