SPECIFICATION FairSpec
CONSTANTS
  DoneMax = 1
  Works = {w1, w2}
  Jobs = {j1}
  Wt = wt
  Callers = {wt, task, isr}
  Isrs = {isr}
  Tasks = {}
  MaxDelay = 2
  TimerQueueLength = 1
  NULL = NULL
INVARIANTS
  TypeOK
  QueueMatchesWorker
  DoingIsRunning
  NoOversleep
PROPERTIES
  ImplementsSlots
  QueuedWorkRuns
