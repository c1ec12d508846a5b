\* Every property speaks of undamaged masks only: damaged states are not
\* explored further.
SPECIFICATION Spec
CONSTANTS
  t1 = t1
  t2 = t2
  None = None
  Threads = {t1, t2}
  AlarmCount = 2
  QueueSize = 1
  Debounced = {0}
  CallsOf <- MCCalls
CONSTRAINT Undamaged
INVARIANTS
  TypeOK
  LastRequestHolds
  MemoryCoversActive
  MemoryIsExact
  CallbackToldTheTruth
  NoEventIsStranded
