\* Every property speaks of undamaged masks only: damaged states are not
\* explored further.
SPECIFICATION Spec
CONSTANTS
  t1 = t1
  t2 = t2
  None = None
  Threads = {t1, t2}
  Config <- Numbered
  ActiveHigh = {0}
  High = {0}
  QueueSize = 2
  Debounced = {0}
  CallsOf <- MCCalls
CONSTRAINT Undamaged
INVARIANTS
  TypeOK
  ReportedIsStatus
  LastUpdateHolds
  CallbackToldTheTruth
  NoEventIsStranded
