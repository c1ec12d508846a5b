SPECIFICATION Spec
CONSTANTS
  t1 = t1
  t2 = t2
  None = None
  Threads = {t1, t2}
  Config <- Swapped
  ActiveHigh = {0}
  High = {0}
  QueueSize = 2
  Debounced = {1}
  CallsOf <- MCCalls
CONSTRAINT Undamaged
INVARIANT CancelledUpdateIsForgotten
