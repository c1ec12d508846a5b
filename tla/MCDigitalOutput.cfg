CONSTANTS
  t1 = t1
  t2 = t2
  v1 = v1
  v2 = v2
  None = None
  Threads = {t1, t2}
  Valves = {v1, v2}
  ActiveHigh = {v1}
  ConfigList <- MCConfigList
  CallsOf <- MCCallsOf
SPECIFICATION Spec
INVARIANTS
  TypeOK
  MaskMatchesPins
  CallbackToldTheTruth
  ForceSetsAll
