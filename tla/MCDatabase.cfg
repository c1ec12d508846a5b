CONSTANTS
  main = main
  shell = shell
  modbus = modbus
  MdbAddr = MdbAddr
  HumidFactor = HumidFactor
  Uptime = Uptime
  OtaFile = OtaFile
  NoCall = NoCall
  NoCode = NoCode
  ALL = "ALL"
  FACTORY = 6
  Main = main
  Threads = {main, shell, modbus}
  EarlyThreads = {shell}
  Params <- MCParams
  GroupIds <- MCGroupIds
  SetupGroups <- MCSetupGroups
  GroupOf <- MCGroupOf
  Kind <- MCKind
  VarSize <- MCVarSize
  Min <- MCMin
  Max <- MCMax
  Default <- MCDefault
  AccessOf <- MCAccess
  CallsOf <- MCCallsOf
SPECIFICATION FairSpec
INVARIANTS
  TypeOK
  MutualExclusion
PROPERTIES
  Linearizable
  SetupFinishes
  CallsReturn
