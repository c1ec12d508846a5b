CONSTANTS
  main = main
  shell = shell
  modbus = modbus
  MdbAddr = MdbAddr
  HumidFactor = HumidFactor
  Uptime = Uptime
  OtaFile = OtaFile
  NoCall = NoCall
  NoCode = NoCode
  ALL = "ALL"
  FACTORY = 6
  Main = main
  Threads = {main}
  EarlyThreads = {}
  Params <- MCParams
  GroupIds <- MCGroupIds
  SetupGroups <- MCSetupGroups
  GroupOf <- MCGroupOf
  Kind <- MCKind
  VarSize <- MCVarSize
  Min <- MCMin
  Max <- MCMax
  Default <- MCDefault
  AccessOf <- MCAccess
  CallsOf <- ChecksCallsOf
SPECIFICATION Spec
PROPERTY DefaultsAreLoaded
