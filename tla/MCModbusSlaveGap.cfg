CONSTANTS
  Temper = Temper
  Humid = Humid
  Iqc = Iqc
  DevCode = DevCode
  HwCode = HwCode
  FwVersion = FwVersion
  Sn = Sn
  Uptime = Uptime
  MdbBaud = MdbBaud
  MdbType = MdbType
  HumidFactor = HumidFactor
  None = None
  ALL = "ALL"
  FACTORY = 6
  Params <- MCParams
  GroupIds <- MCGroupIds
  GroupOf <- MCGroupOf
  Kind <- MCKind
  VarSize <- MCVarSize
  Min <- MCMin
  Max <- MCMax
  Default <- MCDefault
  AccessOf <- MCAccess
  Tables <- MCTables
  TableLen <- MCTableLen
  Regs <- MCRegs
  Requests <- MCRequests
  OtherWrites <- MCOtherWrites
SPECIFICATION FairSpec
PROPERTY EveryRequestAnswered
