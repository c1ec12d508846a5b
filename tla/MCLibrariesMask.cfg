CONSTANTS
  Temper = Temper
  Humid = Humid
  Iqc = Iqc
  DevCode = DevCode
  HwCode = HwCode
  FwVersion = FwVersion
  Sn = Sn
  Uptime = Uptime
  MdbBaud = MdbBaud
  MdbType = MdbType
  HumidFactor = HumidFactor
  None = None
  ALL = "ALL"
  FACTORY = 6
  Params <- MCParams
  GroupIds <- MCGroupIds
  GroupOf <- MCGroupOf
  Kind <- MCKind
  VarSize <- MCVarSize
  Min <- MCMin
  Max <- MCMax
  Default <- MCDefault
  AccessOf <- MCAccess
  Tables <- MCTables
  TableLen <- MCTableLen
  Regs <- MCRegs
  Requests <- MCRequests
  OtherWrites <- MCOtherWrites
  ta = ta
  tb = tb
  tc = tc
  m1 = m1
  m2 = m2
  m3 = m3
  long = long
  NoLedCall = NoLedCall
  LedThreads = {ta, tb}
  LedCallsOf <- MCLedCalls
  LedList <- MCLedList
  LedActiveHigh = {0}
  SlowTicks = 2
  FastTicks = 1
  HeartbeatTicks <- MCHeartbeat
  NoToneCall = NoToneCall
  ToneThreads = {ta, tb}
  ToneCallsOf <- MCToneCalls
  ToneTexts <- MCToneTexts
  Uptimes = 4
  TonePeriod = 3
  NoConn = NoConn
  ConnThreads = {ta, tb, tc}
  ConnCallsOf <- MCConnCalls
  ConnBuffers = {b1, b2}
  ConnMessages = {m1, m2, m3}
  ConnTooLong = long
  NumFormats <- MCNumFormats
  NumDigits = {0, 7}
  MaskMasks <- MCMasks
  MaskChars = {"0", "1", "A", "z", "/"}
  MaskValues <- MCMaskValues
  RtcYears <- MCRtcYears
  RtcDates <- MCRtcDates
  RtcDays = {0, 788, 18627, 18628, 20000}
  RtcSeconds = {0, 3661}
SPECIFICATION LibrariesSpec
CONSTRAINT ConnFollowed
INVARIANT CompleteWhenFilled
