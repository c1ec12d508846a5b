--------------------------- MODULE MCModbusSlave ---------------------------
(***************************************************************************)
(* ModbusSlave on the input table of src/slave_modbus.c and three rows of  *)
(* its holding table, and the parameters of src/setup_database.c behind    *)
(* them.                                                                   *)
(***************************************************************************)
EXTENDS ModbusSlave

CONSTANTS Temper, Humid, Iqc, DevCode, HwCode, FwVersion, Sn, Uptime,
          MdbBaud, MdbType, HumidFactor

Bytewise == {Iqc, MdbBaud, MdbType}
Codewords == {DevCode, HwCode, FwVersion, Sn}

MCParams == {Temper, Humid, Uptime, HumidFactor} \cup Bytewise \cup Codewords
MCGroupIds == {"SYS_CONF", "PROC_VAR"}
MCGroupOf == [p \in Params |-> IF p \in {Temper, Humid, Iqc, Uptime} THEN "PROC_VAR" ELSE "SYS_CONF"]
MCKind == [p \in Params |->
  CASE p \in Bytewise -> "U08" [] p \in Codewords -> "U16" [] p = Uptime -> "U32" [] OTHER -> "S16"]
MCVarSize == [p \in Params |-> Bytes[Kind[p]]]
MCMin == [p \in Params |->
  CASE p = HumidFactor -> -100 [] p \in {Temper, Humid} -> -32768 [] OTHER -> 0]
MCMax == [p \in Params |->
  CASE p \in {Iqc, HumidFactor} -> 100 [] p = MdbBaud -> 5 [] p = MdbType -> 3
    [] p \in {Temper, Humid} -> 32767 [] p \in Codewords -> 65535 [] OTHER -> 2147483647]
MCDefault == [p \in Params |->
  CASE p = Temper -> 1234 [] p = Humid -> 5678 [] p = Iqc -> 50 [] p = Uptime -> 10000
    [] p = DevCode -> 256 [] p = HwCode -> 10 [] p = FwVersion -> 110
    [] p = MdbType -> 2 [] OTHER -> 0]
MCAccess == [p \in Params |-> 1]

Row(p, addr) == [p |-> p, addr |-> addr]

\* The input table has a gap, 3 to 199; the holding table has none.
InputRows ==
  <<Row(Temper, 1), Row(Humid, 2), Row(Iqc, 200), Row(DevCode, 201), Row(HwCode, 202),
    Row(FwVersion, 203), Row(Sn, 204), Row(Uptime, 205)>>
HoldingRows == <<Row(MdbBaud, 258), Row(MdbType, 259), Row(HumidFactor, 260)>>
RowsOf(tb) == IF tb = "input" THEN InputRows ELSE HoldingRows

MCTables == {"input", "holding"}
MCTableLen == [tb \in Tables |-> Len(RowsOf(tb))]
MCRegs == [tb \in Tables |-> [i \in 0 .. TableLen[tb] - 1 |-> RowsOf(tb)[i + 1]]]

Reads(tb, addrs) ==
  {[fn |-> "read", tb |-> tb, addr |-> a, num |-> n] : a \in addrs, n \in {0, 1, 3}}
Writes(addrs, nums, values) ==
  UNION {{[fn |-> "write", tb |-> "holding", addr |-> a, num |-> n, words |-> w] :
            w \in [0 .. n - 1 -> values]} : a \in addrs, n \in nums}

\* Requests before, at, across and behind the ends of a table, into the gap,
\* and into the middle of Uptime, which takes two registers.  1, 40000 and
\* 65436 (-100) meet the ranges from inside and outside, and the last two
\* have a high byte that a one-byte parameter drops.
MCRequests ==
  Reads("input", {0, 1, 2, 3, 199, 200, 204, 205, 206}) \cup Reads("holding", 257 .. 261)
  \cup Writes(257 .. 261, 0 .. 2, {1, 40000, 65436}) \cup Writes({258}, {3}, {1, 40000, 65436})

\* The main loop and the shell set parameters the server reads.
MCOtherWrites == {<<Uptime, 65535>>, <<Uptime, 65536>>, <<MdbType, 2>>}
=============================================================================
