---------------------------- MODULE MCLibraries -----------------------------
(***************************************************************************)
(* The libraries that share no state: the Modbus slave, blinking LEDs, the *)
(* ringtone player, the ISO-TP queue, the two formatters and the calendar, *)
(* in one run.  Each behaviour is one of one library, chosen at the start: *)
(* the others stay as they were initialised.                               *)
(***************************************************************************)
EXTENDS MCModbusSlave, Leds, Ringtone, IsotpConn, NumberFormat, MaskFormat, RtcLib, TLC

CONSTANTS ta, tb, tc, m1, m2, m3, long

VARIABLE library

libraryVars == <<library, vars, ledVars, toneVars, connVars, numVars, maskVars, rtcVars>>

-----------------------------------------------------------------------------
\* Two LEDs, one active low, in rows other than their ids; two callers change
\* the mode of the same LED and of others, and query it.
SetLeds(ids, action) == [op |-> "set", mask |-> ids, action |-> action]
MCLedCalls ==
  ta :> {SetLeds({0}, "toggle"), SetLeds({0, 1}, "slow")}
  @@ tb :> {[op |-> "get", mask |-> {0}], SetLeds({0}, "off"), SetLeds({1}, "heart"), SetLeds({1}, "invalid")}
MCLedList == <<1, 0>>
MCHeartbeat == [phase \in 0 .. 3 |-> 1]

\* A note across the wrap of the uptime and a pause; a character to skip and a
\* note; and a note behind which digits end the text.  One caller plays and
\* waits, one stops or swaps tones.
Item(kind, time) == [kind |-> kind, time |-> time]
Tune == <<Item("note", 3), Item("pause", 1)>>
Beep == <<Item("skip", 0), Item("note", 2)>>
Numbered == <<Item("note", 1), Item("digits", 0)>>
MCToneTexts == {Tune, Beep, Numbered}
MCToneCalls ==
  ta :> {[op |-> "play"], [op |-> "wait"]} @@ tb :> {[op |-> "stop"], [op |-> "custom", text |-> Beep]}

\* Two buffers; one caller adds, one sends, one binds and receives.
Message(op, m) == [op |-> op, msg |-> m]
MCConnCalls ==
  ta :> {Message("add", m1), Message("add", m2)}
  @@ tb :> {[op |-> "process_send"], Message("transmit", m3)}
  @@ tc :> {[op |-> "bind"], [op |-> "unbind"], [op |-> "receive"], Message("transmit", long)}

\* Integer fields, and decimal ones with a free point, a fixed one, and a
\* precision that leaves no room for it.
Field(decimal, zeros, negative, precision) ==
  [decimal |-> decimal, zeros |-> zeros, negative |-> negative, total |-> 4, precision |-> precision]
MCNumFormats ==
  {Field(decimal, zeros, TRUE, 0) : decimal, zeros \in BOOLEAN} \cup {Field(FALSE, TRUE, FALSE, 0)}
  \cup {Field(TRUE, zeros, TRUE, p) : zeros \in BOOLEAN, p \in {1, 2, 4}}

\* The shorter masks of the table, and the beginning of a longer one.
MCMasks ==
  {<<"D", "D", ":", "D", "D">>, <<"D", "D", ":", "D", "D", ":", "D", "D">>,
   <<"0", "x", "E", "E", "E", "E", "E", "E", "E", "E">>, <<"E", "E", ":", "E", "E", ":", "E">>}
MCMaskValues == {<<"1", "0", "1">>, <<"A">>, <<"1", "1", "A", "1">>, <<"A", "1">>}

\* Leap years, the turn of the century that has none, and the years that the
\* timestamps of 1970 and 1972 set, up to their 28 February.
Date(year, mon, mday, secs) == [year |-> year, mon |-> mon, mday |-> mday, secs |-> secs]
MCRtcDates == {Date(2021, 1, 1, 0), Date(2096, 2, 28, 86399), Date(2020, 2, 1, 1)}
MCRtcYears == (2021 .. 2028) \cup (2096 .. 2105) \cup {3970, 3972}

-----------------------------------------------------------------------------
\* A library that takes no step has one initial state.
Fixed(name, value, values) == library # name => value = CHOOSE v \in values : TRUE

LibrariesInit ==
  /\ library \in {"modbus_slave", "leds", "ringtone", "isotp_conn", "string_format", "mask_format", "rtc_lib"}
  /\ Init /\ LedInit /\ ToneInit /\ ConnInit /\ NumInit /\ MaskInit /\ RtcInit
  /\ Fixed("ringtone", toneText, ToneTexts)
  /\ Fixed("string_format", numFormat, NumFormats)
  /\ Fixed("mask_format", maskMask, MaskMasks)

LedsTick == library = "leds" /\ LedTick
RingtoneTick == library = "ringtone" /\ ToneTick
ModbusServer == library = "modbus_slave" /\ Server
RingtoneSignal == library = "ringtone" /\ \E t \in ToneThreads : ToneSignal(t)

LibrariesNext ==
  /\ UNCHANGED library
  /\ \/ /\ library = "modbus_slave" /\ Next
        /\ UNCHANGED <<ledVars, toneVars, connVars, numVars, maskVars, rtcVars>>
     \/ library = "leds" /\ LedNext /\ UNCHANGED <<vars, toneVars, connVars, numVars, maskVars, rtcVars>>
     \/ library = "ringtone" /\ ToneNext /\ UNCHANGED <<vars, ledVars, connVars, numVars, maskVars, rtcVars>>
     \/ library = "isotp_conn" /\ ConnNext /\ UNCHANGED <<vars, ledVars, toneVars, numVars, maskVars, rtcVars>>
     \/ library = "string_format" /\ NumNext /\ UNCHANGED <<vars, ledVars, toneVars, connVars, maskVars, rtcVars>>
     \/ library = "mask_format" /\ MaskNext /\ UNCHANGED <<vars, ledVars, toneVars, connVars, numVars, rtcVars>>
     \/ library = "rtc_lib" /\ RtcNext /\ UNCHANGED <<vars, ledVars, toneVars, connVars, numVars, maskVars>>

\* The work queue runs the server, running timers fire, and a ringtone that
\* was stopped is signalled as such.
LibrariesSpec ==
  /\ LibrariesInit /\ [][LibrariesNext]_libraryVars
  /\ WF_vars(ModbusServer) /\ WF_ledVars(LedsTick) /\ WF_toneVars(RingtoneTick) /\ WF_toneVars(RingtoneSignal)
=============================================================================
