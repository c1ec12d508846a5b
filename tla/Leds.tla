-------------------------------- MODULE Leds --------------------------------
(***************************************************************************)
(* libraries/leds/leds.c: a mode and a status per LED, kept in masks, and  *)
(* a timer interrupt that blinks them and drives every line.               *)
(*                                                                         *)
(* Threads are preemptive and the interrupt takes the mutex of the thread  *)
(* it interrupts, as in Alarm, so a thread inside its critical section may *)
(* find another status after any of its steps: each mask is a step of its  *)
(* own, the load and the store of status_mask are two, and the lines are   *)
(* driven one by one from a copy of it.  Names start with Led so that the  *)
(* module can be extended beside others.                                   *)
(***************************************************************************)
EXTENDS Integers, Sequences, Functions

CONSTANTS
  LedThreads, LedCallsOf,     \* the callers, and the calls of each
  LedList,                    \* config_list: the ids in the order of the table
  LedActiveHigh,              \* the ids with .active_high
  SlowTicks, FastTicks,       \* LED_BLINK_SLOW_INTERVAL, _FAST_, in timer ticks
  HeartbeatTicks,             \* LED_HEARTBEAT_PHASE_1 .. _4, in timer ticks
  NoLedCall

VARIABLES
  ledMask,     \* on_mask, blink_slow_mask, blink_fast_mask, heartbeat_mask
  ledStatus,   \* status_mask
  ledHigh,     \* the LEDs whose line is high
  ledCount,    \* slow_counter, fast_counter, heartbeat_counter, in ticks
  ledPhase,    \* heartbeat_phase
  ledMutex,    \* its owner
  ledPc, ledCall, ledReg,  \* a thread: its place, call, and what it has loaded
  ledRow,      \* a thread: the rows update_led_outputs has driven
  ledAsked,    \* history: "lit", "dark" or "blink", as last asked for
  ledOvertaken \* history: LEDs set while led_get_status was reading them

ledMasks == <<ledMask, ledStatus, ledHigh>>
ledTimer == <<ledCount, ledPhase>>
ledThread == <<ledPc, ledCall, ledReg, ledRow>>
ledHistory == <<ledAsked, ledOvertaken>>
ledVars == <<ledMasks, ledTimer, ledMutex, ledThread, ledHistory>>

Leds == Range(LedList)
LedModes == {"on", "slow", "fast", "heart"}
LedBlinkModes == LedModes \ {"on"}
LedSteady == {"on", "off", "toggle"}  \* the actions that change status_mask
LedActions == LedSteady \cup LedBlinkModes \cup {"invalid"}

ASSUME LedAssumption ==
  /\ LedList \in Seq(0 .. 31) /\ Len(LedList) \in 1 .. 32 /\ IsInjective(LedList)
  /\ LedActiveHigh \subseteq Leds
  /\ SlowTicks \in Nat \ {0} /\ FastTicks \in Nat \ {0} /\ HeartbeatTicks \in [0 .. 3 -> Nat \ {0}]
  /\ NoLedCall \notin LedThreads
  /\ \A t \in LedThreads : NoLedCall \notin LedCallsOf[t]
  /\ \A t \in LedThreads : \A c \in LedCallsOf[t] :
       \/ c.op = "set" /\ c.mask \subseteq Leds /\ c.action \in LedActions
       \/ c.op = "get" /\ c.mask \in {{a} : a \in Leds}

-----------------------------------------------------------------------------
\* update_led_physical_state and its inverse in led_get_status.
LedLine(a, lit) == lit = (a \in LedActiveHigh)
LedShines(a) == LedLine(a, a \in ledHigh)

Flip(S, T) == (S \ T) \cup (T \ S)

\* The LEDs in any of three modes.
LedBlinking == UNION {ledMask[m] : m \in LedBlinkModes}

LedInside(t) == ledPc[t] \notin {"idle", "enter"}

\* The LEDs a call in its critical section changes, and those led_get_status
\* has read and not yet stored.
LedBeingSet == UNION {ledCall[t].mask : t \in {u \in LedThreads : ledMutex = u /\ ledCall[u].op = "set"}}
LedBeingRead == UNION {ledCall[t].mask : t \in {u \in LedThreads : LedInside(u) /\ ledCall[u].op = "get"}}

\* After led_init: every LED is dark and its line driven accordingly.
LedInit ==
  /\ ledMask = [m \in LedModes |-> {}] /\ ledStatus = {}
  /\ ledHigh = {a \in Leds : LedLine(a, FALSE)}
  /\ ledCount = [m \in LedBlinkModes |-> 0] /\ ledPhase = 0
  /\ ledMutex = NoLedCall
  /\ ledPc = [t \in LedThreads |-> "idle"] /\ ledCall = [t \in LedThreads |-> NoLedCall]
  /\ ledReg = [t \in LedThreads |-> {}] /\ ledRow = [t \in LedThreads |-> 0]
  /\ ledAsked = [a \in Leds |-> "dark"] /\ ledOvertaken = {}

LedGoto(t, label) == ledPc' = [ledPc EXCEPT ![t] = label]
LedLoad(t, mask) == ledReg' = [ledReg EXCEPT ![t] = mask]

\* The end of a call: its mutex is given back.
LedReturn(t) ==
  /\ LedGoto(t, "idle")
  /\ ledCall' = [ledCall EXCEPT ![t] = NoLedCall]
  /\ LedLoad(t, {}) /\ ledRow' = [ledRow EXCEPT ![t] = 0]
  /\ ledMutex' = NoLedCall

LedStart(t) ==
  /\ ledPc[t] = "idle"
  /\ \E c \in LedCallsOf[t] : ledCall' = [ledCall EXCEPT ![t] = c]
  /\ LedGoto(t, "enter")
  /\ UNCHANGED <<ledMasks, ledTimer, ledMutex, ledReg, ledRow, ledHistory>>

-----------------------------------------------------------------------------
(* led_set, led_set_mask.                                                  *)

\* Locked; a set of a LED that is being read may be undone by the reader.
LedEnter(t) ==
  LET c == ledCall[t]
      forgets == IF c.action = "toggle" THEN {} ELSE c.mask
  IN  /\ ledPc[t] = "enter" /\ c.op = "set" /\ c.action # "invalid" /\ ledMutex = NoLedCall
      /\ ledMutex' = t /\ LedGoto(t, "on")
      /\ ledOvertaken' = (ledOvertaken \ forgets) \cup (c.mask \cap LedBeingRead)
      /\ UNCHANGED <<ledMasks, ledTimer, ledCall, ledReg, ledRow, ledAsked>>

\* The default branch: -EINVAL.
LedRefuse(t) ==
  /\ ledPc[t] = "enter" /\ ledCall[t].op = "set" /\ ledCall[t].action = "invalid" /\ ledMutex = NoLedCall
  /\ LedReturn(t)
  /\ UNCHANGED <<ledMasks, ledTimer, ledHistory>>

\* Seeded fault: heartbeat_mask is left as it is by the actions before it.
LedAfterMaskShort(m, action) ==
  CASE m = "on" -> "slow" [] m = "slow" -> "fast"
    [] OTHER -> IF action \in LedSteady THEN "load" ELSE IF m = "fast" /\ action = "heart" THEN "heart" ELSE "latch"

\* What follows the assignment of one mask.
LedAfterMask(m, action) ==
  CASE m = "on" -> "slow" [] m = "slow" -> "fast" [] m = "fast" -> "heart"
    [] OTHER -> IF action \in LedSteady THEN "load" ELSE "latch"

\* One of the four masks of modes: set for its own action, else cleared.
LedSetMask(t, m) ==
  LET c == ledCall[t]
  IN  /\ ledPc[t] = m
      /\ ledMask' = [ledMask EXCEPT ![m] =
           IF c.action = m THEN @ \cup c.mask
           ELSE IF m = "on" /\ c.action = "toggle" THEN Flip(@, c.mask) ELSE @ \ c.mask]
      /\ ledAsked' = IF m = "on" /\ c.action \in LedBlinkModes
                       THEN [a \in Leds |-> IF a \in c.mask THEN "blink" ELSE ledAsked[a]] ELSE ledAsked
      /\ LedGoto(t, LedAfterMask(m, c.action))
      /\ UNCHANGED <<ledStatus, ledHigh, ledTimer, ledMutex, ledCall, ledReg, ledRow, ledOvertaken>>

LedLoadStatus(t) ==
  LET c == ledCall[t]
  IN  /\ ledPc[t] = "load"
      /\ LedLoad(t, ledStatus) /\ LedGoto(t, "store")
      /\ ledAsked' = [a \in Leds |->
           IF a \notin c.mask THEN ledAsked[a]
           ELSE IF \/ c.action = "on"
                   \/ c.action = "toggle" /\ ledAsked[a] = "dark"
                   \/ c.action = "toggle" /\ ledAsked[a] = "blink" /\ a \notin ledStatus
             THEN "lit" ELSE "dark"]
      /\ UNCHANGED <<ledMasks, ledTimer, ledMutex, ledCall, ledRow, ledOvertaken>>

LedStoreStatus(t) ==
  LET c == ledCall[t]
  IN  /\ ledPc[t] = "store"
      /\ ledStatus' = CASE c.action = "on" -> ledReg[t] \cup c.mask
                        [] c.action = "off" -> ledReg[t] \ c.mask
                        [] OTHER -> Flip(ledReg[t], c.mask)
      /\ LedGoto(t, "latch")
      /\ UNCHANGED <<ledMask, ledHigh, ledTimer, ledMutex, ledCall, ledReg, ledRow, ledHistory>>

\* update_led_outputs: active_leds.
LedLatch(t) ==
  /\ ledPc[t] = "latch"
  /\ LedLoad(t, ledStatus) /\ LedGoto(t, "drive")
  /\ UNCHANGED <<ledMasks, ledTimer, ledMutex, ledCall, ledRow, ledHistory>>

\* update_led_outputs: one row; the callback and the unlock after the last.
LedDrive(t) ==
  LET row == ledRow[t] + 1
      a == LedList[row]
  IN  /\ ledPc[t] = "drive"
      /\ ledHigh' = IF LedLine(a, a \in ledReg[t]) THEN ledHigh \cup {a} ELSE ledHigh \ {a}
      /\ IF row < Len(LedList)
           THEN ledRow' = [ledRow EXCEPT ![t] = row] /\ UNCHANGED <<ledMutex, ledPc, ledCall, ledReg>>
           ELSE LedReturn(t)
      /\ UNCHANGED <<ledMask, ledStatus, ledTimer, ledHistory>>

-----------------------------------------------------------------------------
(* led_get_status: the line is read before the mutex is taken, and the     *)
(* status is then made to agree with what was read.                        *)

\* gpio_pin_get_dt fails: nothing else is done.
LedReadFails(t) ==
  /\ ledPc[t] = "enter" /\ ledCall[t].op = "get"
  /\ LedGoto(t, "idle") /\ ledCall' = [ledCall EXCEPT ![t] = NoLedCall]
  /\ UNCHANGED <<ledMasks, ledTimer, ledMutex, ledReg, ledRow, ledHistory>>

LedReadLine(t) ==
  LET c == ledCall[t]
  IN  /\ ledPc[t] = "enter" /\ c.op = "get"
      /\ LedLoad(t, {a \in c.mask : LedShines(a)}) /\ LedGoto(t, "sync")
      /\ ledOvertaken' = ledOvertaken \cup (c.mask \cap LedBeingSet)
      /\ UNCHANGED <<ledMasks, ledTimer, ledMutex, ledCall, ledRow, ledAsked>>

\* Locked; status_mask is loaded: the register holds both.
LedSync(t) ==
  /\ ledPc[t] = "sync" /\ ledMutex = NoLedCall
  /\ ledMutex' = t /\ LedGoto(t, "syncStore")
  /\ LedLoad(t, (ledStatus \ ledCall[t].mask) \cup ledReg[t])
  /\ UNCHANGED <<ledMasks, ledTimer, ledCall, ledRow, ledHistory>>

LedSyncStore(t) ==
  /\ ledPc[t] = "syncStore"
  /\ ledStatus' = ledReg[t]
  /\ LedReturn(t)
  /\ UNCHANGED <<ledMask, ledHigh, ledTimer, ledHistory>>

-----------------------------------------------------------------------------
(* led_timer_handler.                                                      *)

\* One counter: it reaches its interval, or goes on.
Beats(m, interval) == ledCount[m] + 1 >= interval
NextCount(m, interval) == IF Beats(m, interval) THEN 0 ELSE ledCount[m] + 1

LedBeat == [m \in LedBlinkModes |->
  CASE m = "slow" -> SlowTicks [] m = "fast" -> FastTicks [] OTHER -> HeartbeatTicks[ledPhase]]

\* The LEDs of a mode whose counter has reached its interval.
LedBeating(m) == IF Beats(m, LedBeat[m]) THEN ledMask[m] ELSE {}

\* Seeded fault: blinking LEDs are lit and never darkened.
BlinkedOn == (ledStatus \cup LedBeating("slow")) \cup LedBeating("fast")

Blinked == Flip(Flip(ledStatus, LedBeating("slow")), LedBeating("fast"))

\* Counters first, then the status under the mutex, then every line.
LedTick ==
  LET phase == IF Beats("heart", HeartbeatTicks[ledPhase]) THEN (ledPhase + 1) % 4 ELSE ledPhase
      lit == IF phase \in {0, 2} THEN Blinked \ LedBeating("heart") ELSE Blinked \cup LedBeating("heart")
  IN  /\ ledCount' = [m \in LedBlinkModes |-> NextCount(m, LedBeat[m])]
      /\ ledPhase' = phase
      /\ ledStatus' = lit
      /\ ledHigh' = {a \in Leds : LedLine(a, a \in lit)}
      /\ UNCHANGED <<ledMask, ledMutex, ledThread, ledHistory>>

LedStep(t) ==
  \/ LedStart(t) \/ LedEnter(t) \/ LedRefuse(t)
  \/ \E m \in LedModes : LedSetMask(t, m)
  \/ LedLoadStatus(t) \/ LedStoreStatus(t) \/ LedLatch(t) \/ LedDrive(t)
  \/ LedReadFails(t) \/ LedReadLine(t) \/ LedSync(t) \/ LedSyncStore(t)

LedNext == LedTick \/ \E t \in LedThreads : LedStep(t)

LedSpec == LedInit /\ [][LedNext]_ledVars

-----------------------------------------------------------------------------
(* Properties.                                                             *)

LedLabels == {"idle", "enter", "load", "store", "latch", "drive", "sync", "syncStore"} \cup LedModes

LedTypeOK ==
  /\ ledMask \in [LedModes -> SUBSET Leds] /\ ledStatus \subseteq Leds /\ ledHigh \subseteq Leds
  /\ ledCount \in [LedBlinkModes -> Nat] /\ ledPhase \in 0 .. 3
  /\ ledMutex \in LedThreads \cup {NoLedCall}
  /\ ledPc \in [LedThreads -> LedLabels] /\ DOMAIN ledCall = LedThreads
  /\ \A t \in LedThreads :
       /\ ledCall[t] \in LedCallsOf[t] \cup {NoLedCall} /\ (ledCall[t] = NoLedCall <=> ledPc[t] = "idle")
       /\ ledMutex = t <=> ledPc[t] \notin {"idle", "enter", "sync"}
  /\ ledReg \in [LedThreads -> SUBSET Leds] /\ ledRow \in [LedThreads -> 0 .. Len(LedList) - 1]
  /\ ledAsked \in [Leds -> {"lit", "dark", "blink"}] /\ ledOvertaken \subseteq Leds

\* A LED is in the mode last asked for, in no other blink mode, and one that
\* does not blink is lit, in the mask and on its line, exactly when that was
\* asked for: neither the timer, whenever it interrupts a set, nor a set or a
\* status query of another LED changes it.  Left out: a LED set while
\* led_get_status was reading it (leds.c:80-156, :213-340).
LedsShowWhatWasAsked ==
  \A a \in Leds \ LedBeingSet :
    /\ ledAsked[a] = "blink" <=> a \in LedBlinking
    /\ \A m, n \in LedModes : a \in ledMask[m] \cap ledMask[n] /\ m \in LedBlinkModes => m = n
    /\ a \notin LedBlinking \cup ledOvertaken
         => (a \in ledStatus <=> ledAsked[a] = "lit") /\ (LedShines(a) <=> ledAsked[a] = "lit")

\* What makes this inductive.  A set shows what was asked for step by step:
\* until it has assigned the masks, stored the status and driven the row, a
\* LED of its own is changing, unstored, undriven; of the others, and once
\* that is done, what it has loaded stays true whenever the timer runs.
LedSetter(t) == ledMutex = t /\ ledCall[t].op = "set"

LedDriven(t) == {LedList[i] : i \in 1 .. ledRow[t]}
LedPassed(label) ==
  CASE label = "slow" -> {} [] label = "fast" -> {"slow"} [] label = "heart" -> {"slow", "fast"}
    [] OTHER -> LedBlinkModes

LedChanging(t, a) ==
  LedSetter(t) /\ a \in ledCall[t].mask /\ ledPc[t] \in LedBlinkModes \cup {"load"}
LedUnstored(t, a) ==
  LedSetter(t) /\ a \in ledCall[t].mask /\ ledPc[t] \in LedModes \cup {"load", "store"}
LedUndriven(t, a) ==
  /\ LedSetter(t) /\ a \in ledCall[t].mask
  /\ ledPc[t] = "drive" => a \notin LedDriven(t)

LedInMode(a) ==
  /\ ledAsked[a] = "blink" <=> a \in LedBlinking
  /\ \A m, n \in LedModes : a \in ledMask[m] \cap ledMask[n] /\ m \in LedBlinkModes => m = n

LedAgrees(S, a) == a \notin LedBlinking \cup ledOvertaken => (a \in S <=> ledAsked[a] = "lit")

\* What a set knows of a LED whose masks, or whose status, it is changing.
LedChangingWell(t, a) ==
  /\ \A m \in LedPassed(ledPc[t]) : a \in ledMask[m] <=> ledCall[t].action = m
  /\ IF ledCall[t].action \in LedBlinkModes
       THEN ledAsked[a] = "blink" /\ a \notin ledMask["on"]
       ELSE a \in LedBlinking => ledAsked[a] = "blink"

LedUnstoredWell(t, a) ==
  IF ledPc[t] = "store"
    THEN a \notin ledOvertaken =>
           (ledAsked[a] = "lit" <=>
              \/ ledCall[t].action = "on"
              \/ ledCall[t].action = "toggle" /\ a \notin ledReg[t])
    ELSE ledCall[t].action = "toggle" /\ ledAsked[a] # "blink" => LedAgrees(ledStatus, a)

LedLabelsInv == \A t \in LedThreads :
  /\ ledPc[t] \in LedModes \cup {"load", "store", "latch", "drive"} =>
       ledCall[t].op = "set" /\ ledCall[t].action # "invalid"
  /\ ledPc[t] \in {"load", "store"} => ledCall[t].action \in LedSteady
  /\ ledPc[t] \in {"sync", "syncStore"} => ledCall[t].op = "get"
  /\ ledPc[t] = "sync" => ledReg[t] \subseteq ledCall[t].mask
  /\ ledPc[t] # "drive" => ledRow[t] = 0

LedMasksInv == \A a \in Leds :
  /\ (\A t \in LedThreads : ~LedChanging(t, a)) => LedInMode(a)
  /\ \A t \in LedThreads : LedChanging(t, a) => LedChangingWell(t, a)

LedStatusInv == \A a \in Leds :
  /\ (\A t \in LedThreads : ~LedUnstored(t, a)) => LedAgrees(ledStatus, a)
  /\ \A t \in LedThreads : LedUnstored(t, a) => LedUnstoredWell(t, a)

LedLoadedInv == \A t \in LedThreads : \A a \in Leds :
  /\ ledPc[t] = "store" /\ a \notin ledCall[t].mask => LedAgrees(ledReg[t], a)
  /\ ledPc[t] \in {"drive", "syncStore"} => LedAgrees(ledReg[t], a)

LedReadInv == \A t \in LedThreads : \A a \in Leds :
  ledPc[t] = "sync" /\ a \in ledCall[t].mask =>
    LedAgrees(ledReg[t], a) /\ (a \in LedBeingSet => a \in ledOvertaken)

LedLinesInv == \A a \in Leds :
  (\A t \in LedThreads : ~LedUndriven(t, a)) => LedAgrees({b \in Leds : LedShines(b)}, a)

LedIInv ==
  /\ LedTypeOK /\ LedLabelsInv
  /\ LedMasksInv /\ LedStatusInv /\ LedLoadedInv /\ LedReadInv /\ LedLinesInv

\* Once nobody calls, a LED in a blink mode is lit and dark again and again.
BlinkingLedsBlink ==
  \A a \in Leds :
    <>[](a \in LedBlinking /\ \A t \in LedThreads : ledPc[t] = "idle")
      => []<>LedShines(a) /\ []<>~LedShines(a)
=============================================================================
