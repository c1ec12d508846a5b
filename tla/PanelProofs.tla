---------------------------- MODULE PanelProofs -----------------------------
(***************************************************************************)
(* The LEDs and the buzzer of the panel: the theorems of Leds and of       *)
(* Ringtone, for every table of LEDs, every text, every set of threads and *)
(* every choice of their calls.                                            *)
(***************************************************************************)
EXTENDS Leds, Ringtone, TLAPS

-----------------------------------------------------------------------------
(* The player: the device follows it.                                      *)

\* Who has the mutex of the player.
ToneHolding == {"playing", "prime", "stopping"}

ToneOwned ==
  /\ tonePc \in [ToneThreads -> ToneLabels]
  /\ \A t \in ToneThreads : toneMutex = t <=> tonePc[t] \in ToneHolding
  /\ toneMutex \in ToneThreads \cup {NoToneCall}

ToneTyped ==
  /\ tonePlaying \in BOOLEAN /\ toneTimer \in BOOLEAN /\ toneSound \in BOOLEAN
  /\ toneCut \in BOOLEAN /\ toneSwapped \in BOOLEAN
  /\ toneIndex \in Nat \ {0}
  /\ toneText \in ToneTexts

\* A call that is about to start a tone finds it as it left it.
ToneReady == \A t \in ToneThreads : tonePc[t] = "playing" => ~tonePlaying /\ toneIndex = 1

\* The calls of the threads; only a custom tone brings a text.
ToneCalled ==
  /\ toneCall = [t \in ToneThreads |-> toneCall[t]]
  /\ \A t \in ToneThreads :
       /\ tonePc[t] # "idle" => toneCall[t] \in ToneCallsOf[t]
       /\ tonePc[t] \in {"ask", "text"} => toneCall[t].op = "custom"

ToneIInv == ToneOwned /\ ToneTyped /\ ToneCalled /\ ToneReady /\ DeviceFollowsPlayer

-----------------------------------------------------------------------------
LEMMA ToneLengths == ASSUME NEW x \in ToneTexts PROVE Len(x) \in Nat
BY ToneAssumption

\* A text that does not end in bare digits has none.
LEMMA ToneDigitsLast ==
  ASSUME NEW x \in ToneTexts, ~ToneEndsBare(x), Len(x) \in Nat, NEW i \in 1 .. Len(x), DOMAIN x = 1 .. Len(x)
  PROVE  x[i].kind # "digits"
<1>1. \A y \in ToneTexts : \A j \in DOMAIN y : y[j].kind = "digits" => j = Len(y) BY ToneAssumption, Zenon
<1>2. ASSUME x[i].kind = "digits" PROVE FALSE
  <2>1. i = Len(x) BY <1>1, <1>2, Zenon
  <2>2. Len(x) > 0 BY <2>1
  <2> QED BY <1>2, <2>1, <2>2, Zenon DEF ToneEndsBare
<1> QED BY <1>2

LEMMA ToneInitInv == ToneInit => ToneIInv
<1> SUFFICES ASSUME ToneInit PROVE ToneIInv OBVIOUS
<1>1. ToneOwned BY ToneAssumption DEF ToneInit, ToneOwned, ToneLabels, ToneHolding
<1>2. ToneTyped
  <2>1. tonePlaying = FALSE /\ toneTimer = FALSE /\ toneSound = FALSE /\ toneCut = FALSE /\ toneSwapped = FALSE
    BY DEF ToneInit
  <2>2. toneIndex = 1 /\ toneText \in ToneTexts BY DEF ToneInit
  <2>3. toneIndex \in Nat \ {0} BY <2>2
  <2> QED BY <2>1, <2>2, <2>3, Zenon DEF ToneTyped
<1>3. ToneReady BY DEF ToneInit, ToneReady
<1>4. DeviceFollowsPlayer BY DEF ToneInit, DeviceFollowsPlayer
<1>5. ToneCalled BY DEF ToneInit, ToneCalled
<1> QED BY <1>1, <1>2, <1>3, <1>4, <1>5 DEF ToneIInv


\* A step after which every thread is idle, where it was, or further on in the
\* same call, and asks for another text in a custom tone only.
LEMMA ToneCallGoesOn ==
  ASSUME ToneIInv, toneCall' = [t \in ToneThreads |-> toneCall'[t]],
         \A u \in ToneThreads :
           \/ tonePc'[u] = "idle"
           \/ toneCall'[u] = toneCall[u] /\ tonePc'[u] = tonePc[u]
           \/ /\ toneCall'[u] = toneCall[u] /\ tonePc[u] # "idle" /\ tonePc'[u] # "ask"
              /\ tonePc'[u] = "text" => toneCall[u].op = "custom"
  PROVE  ToneCalled'
BY DEF ToneIInv, ToneCalled

\* A give wakes waiting threads, and leaves the others where they are.
LEMMA ToneGiveWakes ==
  ASSUME tonePc \in [ToneThreads -> ToneLabels], NEW times, ToneGive(times)
  PROVE  /\ \A u \in ToneThreads : tonePc'[u] = tonePc[u] \/ (tonePc[u] = "waiting" /\ tonePc'[u] = "woken")
         /\ tonePc' \in [ToneThreads -> ToneLabels]
<1>1. PICK W \in SUBSET ToneWaiters : tonePc' = [t \in ToneThreads |-> IF t \in W THEN "woken" ELSE tonePc[t]]
  BY DEF ToneGive
<1>2. "woken" \in ToneLabels BY DEF ToneLabels
<1> QED BY <1>1, <1>2 DEF ToneWaiters

\* A tick leaves the threads where they are, or gives the semaphore.
LEMMA ToneTickGives == ASSUME ToneTick PROVE UNCHANGED tonePc \/ \E times \in Nat : ToneGive(times)
<1>1. PICK now : ToneIdleTick(now) \/ ToneLastTick(now) \/ ToneNextTick(now) BY DEF ToneTick
<1>2. CASE ToneIdleTick(now) BY <1>2 DEF ToneIdleTick, ToneEnds, ToneGoesOnAt
<1>3. CASE ToneLastTick(now) BY <1>3 DEF ToneLastTick, ToneEnds
<1>4. CASE ToneNextTick(now) BY <1>4 DEF ToneNextTick, ToneEnds, ToneGoesOnAt
<1> QED BY <1>1, <1>2, <1>3, <1>4

LEMMA ToneCalledStays ==
  ASSUME ToneIInv, [ToneNext]_toneVars PROVE ToneCalled'
<1> USE DEF ToneIInv, ToneOwned, tonePlayer, toneDevice, toneHistory
<1>0. toneCall = [t \in ToneThreads |-> toneCall[t]] BY DEF ToneCalled
<1>1. CASE UNCHANGED toneVars BY <1>1, <1>0, ToneCallGoesOn DEF toneVars
<1>2. ASSUME NEW t \in ToneThreads, ToneStart(t) PROVE ToneCalled'
  <2>1. PICK c \in ToneCallsOf[t] :
          /\ toneCall' = [toneCall EXCEPT ![t] = c]
          /\ tonePc' = [tonePc EXCEPT ![t] = IF c.op = "custom" THEN "ask" ELSE c.op]
    BY <1>2 DEF ToneStart, ToneGoto
  <2>2. c.op \in {"play", "stop", "wait", "custom"} BY ToneAssumption
  <2>3. toneCall' = [u \in ToneThreads |-> toneCall'[u]] BY <2>1, <1>0
  <2>4. \A u \in ToneThreads : toneCall'[u] = IF u = t THEN c ELSE toneCall[u] BY <2>1, <1>0
  <2>5. \A u \in ToneThreads : tonePc'[u] = IF u = t THEN (IF c.op = "custom" THEN "ask" ELSE c.op) ELSE tonePc[u]
    BY <2>1
  <2> QED BY <2>2, <2>3, <2>4, <2>5 DEF ToneCalled
<1>3. ASSUME NEW t \in ToneThreads, tonePc[t] # "idle", ToneReturn(t) PROVE ToneCalled'
  BY <1>3, <1>0, ToneCallGoesOn DEF ToneReturn, ToneGoto
<1>4. ASSUME NEW t \in ToneThreads, NEW l, l \notin {"ask", "text"}, tonePc[t] # "idle",
             ToneGoto(t, l), UNCHANGED toneCall
      PROVE  ToneCalled'
  BY <1>4, <1>0, ToneCallGoesOn DEF ToneGoto
<1>5. ASSUME NEW t \in ToneThreads, tonePc[t] # "idle", ToneStopped(t) PROVE ToneCalled'
  <2>1. CASE toneCall[t].op = "custom"
    <3>1. ToneGoto(t, "text") /\ UNCHANGED toneCall BY <1>5, <2>1 DEF ToneStopped
    <3> QED BY <1>5, <3>1, <2>1, <1>0, ToneCallGoesOn DEF ToneGoto
  <2>2. CASE toneCall[t].op # "custom" BY <1>5, <2>2, <1>3 DEF ToneStopped
  <2> QED BY <2>1, <2>2
<1>6. ASSUME NEW t \in ToneThreads, ToneAsk(t) PROVE ToneCalled'
  <2>1. tonePc[t] = "ask" /\ toneCall[t].op = "custom" /\ UNCHANGED toneCall BY <1>6 DEF ToneAsk, ToneCalled
  <2>2. PICK l \in {"stop", "text"} : tonePc' = [tonePc EXCEPT ![t] = l] BY <1>6 DEF ToneAsk, ToneGoto
  <2> QED BY <2>1, <2>2, <1>0, ToneCallGoesOn
<1>7. ASSUME NEW t \in ToneThreads,
             \/ ToneSetText(t) \/ TonePlay(t) \/ TonePlaying(t) \/ TonePrime(t)
             \/ ToneStop(t) \/ ToneStopping(t) \/ ToneSilence(t) \/ ToneHalt(t)
      PROVE  ToneCalled'
  <2>1. PICK l \in {"play", "playing", "prime", "reset", "stopping", "silence", "halt", "signal"} : ToneGoto(t, l)
    BY <1>7 DEF ToneSetText, TonePlay, TonePlaying, TonePrime, ToneStop, ToneStopping, ToneSilence, ToneHalt
  <2>2. tonePc[t] # "idle" /\ UNCHANGED toneCall
    BY <1>7 DEF ToneSetText, TonePlay, TonePlaying, TonePrime, ToneStop, ToneStopping, ToneSilence, ToneHalt
  <2> QED BY <2>1, <2>2, <1>4
<1>8. ASSUME NEW t \in ToneThreads, ToneReset(t) PROVE ToneCalled'
  BY <1>8, <1>0, ToneCallGoesOn DEF ToneReset
<1>9. ASSUME NEW t \in ToneThreads,
             ToneAlreadyPlays(t) \/ ToneTimerStart(t) \/ ToneWoken(t)
      PROVE  ToneCalled'
  BY <1>9, <1>3 DEF ToneAlreadyPlays, ToneTimerStart, ToneWoken
<1>10. ASSUME NEW t \in ToneThreads, ToneWait(t) PROVE ToneCalled'
  <2>1. tonePc[t] = "wait" BY <1>10 DEF ToneWait
  <2>2. ToneReturn(t) \/ (ToneGoto(t, "waiting") /\ UNCHANGED toneCall) BY <1>10 DEF ToneWait
  <2> QED BY <2>1, <2>2, <1>3, <1>4
<1>11. ASSUME NEW t \in ToneThreads, ToneNothingToStop(t) PROVE ToneCalled'
  BY <1>11, <1>5 DEF ToneNothingToStop
<1>12. ASSUME NEW t \in ToneThreads, ToneSignal(t) PROVE ToneCalled'
  <2>1. tonePc[t] = "signal" BY <1>12 DEF ToneSignal
  <2>2. CASE ToneWaiters = {} BY <1>12, <2>1, <2>2, <1>5 DEF ToneSignal
  <2>3. CASE ToneWaiters # {}
    <3>1. PICK w \in ToneWaiters :
            /\ tonePc' = [tonePc EXCEPT ![w] = "woken", ![t] = IF toneCall[t].op = "custom" THEN "text" ELSE "idle"]
            /\ toneCall' = IF toneCall[t].op = "custom" THEN toneCall ELSE [toneCall EXCEPT ![t] = NoToneCall]
      BY <1>12, <2>3 DEF ToneSignal
    <3>2. w \in ToneThreads /\ tonePc[w] = "waiting" BY DEF ToneWaiters
    <3>3. toneCall' = [u \in ToneThreads |-> toneCall'[u]] BY <3>1, <1>0
    <3>4. \A u \in ToneThreads : toneCall'[u] = toneCall[u] \/ (u = t /\ toneCall[t].op # "custom") BY <3>1, <1>0
    <3>5. \A u \in ToneThreads :
            tonePc'[u] = IF u = t THEN (IF toneCall[t].op = "custom" THEN "text" ELSE "idle")
                         ELSE IF u = w THEN "woken" ELSE tonePc[u]
      BY <3>1, <3>2
    <3> QED BY <2>1, <3>2, <3>3, <3>4, <3>5, ToneCallGoesOn
  <2> QED BY <2>2, <2>3
<1>13. CASE ToneTick
  <2>1. UNCHANGED toneCall BY <1>13 DEF ToneTick
  <2>2. UNCHANGED tonePc \/ \E times \in Nat : ToneGive(times) BY <1>13, ToneTickGives
  <2>3. \A u \in ToneThreads : tonePc'[u] = tonePc[u] \/ (tonePc[u] = "waiting" /\ tonePc'[u] = "woken")
    BY <2>2, ToneGiveWakes
  <2> QED BY <2>1, <2>3, <1>0, ToneCallGoesOn
<1> QED BY <1>1, <1>2, <1>6, <1>7, <1>8, <1>9, <1>10, <1>11, <1>12, <1>13 DEF ToneNext, ToneStep

-----------------------------------------------------------------------------
\* The labels at which a thread says something of the player.
ToneMarks == ToneHolding \cup {"reset", "start", "silence"}

\* A step of threads that leaves the player, the device and the mutex alone
\* and comes from and goes to labels that say nothing.
LEMMA ToneAside ==
  ASSUME ToneIInv, ToneCalled', UNCHANGED <<toneText, tonePlayer, toneTimer, toneSound, toneMutex, toneHistory>>,
         tonePc' \in [ToneThreads -> ToneLabels],
         \A u \in ToneThreads : tonePc'[u] = tonePc[u] \/ {tonePc[u], tonePc'[u]} \cap ToneMarks = {}
  PROVE  ToneIInv'
<1> USE DEF tonePlayer, toneHistory, ToneIInv
<1>1. ToneOwned' BY DEF ToneOwned, ToneMarks, ToneHolding
<1>2. ToneTyped' BY DEF ToneTyped
<1>3. ToneReady' BY DEF ToneReady, ToneMarks, ToneHolding
<1>4. DeviceFollowsPlayer' BY DEF DeviceFollowsPlayer, ToneMarks, ToneHolding
<1> QED BY <1>1, <1>2, <1>3, <1>4

\* The steps of the calls around the player.
LEMMA ToneAsideSteps ==
  ASSUME ToneIInv, ToneCalled', NEW t \in ToneThreads,
         \/ ToneStart(t) \/ ToneAsk(t) \/ ToneAlreadyPlays(t) \/ ToneNothingToStop(t)
         \/ ToneSignal(t) \/ ToneWait(t) \/ ToneWoken(t)
  PROVE  ToneIInv'
<1> USE DEF tonePlayer, toneDevice, toneHistory
<1>0. tonePc \in [ToneThreads -> ToneLabels] BY DEF ToneIInv, ToneOwned
<1>1. CASE ToneStart(t)
  <2>1. PICK c \in ToneCallsOf[t] : tonePc' = [tonePc EXCEPT ![t] = IF c.op = "custom" THEN "ask" ELSE c.op]
    BY <1>1 DEF ToneStart, ToneGoto
  <2>2. c.op \in {"play", "stop", "wait", "custom"} BY ToneAssumption
  <2>3. tonePc[t] = "idle" /\ UNCHANGED <<toneText, tonePlayer, toneTimer, toneSound, toneMutex, toneHistory>>
    BY <1>1 DEF ToneStart
  <2>4. PICK l \in {"ask", "play", "stop", "wait"} : tonePc' = [tonePc EXCEPT ![t] = l] BY <2>1, <2>2
  <2> QED BY <1>0, <2>3, <2>4, ToneAside DEF ToneLabels, ToneMarks, ToneHolding
<1>2. CASE ToneAsk(t) \/ ToneAlreadyPlays(t) \/ ToneNothingToStop(t) \/ ToneWoken(t) \/ ToneWait(t)
  <2>1. PICK l \in {"stop", "text", "idle", "waiting"} : tonePc' = [tonePc EXCEPT ![t] = l]
    BY <1>2 DEF ToneAsk, ToneAlreadyPlays, ToneNothingToStop, ToneStopped, ToneWoken, ToneWait, ToneReturn, ToneGoto
  <2>2. /\ tonePc[t] \in {"ask", "play", "stop", "woken", "wait"}
        /\ UNCHANGED <<toneText, tonePlayer, toneTimer, toneSound, toneMutex, toneHistory>>
    BY <1>2 DEF ToneAsk, ToneAlreadyPlays, ToneNothingToStop, ToneWoken, ToneWait
  <2> QED BY <1>0, <2>1, <2>2, ToneAside DEF ToneLabels, ToneMarks, ToneHolding
<1>3. CASE ToneSignal(t)
  <2>1. tonePc[t] = "signal" /\ UNCHANGED <<toneText, tonePlayer, toneTimer, toneSound, toneMutex, toneHistory>>
    BY <1>3 DEF ToneSignal
  <2>2. CASE ToneWaiters = {}
    <3>1. PICK l \in {"text", "idle"} : tonePc' = [tonePc EXCEPT ![t] = l]
      BY <1>3, <2>2 DEF ToneSignal, ToneStopped, ToneReturn, ToneGoto
    <3> QED BY <1>0, <2>1, <3>1, ToneAside DEF ToneLabels, ToneMarks, ToneHolding
  <2>3. CASE ToneWaiters # {}
    <3>1. PICK w \in ToneWaiters :
            tonePc' = [tonePc EXCEPT ![w] = "woken", ![t] = IF toneCall[t].op = "custom" THEN "text" ELSE "idle"]
      BY <1>3, <2>3 DEF ToneSignal
    <3>2. PICK l \in {"text", "idle"} : tonePc' = [tonePc EXCEPT ![w] = "woken", ![t] = l] BY <3>1
    <3>3. w \in ToneThreads /\ tonePc[w] = "waiting" BY DEF ToneWaiters
    <3> QED BY <1>0, <2>1, <3>2, <3>3, ToneAside DEF ToneLabels, ToneMarks, ToneHolding
  <2> QED BY <2>2, <2>3
<1> QED BY <1>1, <1>2, <1>3

LEMMA ToneSetTextInv == ASSUME ToneIInv, ToneCalled', NEW t \in ToneThreads, ToneSetText(t) PROVE ToneIInv'
<1> USE DEF ToneIInv, ToneSetText, ToneGoto, tonePlayer, toneDevice
<1>1. toneText' \in ToneTexts BY ToneAssumption DEF ToneCalled
<1>2. toneSwapped' = (toneSwapped \/ (tonePlaying /\ toneText' # toneText)) OBVIOUS
<1>3. ToneOwned' BY DEF ToneOwned, ToneHolding, ToneLabels
<1>4. ToneTyped' BY <1>1, <1>2 DEF ToneTyped
<1>5. ToneReady' BY DEF ToneReady, ToneOwned
<1>6. DeviceFollowsPlayer' BY <1>2 DEF DeviceFollowsPlayer, ToneTyped, ToneOwned
<1> QED BY <1>3, <1>4, <1>5, <1>6

\* ringtones_play: the player is reset, and only then plays.
LEMMA TonePlayInv == ASSUME ToneIInv, ToneCalled', NEW t \in ToneThreads, TonePlay(t) PROVE ToneIInv'
<1> USE DEF ToneIInv, TonePlay, ToneGoto, tonePlayer, toneDevice, toneHistory
<1>1. ToneOwned' BY ToneAssumption DEF ToneOwned, ToneHolding, ToneLabels
<1>2. ToneTyped' BY DEF ToneTyped
<1>3. ToneReady' BY ToneAssumption DEF ToneReady, ToneOwned, ToneHolding
<1>4. DeviceFollowsPlayer' BY DEF DeviceFollowsPlayer, ToneOwned
<1> QED BY <1>1, <1>2, <1>3, <1>4

LEMMA TonePlayingInv == ASSUME ToneIInv, ToneCalled', NEW t \in ToneThreads, TonePlaying(t) PROVE ToneIInv'
<1> USE DEF ToneIInv, TonePlaying, ToneGoto, tonePlayer, toneDevice
<1>1. ToneOwned' BY DEF ToneOwned, ToneHolding, ToneLabels
<1>2. ToneTyped' BY DEF ToneTyped
<1>3. ToneReady' BY DEF ToneReady, ToneOwned, ToneHolding
<1>4. toneIndex' = 1 BY DEF ToneReady
<1>5. Len(toneText') \in Nat BY ToneLengths DEF ToneTyped
<1>6. DeviceFollowsPlayer' BY <1>4, <1>5 DEF DeviceFollowsPlayer, ToneOwned
<1> QED BY <1>1, <1>2, <1>3, <1>6

\* The steps between the start of a tone and that of its timer.
LEMMA ToneStartingInv ==
  ASSUME ToneIInv, ToneCalled', NEW t \in ToneThreads, TonePrime(t) \/ ToneReset(t) \/ ToneTimerStart(t)
  PROVE  ToneIInv'
<1> USE DEF ToneIInv, tonePlayer, toneDevice, toneHistory
<1>1. CASE TonePrime(t)
  <2> USE <1>1 DEF TonePrime, ToneGoto
  <2>1. ToneOwned' BY ToneAssumption DEF ToneOwned, ToneHolding, ToneLabels
  <2>2. ToneTyped' BY DEF ToneTyped
  <2>3. ToneReady' BY DEF ToneReady, ToneOwned, ToneHolding
  <2>4. DeviceFollowsPlayer' BY DEF DeviceFollowsPlayer, ToneOwned
  <2> QED BY <2>1, <2>2, <2>3, <2>4
<1>2. CASE ToneReset(t)
  <2> USE <1>2 DEF ToneReset
  <2>1. \A u \in ToneThreads : tonePc'[u] = IF u = t THEN "start" ELSE IF tonePc[u] = "waiting" THEN "woken" ELSE tonePc[u]
    OBVIOUS
  <2>2. ToneOwned' BY <2>1 DEF ToneOwned, ToneHolding, ToneLabels
  <2>3. ToneTyped' BY DEF ToneTyped
  <2>4. ToneReady' BY <2>1 DEF ToneReady
  <2>5. DeviceFollowsPlayer' BY <2>1 DEF DeviceFollowsPlayer, ToneOwned
  <2> QED BY <2>2, <2>3, <2>4, <2>5
<1>3. CASE ToneTimerStart(t)
  <2> USE <1>3 DEF ToneTimerStart, ToneReturn, ToneGoto
  <2>1. ToneOwned' BY DEF ToneOwned, ToneHolding, ToneLabels
  <2>2. ToneTyped' BY DEF ToneTyped
  <2>3. ToneReady' BY DEF ToneReady, ToneOwned
  <2>4. DeviceFollowsPlayer' BY DEF DeviceFollowsPlayer, ToneOwned
  <2> QED BY <2>1, <2>2, <2>3, <2>4
<1> QED BY <1>1, <1>2, <1>3

\* ringtones_stop: the player stops before the sound, the sound before the
\* timer, which may by then be that of another tone.
LEMMA ToneStopInv ==
  ASSUME ToneIInv, ToneCalled', NEW t \in ToneThreads,
         ToneStop(t) \/ ToneStopping(t) \/ ToneSilence(t) \/ ToneHalt(t)
  PROVE  ToneIInv'
<1> USE DEF ToneIInv, tonePlayer, toneDevice, toneHistory, ToneGoto
<1>1. CASE ToneStop(t)
  <2> USE <1>1 DEF ToneStop
  <2>1. ToneOwned' BY ToneAssumption DEF ToneOwned, ToneHolding, ToneLabels
  <2>2. ToneTyped' BY DEF ToneTyped
  <2>3. ToneReady' BY DEF ToneReady, ToneOwned
  <2>4. DeviceFollowsPlayer' BY DEF DeviceFollowsPlayer, ToneOwned
  <2> QED BY <2>1, <2>2, <2>3, <2>4
<1>2. CASE ToneStopping(t)
  <2> USE <1>2 DEF ToneStopping
  <2>1. ToneOwned' BY ToneAssumption DEF ToneOwned, ToneHolding, ToneLabels
  <2>2. ToneTyped' BY DEF ToneTyped
  <2>3. ToneReady' BY DEF ToneReady, ToneOwned
  <2>4. DeviceFollowsPlayer' BY DEF DeviceFollowsPlayer, ToneOwned
  <2> QED BY <2>1, <2>2, <2>3, <2>4
<1>3. CASE ToneSilence(t)
  <2> USE <1>3 DEF ToneSilence
  <2>1. ToneOwned' BY DEF ToneOwned, ToneHolding, ToneLabels
  <2>2. ToneTyped' BY DEF ToneTyped
  <2>3. ToneReady' BY DEF ToneReady, ToneOwned
  <2>4. DeviceFollowsPlayer' BY DEF DeviceFollowsPlayer, ToneOwned
  <2> QED BY <2>1, <2>2, <2>3, <2>4
<1>4. CASE ToneHalt(t)
  <2> USE <1>4 DEF ToneHalt
  <2>1. ToneOwned' BY DEF ToneOwned, ToneHolding, ToneLabels
  <2>2. ToneTyped' BY DEF ToneTyped
  <2>3. ToneReady' BY DEF ToneReady, ToneOwned
  <2>4. DeviceFollowsPlayer' BY DEF DeviceFollowsPlayer, ToneOwned, ToneTyped
  <2> QED BY <2>1, <2>2, <2>3, <2>4
<1> QED BY <1>1, <1>2, <1>3, <1>4

-----------------------------------------------------------------------------
\* Where a tick leaves the threads, and the rest that it leaves alone.
ToneFramed ==
  /\ \A u \in ToneThreads : tonePc'[u] = tonePc[u] \/ (tonePc[u] = "waiting" /\ tonePc'[u] = "woken")
  /\ tonePc' \in [ToneThreads -> ToneLabels]
  /\ UNCHANGED <<toneText, toneMutex, toneCut, toneSwapped>>

LEMMA ToneTickFrames == ASSUME ToneIInv, ToneTick PROVE ToneFramed
<1>1. tonePc \in [ToneThreads -> ToneLabels] BY DEF ToneIInv, ToneOwned
<1>2. UNCHANGED <<toneText, toneMutex, toneCut, toneSwapped>> BY DEF ToneTick, toneHistory
<1> QED BY <1>1, <1>2, ToneTickGives, ToneGiveWakes DEF ToneFramed

\* A tick that ends the tone leaves a silent device.
LEMMA ToneEndsInv ==
  ASSUME ToneIInv, ToneCalled', ToneFramed, NEW times, ToneEnds(times), toneIndex' \in {toneIndex, 1}
  PROVE  ToneIInv'
<1> USE DEF ToneIInv, ToneFramed, ToneEnds
<1>1. ToneOwned' BY DEF ToneOwned, ToneHolding
<1>2. ToneTyped'
  <2>1. toneIndex' \in Nat \ {0} BY DEF ToneTyped
  <2>2. tonePlaying' = FALSE /\ toneTimer' = FALSE /\ toneSound' = FALSE OBVIOUS
  <2>3. toneCut' \in BOOLEAN /\ toneSwapped' \in BOOLEAN /\ toneText' \in ToneTexts BY DEF ToneTyped
  <2> QED BY <2>1, <2>2, <2>3, Zenon DEF ToneTyped
<1>3. ToneReady' BY DEF ToneReady
<1>4. DeviceFollowsPlayer' BY DEF DeviceFollowsPlayer
<1> QED BY <1>1, <1>2, <1>3, <1>4

\* A tick that plays an item of the text moves past it, and no further than
\* the terminator, unless the item is the digits that end the text.
LEMMA TonePlaysOn ==
  ASSUME ToneIInv, ToneCalled', ToneFramed, toneTimer, UNCHANGED <<tonePlaying, toneTimer>>,
         tonePlaying, toneSound' \in BOOLEAN, NEW item \in ToneFound \ {NoToneCall}, toneIndex' = ToneAfter(item)
  PROVE  ToneIInv'
<1> USE DEF ToneIInv, ToneFramed
<1>1. ToneOwned' BY DEF ToneOwned, ToneHolding
<1>2. ToneTyped'
  <2>1. toneIndex' \in Nat \ {0} BY DEF ToneTyped, ToneAfter
  <2>2. /\ tonePlaying' \in BOOLEAN /\ toneTimer' \in BOOLEAN
        /\ toneCut' \in BOOLEAN /\ toneSwapped' \in BOOLEAN /\ toneText' \in ToneTexts
    BY DEF ToneTyped
  <2> QED BY <2>1, <2>2, Zenon DEF ToneTyped
<1>3. ToneReady' BY DEF ToneReady
<1>4. ASSUME ~toneSwapped, ~ToneEndsBare(toneText) PROVE toneIndex' <= Len(toneText') + 1
  <2>1. toneIndex <= Len(toneText) + 1 BY <1>4 DEF DeviceFollowsPlayer
  <2>2. Len(toneText) \in Nat /\ DOMAIN toneText = 1 .. Len(toneText) BY ToneAssumption DEF ToneTyped
  <2>3. toneIndex # Len(toneText) + 1 BY <2>2 DEF ToneFound
  <2>4. toneIndex \in Nat \ {0} BY DEF ToneTyped
  <2>5. toneIndex \in 1 .. Len(toneText) BY <2>1, <2>2, <2>3, <2>4
  <2>6. item = toneText[toneIndex] BY <2>2, <2>5 DEF ToneFound
  <2>7. toneText[toneIndex].kind # "digits"
    <3>1. toneText \in ToneTexts /\ ~ToneEndsBare(toneText) BY <1>4 DEF ToneTyped
    <3> QED BY ONLY <3>1, <2>2, <2>5, ToneDigitsLast
  <2>8. item.kind # "digits" BY <2>6, <2>7
  <2>9. toneIndex' = toneIndex \/ toneIndex' = toneIndex + 1 BY ONLY <2>8, toneIndex' = ToneAfter(item) DEF ToneAfter
  <2> QED BY <2>2, <2>5, <2>9
<1>5. DeviceFollowsPlayer' BY <1>4 DEF DeviceFollowsPlayer, ToneEndsBare
<1> QED BY <1>1, <1>2, <1>3, <1>5

LEMMA ToneTickInv == ASSUME ToneIInv, ToneCalled', ToneTick PROVE ToneIInv'
<1>1. ToneFramed BY ToneTickFrames
<1>2. PICK now : ToneIdleTick(now) \/ ToneLastTick(now) \/ ToneNextTick(now) BY DEF ToneTick
<1>3. CASE ToneIdleTick(now)
  <2>1. CASE toneStopRequest BY <1>1, <1>3, <2>1, ToneEndsInv DEF ToneIdleTick
  <2>2. CASE ~toneStopRequest
    <3> USE DEF ToneIInv, ToneFramed
    <3>1. UNCHANGED <<tonePlaying, toneTimer, toneSound, toneIndex>> BY <1>3, <2>2 DEF ToneIdleTick, ToneGoesOnAt
    <3>2. ToneOwned' BY <1>1 DEF ToneOwned, ToneHolding
    <3>3. ToneTyped' BY <1>1, <3>1 DEF ToneTyped
    <3>4. ToneReady' BY <1>1, <3>1 DEF ToneReady
    <3>5. DeviceFollowsPlayer' BY <1>1, <3>1 DEF DeviceFollowsPlayer
    <3> QED BY <3>2, <3>3, <3>4, <3>5
  <2> QED BY <2>1, <2>2
<1>4. CASE ToneLastTick(now)
  <2>1. PICK times : ToneEnds(times) /\ toneIndex' = 1 BY <1>4 DEF ToneLastTick
  <2> QED BY <1>1, <2>1, ToneEndsInv
<1>5. CASE ToneNextTick(now)
  <2>1. PICK item \in ToneFound \ {NoToneCall} :
          /\ ToneDue(now) /\ toneIndex' = ToneAfter(item)
          /\ IF toneStopRequest
               THEN ToneEnds(1)
               ELSE /\ toneSound' = IF item.kind \in ToneUnplayed THEN toneSound ELSE item.kind = "note"
                    /\ ToneGoesOnAt(now)
    BY <1>5 DEF ToneNextTick
  <2>2. CASE ~toneStopRequest
    <3>1. toneSound' \in BOOLEAN BY <2>1, <2>2 DEF ToneIInv, ToneTyped
    <3>2. tonePlaying /\ toneTimer BY <2>1 DEF ToneDue, ToneTick
    <3>3. UNCHANGED <<tonePlaying, toneTimer>> BY <2>1, <2>2 DEF ToneGoesOnAt
    <3> QED BY <1>1, <2>1, <3>1, <3>2, <3>3, TonePlaysOn
  <2>3. CASE toneStopRequest
    <3> USE DEF ToneIInv, ToneFramed
    <3>1. tonePlaying BY <2>1 DEF ToneDue
    <3>2. ToneOwned' BY <1>1 DEF ToneOwned, ToneHolding
    <3>3. toneIndex' \in Nat \ {0} BY <2>1 DEF ToneTyped, ToneAfter
    <3>4. tonePlaying' = FALSE /\ toneTimer' = FALSE /\ toneSound' = FALSE BY <2>1, <2>3 DEF ToneEnds
    <3>5. toneCut' \in BOOLEAN /\ toneSwapped' \in BOOLEAN /\ toneText' \in ToneTexts BY <1>1 DEF ToneTyped
    <3>6. ToneTyped' BY <3>3, <3>4, <3>5, Zenon DEF ToneTyped
    <3>7. ToneReady' BY <1>1, <3>1 DEF ToneReady
    <3>8. DeviceFollowsPlayer' BY <3>4 DEF DeviceFollowsPlayer
    <3> QED BY <3>2, <3>6, <3>7, <3>8
  <2> QED BY <2>2, <2>3
<1> QED BY <1>2, <1>3, <1>4, <1>5

-----------------------------------------------------------------------------
\* ToneIInv is inductive: the mutex tells who changes the player, and with it
\* no call finds the player other than it left it.
THEOREM ToneInvariance == ToneSpec => []ToneIInv
<1>1. ToneIInv /\ [ToneNext]_toneVars => ToneIInv'
  <2> SUFFICES ASSUME ToneIInv, [ToneNext]_toneVars PROVE ToneIInv' OBVIOUS
  <2>1. ToneCalled' BY ToneCalledStays
  <2>2. CASE UNCHANGED toneVars
    <3>1. tonePc \in [ToneThreads -> ToneLabels] BY DEF ToneIInv, ToneOwned
    <3> QED BY <2>1, <2>2, <3>1, ToneAside DEF toneVars, tonePlayer, toneDevice, toneHistory
  <2>3. CASE ToneTick BY <2>1, <2>3, ToneTickInv
  <2>4. ASSUME NEW t \in ToneThreads, ToneStep(t) PROVE ToneIInv'
    BY <2>1, <2>4, ToneAsideSteps, ToneSetTextInv, TonePlayInv, TonePlayingInv, ToneStartingInv, ToneStopInv
    DEF ToneStep
  <2> QED BY <2>2, <2>3, <2>4 DEF ToneNext
<1> QED BY ToneInitInv, <1>1, PTL DEF ToneSpec

\* The buzzer sounds only while a tone plays or is about to be silenced, a tone
\* that plays has its timer unless a stop cut it, and is read inside its text
\* unless the text was swapped or ends in digits that no note follows
\* (ringtone.c:80, :166-237, :305-324, :333-378), for any texts, threads, calls
\* and times.
THEOREM DeviceIsFollowed == ToneSpec => []DeviceFollowsPlayer
BY ToneInvariance, PTL DEF ToneIInv

-----------------------------------------------------------------------------
(* The LEDs.  The timer takes the mutex of the thread it interrupts, so    *)
(* inside a set nothing but what a thread wrote itself can be relied on.   *)
(* The invariant LedIInv says, for every LED and place of the program,     *)
(* what remains true whenever the timer runs; it is about all threads, and *)
(* its proof starts from the mutex: at most one of them is inside a set    *)
(* (LedHolder), and each part of the invariant takes a simple form when it *)
(* is known who it is (LedSoleForm) or that nobody is (LedFreeForm).  A    *)
(* step then keeps it by the LEDs it leaves alone (LedStays) and by the    *)
(* few it changes.                                                         *)

-----------------------------------------------------------------------------
(* The calls and the types.                                                *)

\* The fields of a call.
LEMMA LedCallFields ==
  ASSUME NEW t \in LedThreads, NEW c \in LedCallsOf[t]
  PROVE  /\ c # NoLedCall /\ c.op \in {"set", "get"} /\ c.mask \subseteq Leds
         /\ c.op = "set" => c.action \in LedActions
         /\ c.op = "get" => \E a \in Leds : c.mask = {a}
  BY LedAssumption DEF LedAssumption

\* A thread inside a call has one of its calls.
LEMMA LedBusy ==
  ASSUME LedTypeOK, NEW t \in LedThreads, ledPc[t] # "idle"
  PROVE  /\ ledCall[t] \in LedCallsOf[t] /\ ledCall[t] # NoLedCall
         /\ ledCall[t].op \in {"set", "get"} /\ ledCall[t].mask \subseteq Leds
         /\ ledCall[t].op = "set" => ledCall[t].action \in LedActions
  BY LedCallFields DEF LedTypeOK

\* The table has a row, and its rows are the LEDs.
LEMMA LedRows ==
  /\ Len(LedList) \in Nat /\ 1 <= Len(LedList)
  /\ Leds = {LedList[i] : i \in 1 .. Len(LedList)}
  /\ NoLedCall \notin LedThreads
  <1>1. LedList \in Seq(0 .. 31) /\ Len(LedList) \in 1 .. 32 /\ NoLedCall \notin LedThreads
    BY LedAssumption DEF LedAssumption
  <1>2. DOMAIN LedList = 1 .. Len(LedList)
    BY <1>1
  <1>3. Leds = {LedList[i] : i \in 1 .. Len(LedList)}
    BY <1>2 DEF Leds, Range
  <1>4. Len(LedList) \in Nat /\ 1 <= Len(LedList)
    <2>1. PICK n \in 1 .. 32 : n = Len(LedList)
      BY <1>1, Zenon
    <2>2. n \in Nat /\ 1 <= n
      OBVIOUS
    <2>3. QED
      BY <2>1, <2>2, Zenon
  <1>5. QED
    BY <1>1, <1>3, <1>4, Zenon

\* The places of the locked part of a set, and of a call that has the mutex.
LedSetLabels == LedModes \cup {"load", "store", "latch", "drive"}

\* The places of the program, spelt out.
LEMMA LedPlaces ==
  /\ LedModes = {"on", "slow", "fast", "heart"} /\ LedBlinkModes = {"slow", "fast", "heart"}
  /\ LedLabels = {"idle", "enter", "sync", "syncStore"} \cup LedSetLabels
  /\ LedSetLabels = {"on", "slow", "fast", "heart", "load", "store", "latch", "drive"}
  BY DEF LedModes, LedBlinkModes, LedLabels, LedSetLabels

\* Every variable starts with its type.
LEMMA LedInitTyped == LedInit => LedTypeOK
  <1> SUFFICES ASSUME LedInit PROVE LedTypeOK
    OBVIOUS
  <1>1. /\ ledMask \in [LedModes -> SUBSET Leds] /\ ledStatus \subseteq Leds /\ ledHigh \subseteq Leds
        /\ ledCount \in [LedBlinkModes -> Nat] /\ ledPhase \in 0 .. 3
        /\ ledMutex \in LedThreads \cup {NoLedCall}
    <2>1. ledMask \in [LedModes -> SUBSET Leds]
      BY DEF LedInit
    <2>2. ledHigh \subseteq Leds
      BY DEF LedInit
    <2>3. ledCount \in [LedBlinkModes -> Nat] /\ ledPhase \in 0 .. 3
      BY DEF LedInit
    <2>4. QED
      BY <2>1, <2>2, <2>3 DEF LedInit
  <1>2. ledPc \in [LedThreads -> LedLabels] /\ DOMAIN ledCall = LedThreads
    BY DEF LedInit, LedLabels
  <1>3. \A t \in LedThreads :
          /\ ledCall[t] \in LedCallsOf[t] \cup {NoLedCall} /\ (ledCall[t] = NoLedCall <=> ledPc[t] = "idle")
          /\ ledMutex = t <=> ledPc[t] \notin {"idle", "enter", "sync"}
    BY LedRows DEF LedInit
  <1>4. /\ ledReg \in [LedThreads -> SUBSET Leds] /\ ledRow \in [LedThreads -> 0 .. Len(LedList) - 1]
    BY LedRows DEF LedInit
  <1>5. ledAsked \in [Leds -> {"lit", "dark", "blink"}] /\ ledOvertaken \subseteq Leds
    BY DEF LedInit
  <1>6. QED
    BY <1>1, <1>2, <1>3, <1>4, <1>5 DEF LedTypeOK

\* The type of what the threads have is kept by a step of one of them that
\* leaves it at a place of the program with a call of its own.
LedThreadsTyped ==
  /\ ledMutex \in LedThreads \cup {NoLedCall}
  /\ ledPc \in [LedThreads -> LedLabels] /\ DOMAIN ledCall = LedThreads
  /\ \A t \in LedThreads :
       /\ ledCall[t] \in LedCallsOf[t] \cup {NoLedCall} /\ (ledCall[t] = NoLedCall <=> ledPc[t] = "idle")
       /\ ledMutex = t <=> ledPc[t] \notin {"idle", "enter", "sync"}

LedDataTyped ==
  /\ ledMask \in [LedModes -> SUBSET Leds] /\ ledStatus \subseteq Leds /\ ledHigh \subseteq Leds
  /\ ledCount \in [LedBlinkModes -> Nat] /\ ledPhase \in 0 .. 3
  /\ ledReg \in [LedThreads -> SUBSET Leds] /\ ledRow \in [LedThreads -> 0 .. Len(LedList) - 1]
  /\ ledAsked \in [Leds -> {"lit", "dark", "blink"}] /\ ledOvertaken \subseteq Leds

\* The type invariant, in what is about threads and what is about data.
LEMMA LedTyped == LedTypeOK <=> LedThreadsTyped /\ LedDataTyped
  BY DEF LedTypeOK, LedThreadsTyped, LedDataTyped

\* The same in the next state.
LEMMA LedTypedNext == LedTypeOK' <=> LedThreadsTyped' /\ LedDataTyped'
  BY LedTyped, PTL

\* A step inside the critical section, or into it.
LEMMA LedInsideTyped ==
  ASSUME LedThreadsTyped, NEW u \in LedThreads, NEW l \in LedLabels \ {"idle", "enter", "sync"},
         ledPc[u] # "idle", LedGoto(u, l), ledCall' = ledCall,
         ledMutex \in {u, NoLedCall}, ledMutex' = u
  PROVE  LedThreadsTyped'
  <1>1. ledPc' = [ledPc EXCEPT ![u] = l] /\ ledPc \in [LedThreads -> LedLabels]
    BY DEF LedGoto, LedThreadsTyped
  <1>2. ledPc' \in [LedThreads -> LedLabels] /\ ledPc'[u] = l
    BY <1>1
  <1>3. ASSUME NEW t \in LedThreads
        PROVE  /\ ledCall[t] \in LedCallsOf[t] \cup {NoLedCall}
               /\ ledCall[t] = NoLedCall <=> ledPc'[t] = "idle"
               /\ ledMutex' = t <=> ledPc'[t] \notin {"idle", "enter", "sync"}
    <2>1. CASE t = u
      BY <2>1, <1>2 DEF LedThreadsTyped
    <2>2. CASE t # u
      <3>1. ledPc'[t] = ledPc[t] /\ ledMutex # t /\ ledMutex' # t
        BY <2>2, <1>1, LedRows
      <3>2. QED
        BY <3>1 DEF LedThreadsTyped
    <2>3. QED
      BY <2>1, <2>2
  <1>4. QED
    BY <1>2, <1>3 DEF LedThreadsTyped

\* A step that leaves the mutex alone.
LEMMA LedOutsideTyped ==
  ASSUME LedThreadsTyped, NEW u \in LedThreads, NEW l \in {"enter", "sync"},
         ledPc[u] \in {"idle", "enter", "sync"}, LedGoto(u, l), ledMutex' = ledMutex,
         DOMAIN ledCall' = LedThreads, ledCall'[u] \in LedCallsOf[u],
         \A t \in LedThreads \ {u} : ledCall'[t] = ledCall[t]
  PROVE  LedThreadsTyped'
  <1>1. ledPc' = [ledPc EXCEPT ![u] = l] /\ ledPc \in [LedThreads -> LedLabels]
    BY DEF LedGoto, LedThreadsTyped
  <1>2. ledPc' \in [LedThreads -> LedLabels] /\ ledPc'[u] = l
    BY <1>1 DEF LedLabels
  <1>3. ASSUME NEW t \in LedThreads
        PROVE  /\ ledCall'[t] \in LedCallsOf[t] \cup {NoLedCall}
               /\ ledCall'[t] = NoLedCall <=> ledPc'[t] = "idle"
               /\ ledMutex' = t <=> ledPc'[t] \notin {"idle", "enter", "sync"}
    <2>1. CASE t = u
      BY <2>1, <1>2, LedCallFields DEF LedThreadsTyped
    <2>2. CASE t # u
      <3>1. ledPc'[t] = ledPc[t] /\ ledCall'[t] = ledCall[t]
        BY <2>2, <1>1
      <3>2. QED
        BY <3>1 DEF LedThreadsTyped
    <2>3. QED
      BY <2>1, <2>2
  <1>4. QED
    BY <1>2, <1>3 DEF LedThreadsTyped

\* The end of a call.
LEMMA LedReturnTyped ==
  ASSUME LedThreadsTyped, NEW u \in LedThreads, ledMutex \in {u, NoLedCall}, LedReturn(u)
  PROVE  LedThreadsTyped'
  <1>1. /\ ledPc' = [ledPc EXCEPT ![u] = "idle"] /\ ledPc \in [LedThreads -> LedLabels]
        /\ ledCall' = [ledCall EXCEPT ![u] = NoLedCall] /\ DOMAIN ledCall = LedThreads
        /\ ledMutex' = NoLedCall
    BY DEF LedGoto, LedReturn, LedThreadsTyped
  <1>2. /\ ledPc' \in [LedThreads -> LedLabels] /\ ledPc'[u] = "idle"
        /\ DOMAIN ledCall' = LedThreads /\ ledCall'[u] = NoLedCall
    BY <1>1 DEF LedLabels
  <1>3. ASSUME NEW t \in LedThreads
        PROVE  /\ ledCall'[t] \in LedCallsOf[t] \cup {NoLedCall}
               /\ ledCall'[t] = NoLedCall <=> ledPc'[t] = "idle"
               /\ ledMutex' = t <=> ledPc'[t] \notin {"idle", "enter", "sync"}
    <2>1. CASE t = u
      BY <2>1, <1>1, <1>2, LedRows
    <2>2. CASE t # u
      <3>1. ledPc'[t] = ledPc[t] /\ ledCall'[t] = ledCall[t] /\ ledMutex # t /\ ledMutex' # t
        BY <2>2, <1>1, LedRows
      <3>2. QED
        BY <3>1 DEF LedThreadsTyped
    <2>3. QED
      BY <2>1, <2>2
  <1>4. QED
    BY <1>1, <1>2, <1>3 DEF LedThreadsTyped

\* What a thread loads, and the row it is at.
LEMMA LedLoadTyped ==
  ASSUME LedDataTyped, NEW u \in LedThreads, NEW S \in SUBSET Leds, LedLoad(u, S)
  PROVE  ledReg' \in [LedThreads -> SUBSET Leds] /\ ledReg'[u] = S
         /\ \A t \in LedThreads \ {u} : ledReg'[t] = ledReg[t]
  BY DEF LedLoad, LedDataTyped

\* The mutex is with the thread that is inside.
LEMMA LedOwner ==
  ASSUME LedTypeOK, NEW u \in LedThreads, ledPc[u] \in LedSetLabels \cup {"syncStore"}
  PROVE  /\ ledMutex = u /\ ledPc[u] # "idle" /\ ledCall[u].mask \subseteq Leds
         /\ ledMutex \in {u, NoLedCall}
  BY LedPlaces, LedBusy DEF LedTypeOK

\* LedReturn leaves the data of the others.
LEMMA LedReturnData ==
  ASSUME LedDataTyped, NEW u \in LedThreads, LedReturn(u)
  PROVE  /\ ledReg' \in [LedThreads -> SUBSET Leds]
         /\ ledRow' \in [LedThreads -> 0 .. Len(LedList) - 1]
  <1>1. ledRow' = [ledRow EXCEPT ![u] = 0] /\ LedLoad(u, {})
    BY DEF LedReturn
  <1>2. 0 \in 0 .. Len(LedList) - 1
    BY LedRows
  <1>3. ledRow' \in [LedThreads -> 0 .. Len(LedList) - 1]
    BY <1>1, <1>2 DEF LedDataTyped
  <1>4. QED
    BY <1>1, <1>3, LedLoadTyped

\* Every step of a thread keeps the types.
LEMMA LedStartTyped ==
  ASSUME LedTypeOK, NEW u \in LedThreads, LedStart(u) PROVE LedTypeOK'
  <1>1. PICK c \in LedCallsOf[u] : ledCall' = [ledCall EXCEPT ![u] = c]
    BY DEF LedStart
  <1>2. /\ ledPc[u] = "idle" /\ LedGoto(u, "enter")
        /\ UNCHANGED <<ledMask, ledStatus, ledHigh, ledCount, ledPhase, ledMutex, ledReg, ledRow,
                       ledAsked, ledOvertaken>>
    BY DEF LedStart, ledMasks, ledTimer, ledHistory
  <1>3. LedThreadsTyped'
    <2>1. /\ DOMAIN ledCall' = LedThreads /\ ledCall'[u] \in LedCallsOf[u]
          /\ \A t \in LedThreads \ {u} : ledCall'[t] = ledCall[t]
      BY <1>1, LedTyped DEF LedThreadsTyped
    <2>2. QED
      BY <1>2, <2>1, LedTyped, LedOutsideTyped
  <1>4. LedDataTyped'
    BY <1>2, LedTyped DEF LedDataTyped
  <1>5. QED
    BY <1>3, <1>4, LedTypedNext

\* Typing: led_set takes the mutex.
LEMMA LedEnterTyped ==
  ASSUME LedTypeOK, NEW u \in LedThreads, LedEnter(u) PROVE LedTypeOK'
  <1>1. /\ ledPc[u] = "enter" /\ ledMutex = NoLedCall /\ ledMutex' = u /\ LedGoto(u, "on")
        /\ ledCall' = ledCall
        /\ ledOvertaken' = (ledOvertaken \ (IF ledCall[u].action = "toggle" THEN {} ELSE ledCall[u].mask))
                             \cup (ledCall[u].mask \cap LedBeingRead)
        /\ UNCHANGED <<ledMask, ledStatus, ledHigh, ledCount, ledPhase, ledReg, ledRow, ledAsked>>
    BY DEF LedEnter, ledMasks, ledTimer
  <1>2. "on" \in LedLabels \ {"idle", "enter", "sync"}
    BY LedPlaces
  <1>3. LedThreadsTyped'
    BY <1>1, <1>2, LedTyped, LedInsideTyped
  <1>4. ledOvertaken' \subseteq Leds
    BY <1>1, LedBusy, LedTyped DEF LedDataTyped
  <1>5. LedDataTyped'
    BY <1>1, <1>4, LedTyped DEF LedDataTyped
  <1>6. QED
    BY <1>3, <1>5, LedTypedNext

\* Typing: an unknown action is refused.
LEMMA LedRefuseTyped ==
  ASSUME LedTypeOK, NEW u \in LedThreads, LedRefuse(u) PROVE LedTypeOK'
  <1>1. /\ ledMutex = NoLedCall /\ LedReturn(u)
        /\ UNCHANGED <<ledMask, ledStatus, ledHigh, ledCount, ledPhase, ledAsked, ledOvertaken>>
    BY DEF LedRefuse, ledMasks, ledTimer, ledHistory
  <1>2. LedThreadsTyped'
    BY <1>1, LedTyped, LedReturnTyped
  <1>3. LedDataTyped'
    BY <1>1, LedTyped, LedReturnData DEF LedDataTyped
  <1>4. QED
    BY <1>2, <1>3, LedTypedNext

\* Typing: a line that cannot be read.
LEMMA LedReadFailsTyped ==
  ASSUME LedTypeOK, NEW u \in LedThreads, LedReadFails(u) PROVE LedTypeOK'
  <1>1. /\ ledPc[u] = "enter"
        /\ ledPc' = [ledPc EXCEPT ![u] = "idle"] /\ ledCall' = [ledCall EXCEPT ![u] = NoLedCall]
        /\ UNCHANGED <<ledMask, ledStatus, ledHigh, ledCount, ledPhase, ledMutex, ledReg, ledRow,
                       ledAsked, ledOvertaken>>
    BY DEF LedReadFails, LedGoto, ledMasks, ledTimer, ledHistory
  <1>2. LedThreadsTyped
    BY LedTyped
  <1>3. /\ ledPc' \in [LedThreads -> LedLabels] /\ ledPc'[u] = "idle"
        /\ DOMAIN ledCall' = LedThreads /\ ledCall'[u] = NoLedCall
    BY <1>1, <1>2 DEF LedThreadsTyped, LedLabels
  <1>4. ASSUME NEW t \in LedThreads
        PROVE  /\ ledCall'[t] \in LedCallsOf[t] \cup {NoLedCall}
               /\ ledCall'[t] = NoLedCall <=> ledPc'[t] = "idle"
               /\ ledMutex' = t <=> ledPc'[t] \notin {"idle", "enter", "sync"}
    <2>1. CASE t = u
      BY <2>1, <1>1, <1>2, <1>3 DEF LedThreadsTyped
    <2>2. CASE t # u
      <3>1. ledPc'[t] = ledPc[t] /\ ledCall'[t] = ledCall[t]
        BY <2>2, <1>1, <1>2 DEF LedThreadsTyped
      <3>2. QED
        BY <3>1, <1>1, <1>2 DEF LedThreadsTyped
    <2>3. QED
      BY <2>1, <2>2
  <1>5. LedThreadsTyped'
    BY <1>1, <1>2, <1>3, <1>4 DEF LedThreadsTyped
  <1>6. LedDataTyped'
    BY <1>1, LedTyped DEF LedDataTyped
  <1>7. QED
    BY <1>5, <1>6, LedTypedNext

\* What an assignment of a mask makes of it, LED by LED.
LEMMA LedSetMaskValues ==
  ASSUME LedTypeOK, NEW u \in LedThreads, NEW m \in LedModes, LedSetMask(u, m)
  PROVE  LET c == ledCall[u]
             S == IF c.action = m THEN ledMask[m] \cup c.mask
                  ELSE IF m = "on" /\ c.action = "toggle" THEN Flip(ledMask[m], c.mask)
                  ELSE ledMask[m] \ c.mask
         IN  /\ ledPc[u] = m /\ LedGoto(u, LedAfterMask(m, c.action))
             /\ S \subseteq Leds /\ ledMask'[m] = S
             /\ \A n \in LedModes \ {m} : ledMask'[n] = ledMask[n]
             /\ ledMask' \in [LedModes -> SUBSET Leds]
             /\ UNCHANGED <<ledStatus, ledHigh, ledCount, ledPhase, ledMutex, ledCall, ledReg, ledRow, ledOvertaken>>
  <1> DEFINE c == ledCall[u]
             S == IF c.action = m THEN ledMask[m] \cup c.mask
                  ELSE IF m = "on" /\ c.action = "toggle" THEN Flip(ledMask[m], c.mask)
                  ELSE ledMask[m] \ c.mask
  <1>1. /\ ledPc[u] = m /\ ledMask' = [ledMask EXCEPT ![m] = S]
        /\ LedGoto(u, LedAfterMask(m, c.action))
        /\ UNCHANGED <<ledStatus, ledHigh, ledCount, ledPhase, ledMutex, ledCall, ledReg, ledRow, ledOvertaken>>
    BY DEF LedSetMask, ledTimer
  <1>2. ledMask \in [LedModes -> SUBSET Leds] /\ c.mask \subseteq Leds
    BY <1>1, LedPlaces, LedBusy DEF LedTypeOK
  <1>3. ledMask[m] \subseteq Leds
    BY <1>2
  <1>4. S \subseteq Leds
    BY <1>2, <1>3 DEF Flip
  <1> HIDE DEF S
  <1>5. /\ ledMask'[m] = S /\ \A n \in LedModes \ {m} : ledMask'[n] = ledMask[n]
        /\ ledMask' \in [LedModes -> SUBSET Leds]
    BY <1>1, <1>2, <1>4
  <1>6. QED
    BY <1>1, <1>4, <1>5 DEF S

\* The place that follows the assignment of a mask.
LEMMA LedAfterMaskPlace ==
  ASSUME NEW m \in LedModes, NEW action
  PROVE  /\ LedAfterMask("on", action) = "slow" /\ LedAfterMask("slow", action) = "fast"
         /\ LedAfterMask("fast", action) = "heart"
         /\ LedAfterMask("heart", action) = IF action \in LedSteady THEN "load" ELSE "latch"
         /\ LedAfterMask(m, action) \in {"slow", "fast", "heart", "load", "latch"}
  BY LedPlaces DEF LedAfterMask

\* Who was asked to blink by an assignment of on_mask.
LEMMA LedSetMaskAsked ==
  ASSUME LedTypeOK, NEW u \in LedThreads, NEW m \in LedModes, LedSetMask(u, m)
  PROVE  /\ ledAsked' \in [Leds -> {"lit", "dark", "blink"}]
         /\ \A a \in Leds : ledAsked'[a] =
              IF m = "on" /\ ledCall[u].action \in LedBlinkModes /\ a \in ledCall[u].mask
                THEN "blink" ELSE ledAsked[a]
  <1>1. ledAsked \in [Leds -> {"lit", "dark", "blink"}]
    BY DEF LedTypeOK
  <1>2. ledAsked' = IF m = "on" /\ ledCall[u].action \in LedBlinkModes
                      THEN [a \in Leds |-> IF a \in ledCall[u].mask THEN "blink" ELSE ledAsked[a]]
                      ELSE ledAsked
    BY DEF LedSetMask
  <1>3. QED
    BY <1>1, <1>2

\* Typing: a mask of modes is assigned.
LEMMA LedSetMaskTyped ==
  ASSUME LedTypeOK, NEW u \in LedThreads, NEW m \in LedModes, LedSetMask(u, m) PROVE LedTypeOK'
  <1>1. /\ ledPc[u] = m /\ LedGoto(u, LedAfterMask(m, ledCall[u].action))
        /\ ledMask' \in [LedModes -> SUBSET Leds]
        /\ UNCHANGED <<ledStatus, ledHigh, ledCount, ledPhase, ledMutex, ledCall, ledReg, ledRow, ledOvertaken>>
    BY LedSetMaskValues
  <1>2. LedAfterMask(m, ledCall[u].action) \in LedLabels \ {"idle", "enter", "sync"}
    BY LedAfterMaskPlace, LedPlaces
  <1>3. ledPc[u] \in LedSetLabels
    BY <1>1, LedPlaces
  <1>4. LedThreadsTyped'
    BY <1>1, <1>2, <1>3, LedTyped, LedInsideTyped, LedOwner
  <1>5. LedDataTyped'
    BY <1>1, LedTyped, LedSetMaskAsked DEF LedDataTyped
  <1>6. QED
    BY <1>4, <1>5, LedTypedNext

\* Typing: status_mask is loaded.
LEMMA LedLoadStatusTyped ==
  ASSUME LedTypeOK, NEW u \in LedThreads, LedLoadStatus(u) PROVE LedTypeOK'
  <1>1. /\ ledPc[u] = "load" /\ LedLoad(u, ledStatus) /\ LedGoto(u, "store")
        /\ UNCHANGED <<ledMask, ledStatus, ledHigh, ledCount, ledPhase, ledMutex, ledCall, ledRow, ledOvertaken>>
    BY DEF LedLoadStatus, ledMasks, ledTimer
  <1>2. ledAsked' \in [Leds -> {"lit", "dark", "blink"}]
    BY DEF LedLoadStatus, LedTypeOK
  <1>3. "store" \in LedLabels \ {"idle", "enter", "sync"} /\ ledPc[u] \in LedSetLabels
    BY <1>1, LedPlaces
  <1>4. LedThreadsTyped'
    BY <1>1, <1>3, LedTyped, LedInsideTyped, LedOwner
  <1>5. ledReg' \in [LedThreads -> SUBSET Leds]
    BY <1>1, LedTyped, LedLoadTyped DEF LedDataTyped
  <1>6. LedDataTyped'
    BY <1>1, <1>2, <1>5, LedTyped DEF LedDataTyped
  <1>7. QED
    BY <1>4, <1>6, LedTypedNext

\* Typing: status_mask is stored.
LEMMA LedStoreStatusTyped ==
  ASSUME LedTypeOK, NEW u \in LedThreads, LedStoreStatus(u) PROVE LedTypeOK'
  <1>1. /\ ledPc[u] = "store" /\ LedGoto(u, "latch")
        /\ UNCHANGED <<ledMask, ledHigh, ledCount, ledPhase, ledMutex, ledCall, ledReg, ledRow, ledAsked, ledOvertaken>>
    BY DEF LedStoreStatus, ledTimer, ledHistory
  <1>2. "latch" \in LedLabels \ {"idle", "enter", "sync"} /\ ledPc[u] \in LedSetLabels
    BY <1>1, LedPlaces
  <1>3. LedThreadsTyped'
    BY <1>1, <1>2, LedTyped, LedInsideTyped, LedOwner
  <1>4. ledReg[u] \subseteq Leds /\ ledCall[u].mask \subseteq Leds
    BY <1>2, LedOwner DEF LedTypeOK
  <1>5. \/ ledStatus' = ledReg[u] \cup ledCall[u].mask \/ ledStatus' = ledReg[u] \ ledCall[u].mask
        \/ ledStatus' = Flip(ledReg[u], ledCall[u].mask)
    BY DEF LedStoreStatus
  <1>6. ledStatus' \subseteq Leds
    BY <1>4, <1>5 DEF Flip
  <1>7. LedDataTyped'
    BY <1>1, <1>6, LedTyped DEF LedDataTyped
  <1>8. QED
    BY <1>3, <1>7, LedTypedNext

\* Typing: update_led_outputs copies the status.
LEMMA LedLatchTyped ==
  ASSUME LedTypeOK, NEW u \in LedThreads, LedLatch(u) PROVE LedTypeOK'
  <1>1. /\ ledPc[u] = "latch" /\ LedLoad(u, ledStatus) /\ LedGoto(u, "drive")
        /\ UNCHANGED <<ledMask, ledStatus, ledHigh, ledCount, ledPhase, ledMutex, ledCall, ledRow, ledAsked, ledOvertaken>>
    BY DEF LedLatch, ledMasks, ledTimer, ledHistory
  <1>2. "drive" \in LedLabels \ {"idle", "enter", "sync"} /\ ledPc[u] \in LedSetLabels
    BY <1>1, LedPlaces
  <1>3. LedThreadsTyped'
    BY <1>1, <1>2, LedTyped, LedInsideTyped, LedOwner
  <1>4. ledReg' \in [LedThreads -> SUBSET Leds]
    BY <1>1, LedTyped, LedLoadTyped DEF LedDataTyped
  <1>5. LedDataTyped'
    BY <1>1, <1>4, LedTyped DEF LedDataTyped
  <1>6. QED
    BY <1>3, <1>5, LedTypedNext

\* The row a thread drives is one of the table.
LEMMA LedDriveRow ==
  ASSUME LedTypeOK, NEW u \in LedThreads
  PROVE  /\ ledRow[u] \in Nat /\ ledRow[u] + 1 \in 1 .. Len(LedList) /\ LedList[ledRow[u] + 1] \in Leds
  <1>1. ledRow[u] \in 0 .. Len(LedList) - 1 /\ Len(LedList) \in Nat
    BY LedRows DEF LedTypeOK
  <1>2. ledRow[u] \in Nat /\ ledRow[u] + 1 \in 1 .. Len(LedList)
    BY <1>1
  <1>3. QED
    BY <1>2, LedRows

\* Typing: one line is driven, or the last and the call returns.
LEMMA LedDriveTyped ==
  ASSUME LedTypeOK, NEW u \in LedThreads, LedDrive(u) PROVE LedTypeOK'
  <1> DEFINE row == ledRow[u] + 1
             a == LedList[row]
  <1>1. /\ ledPc[u] = "drive"
        /\ ledHigh' = IF LedLine(a, a \in ledReg[u]) THEN ledHigh \cup {a} ELSE ledHigh \ {a}
        /\ UNCHANGED <<ledMask, ledStatus, ledCount, ledPhase, ledAsked, ledOvertaken>>
    BY DEF LedDrive, ledTimer, ledHistory
  <1>2. ledPc[u] \in LedSetLabels /\ row \in 1 .. Len(LedList) /\ a \in Leds
    BY <1>1, LedPlaces, LedDriveRow
  <1>3. ledHigh' \subseteq Leds
    <2>1. ledHigh \subseteq Leds
      BY DEF LedTypeOK
    <2>2. QED
      BY <2>1, <1>1, <1>2
  <1>4. CASE row < Len(LedList)
    <2>1. ledRow' = [ledRow EXCEPT ![u] = row] /\ UNCHANGED <<ledMutex, ledPc, ledCall, ledReg>>
      BY <1>4 DEF LedDrive
    <2>2. row \in 0 .. Len(LedList) - 1
      BY <1>4, LedDriveRow, LedRows
    <2>3. ledRow' \in [LedThreads -> 0 .. Len(LedList) - 1]
      BY <2>1, <2>2 DEF LedTypeOK
    <2>4. LedDataTyped'
      BY <1>1, <1>3, <2>1, <2>3, LedTyped DEF LedDataTyped
    <2>5. LedThreadsTyped'
      BY <2>1, LedTyped DEF LedThreadsTyped
    <2>6. QED
      BY <2>4, <2>5, LedTypedNext
  <1>5. CASE ~(row < Len(LedList))
    <2>1. LedReturn(u)
      BY <1>5 DEF LedDrive
    <2>2. LedThreadsTyped'
      BY <1>2, <2>1, LedTyped, LedOwner, LedReturnTyped
    <2>3. LedDataTyped'
      BY <1>1, <1>3, <2>1, LedTyped, LedReturnData DEF LedDataTyped
    <2>4. QED
      BY <2>2, <2>3, LedTypedNext
  <1>6. QED
    BY <1>4, <1>5

\* Typing: led_get_status reads the line.
LEMMA LedReadLineTyped ==
  ASSUME LedTypeOK, NEW u \in LedThreads, LedReadLine(u) PROVE LedTypeOK'
  <1>1. /\ ledPc[u] = "enter" /\ LedGoto(u, "sync")
        /\ LedLoad(u, {a \in ledCall[u].mask : LedShines(a)})
        /\ ledOvertaken' = ledOvertaken \cup (ledCall[u].mask \cap LedBeingSet)
        /\ UNCHANGED <<ledMask, ledStatus, ledHigh, ledCount, ledPhase, ledMutex, ledCall, ledRow, ledAsked>>
    BY DEF LedReadLine, ledMasks, ledTimer
  <1>2. ledCall[u] \in LedCallsOf[u] /\ ledCall[u].mask \subseteq Leds
    BY <1>1, LedBusy
  <1>3. {a \in ledCall[u].mask : LedShines(a)} \in SUBSET Leds /\ ledOvertaken' \subseteq Leds
    BY <1>1, <1>2 DEF LedTypeOK
  <1>4. LedThreadsTyped'
    <2>1. /\ DOMAIN ledCall' = LedThreads /\ ledCall'[u] \in LedCallsOf[u]
          /\ \A t \in LedThreads \ {u} : ledCall'[t] = ledCall[t]
          /\ ledPc[u] \in {"idle", "enter", "sync"}
      BY <1>1, <1>2, LedTyped DEF LedThreadsTyped
    <2>2. QED
      BY <1>1, <1>2, <2>1, LedTyped, LedOutsideTyped
  <1>5. ledReg' \in [LedThreads -> SUBSET Leds]
    BY <1>1, <1>3, LedTyped, LedLoadTyped
  <1>6. LedDataTyped'
    BY <1>1, <1>3, <1>5, LedTyped DEF LedDataTyped
  <1>7. QED
    BY <1>4, <1>6, LedTypedNext

\* Typing: led_get_status locks and loads the status.
LEMMA LedSyncTyped ==
  ASSUME LedTypeOK, NEW u \in LedThreads, LedSync(u) PROVE LedTypeOK'
  <1>1. /\ ledPc[u] = "sync" /\ ledMutex = NoLedCall /\ ledMutex' = u /\ LedGoto(u, "syncStore")
        /\ LedLoad(u, (ledStatus \ ledCall[u].mask) \cup ledReg[u])
        /\ UNCHANGED <<ledMask, ledStatus, ledHigh, ledCount, ledPhase, ledCall, ledRow, ledAsked, ledOvertaken>>
    BY DEF LedSync, ledMasks, ledTimer, ledHistory
  <1>2. "syncStore" \in LedLabels \ {"idle", "enter", "sync"}
    BY LedPlaces
  <1>3. LedThreadsTyped'
    BY <1>1, <1>2, LedTyped, LedInsideTyped
  <1>4. (ledStatus \ ledCall[u].mask) \cup ledReg[u] \in SUBSET Leds
    BY DEF LedTypeOK
  <1>5. ledReg' \in [LedThreads -> SUBSET Leds]
    BY <1>1, <1>4, LedTyped, LedLoadTyped
  <1>6. LedDataTyped'
    BY <1>1, <1>5, LedTyped DEF LedDataTyped
  <1>7. QED
    BY <1>3, <1>6, LedTypedNext

\* Typing: led_get_status stores the status and returns.
LEMMA LedSyncStoreTyped ==
  ASSUME LedTypeOK, NEW u \in LedThreads, LedSyncStore(u) PROVE LedTypeOK'
  <1>1. /\ ledPc[u] = "syncStore" /\ ledStatus' = ledReg[u] /\ LedReturn(u)
        /\ UNCHANGED <<ledMask, ledHigh, ledCount, ledPhase, ledAsked, ledOvertaken>>
    BY DEF LedSyncStore, ledTimer, ledHistory
  <1>2. LedThreadsTyped'
    BY <1>1, LedTyped, LedOwner, LedReturnTyped
  <1>3. ledStatus' \subseteq Leds
    BY <1>1 DEF LedTypeOK
  <1>4. LedDataTyped'
    BY <1>1, <1>3, LedTyped, LedReturnData DEF LedDataTyped
  <1>5. QED
    BY <1>2, <1>4, LedTypedNext

\* The timer counts up to its intervals, and changes only LEDs that blink.
LEMMA LedTickTyped == ASSUME LedTypeOK, LedTick PROVE LedTypeOK'
  <1> DEFINE phase == IF Beats("heart", HeartbeatTicks[ledPhase]) THEN (ledPhase + 1) % 4 ELSE ledPhase
  <1>1. /\ ledCount' = [m \in LedBlinkModes |-> NextCount(m, LedBeat[m])]
        /\ ledPhase' = phase
        /\ ledHigh' = {a \in Leds : LedLine(a, a \in ledStatus')}
        /\ ledStatus' = Blinked \ LedBeating("heart") \/ ledStatus' = Blinked \cup LedBeating("heart")
        /\ UNCHANGED <<ledMask, ledMutex, ledPc, ledCall, ledReg, ledRow, ledAsked, ledOvertaken>>
    BY DEF LedTick, ledThread, ledHistory
  <1>2. phase \in 0 .. 3
    BY DEF LedTypeOK
  <1>3. ledCount' \in [LedBlinkModes -> Nat]
    <2>1. \A m \in LedBlinkModes : NextCount(m, LedBeat[m]) \in Nat
      BY DEF NextCount, LedTypeOK
    <2>2. QED
      BY <1>1, <2>1
  <1>4. \A m \in LedModes : LedBeating(m) \subseteq Leds
    BY DEF LedBeating, LedTypeOK
  <1>5. ledStatus' \subseteq Leds
    <2>1. LedBeating("slow") \subseteq Leds /\ LedBeating("fast") \subseteq Leds /\ LedBeating("heart") \subseteq Leds
      BY <1>4, LedPlaces
    <2>2. Blinked \subseteq Leds
      BY <2>1 DEF Blinked, Flip, LedTypeOK
    <2>3. QED
      BY <1>1, <2>1, <2>2
  <1>6. LedThreadsTyped'
    BY <1>1, LedTyped DEF LedThreadsTyped
  <1>7. LedDataTyped'
    BY <1>1, <1>2, <1>3, <1>5, LedTyped DEF LedDataTyped
  <1>8. QED
    BY <1>6, <1>7, LedTypedNext

\* Every step keeps the types.
LEMMA LedNextTyped == LedTypeOK /\ [LedNext]_ledVars => LedTypeOK'
  <1> SUFFICES ASSUME LedTypeOK, [LedNext]_ledVars PROVE LedTypeOK'
    OBVIOUS
  <1>1. CASE UNCHANGED ledVars
    BY <1>1 DEF LedTypeOK, ledVars, ledMasks, ledTimer, ledThread, ledHistory
  <1>2. ASSUME NEW u \in LedThreads, LedStep(u) PROVE LedTypeOK'
    BY <1>2, LedStartTyped, LedEnterTyped, LedRefuseTyped, LedReadFailsTyped, LedSetMaskTyped, LedLoadStatusTyped,
       LedStoreStatusTyped, LedLatchTyped, LedDriveTyped, LedReadLineTyped, LedSyncTyped,
       LedSyncStoreTyped DEF LedStep
  <1>3. QED
    BY <1>1, <1>2, LedTickTyped DEF LedNext

-----------------------------------------------------------------------------
(* Who has the mutex, and what the invariant says when it is known.        *)

\* The others are not inside.
LedHolds(u) == \A t \in LedThreads \ {u} : ledPc[t] \in {"idle", "enter", "sync"} /\ ~LedSetter(t)
LedSole(u) ==
  LedHolds(u) /\ LedSetter(u) /\ LedBeingSet = ledCall[u].mask /\ ledPc[u] \in LedSetLabels
LedNobody == (\A t \in LedThreads : ~LedSetter(t)) /\ LedBeingSet = {}

\* The thread at a place inside has the mutex.
LEMMA LedHolder ==
  LedTypeOK /\ LedLabelsInv =>
    /\ \A u \in LedThreads : ledMutex = u => LedHolds(u)
    /\ \A u \in LedThreads : ledPc[u] \in LedSetLabels => ledMutex = u /\ LedSole(u)
    /\ \A u \in LedThreads : ledPc[u] = "syncStore" => ledMutex = u /\ LedHolds(u) /\ LedNobody
    /\ ledMutex = NoLedCall =>
         LedNobody /\ \A t \in LedThreads : ledPc[t] \in {"idle", "enter", "sync"}
  <1> SUFFICES ASSUME LedTypeOK, LedLabelsInv
               PROVE  /\ \A u \in LedThreads : ledMutex = u => LedHolds(u)
                      /\ \A u \in LedThreads : ledPc[u] \in LedSetLabels => ledMutex = u /\ LedSole(u)
                      /\ \A u \in LedThreads : ledPc[u] = "syncStore" => ledMutex = u /\ LedHolds(u) /\ LedNobody
                      /\ ledMutex = NoLedCall =>
                           LedNobody /\ \A t \in LedThreads : ledPc[t] \in {"idle", "enter", "sync"}
    OBVIOUS
  <1>1. \A t \in LedThreads : ledMutex = t <=> ledPc[t] \notin {"idle", "enter", "sync"}
    BY DEF LedTypeOK
  <1>2. ASSUME NEW u \in LedThreads, ledMutex = u PROVE LedHolds(u)
    BY <1>1, <1>2 DEF LedHolds, LedSetter
  <1>3. ASSUME NEW u \in LedThreads, ledPc[u] \in LedSetLabels PROVE ledMutex = u /\ LedSole(u)
    <2>1. ledMutex = u
      BY <1>3, LedOwner
    <2>2. LedSetter(u)
      BY <1>3, <2>1, LedPlaces DEF LedSetter, LedLabelsInv
    <2>3. {t \in LedThreads : ledMutex = t /\ ledCall[t].op = "set"} = {u}
      BY <2>1, <2>2 DEF LedSetter
    <2>4. LedBeingSet = UNION {ledCall[t].mask : t \in {u}}
      BY <2>3 DEF LedBeingSet
    <2>5. LedBeingSet = ledCall[u].mask
      BY <2>4
    <2>6. QED
      BY <1>2, <1>3, <2>1, <2>2, <2>5 DEF LedSole
  <1>4. ASSUME \A t \in LedThreads : ~LedSetter(t) PROVE LedNobody
    <2>1. {t \in LedThreads : ledMutex = t /\ ledCall[t].op = "set"} = {}
      BY <1>4 DEF LedSetter
    <2>2. LedBeingSet = UNION {ledCall[t].mask : t \in {}}
      BY <2>1 DEF LedBeingSet
    <2>3. LedBeingSet = {}
      BY <2>2
    <2>4. QED
      BY <1>4, <2>3 DEF LedNobody
  <1>5. ASSUME NEW u \in LedThreads, ledPc[u] = "syncStore" PROVE ledMutex = u /\ LedHolds(u) /\ LedNobody
    <2>1. ledMutex = u /\ LedHolds(u)
      BY <1>1, <1>2, <1>5
    <2>2. ~LedSetter(u)
      BY <1>5 DEF LedSetter, LedLabelsInv
    <2>3. QED
      BY <1>4, <2>1, <2>2 DEF LedHolds
  <1>6. ASSUME ledMutex = NoLedCall
        PROVE  LedNobody /\ \A t \in LedThreads : ledPc[t] \in {"idle", "enter", "sync"}
    BY <1>1, <1>4, <1>6, LedRows DEF LedSetter
  <1>7. QED
    BY <1>2, <1>3, <1>5, <1>6

\* The same in the next state.
LEMMA LedHolderNext ==
  LedTypeOK' /\ LedLabelsInv' =>
    /\ (\A u \in LedThreads : ledMutex = u => LedHolds(u))'
    /\ (\A u \in LedThreads : ledPc[u] \in LedSetLabels => ledMutex = u /\ LedSole(u))'
    /\ (\A u \in LedThreads : ledPc[u] = "syncStore" => ledMutex = u /\ LedHolds(u) /\ LedNobody)'
    /\ (ledMutex = NoLedCall =>
          LedNobody /\ \A t \in LedThreads : ledPc[t] \in {"idle", "enter", "sync"})'
  BY LedHolder, PTL

\* The set of lit LEDs, as the lines show it.
LedShown == {b \in Leds : LedShines(b)}

\* The invariant when u is inside a set.
LedMasksOf(u) == \A a \in Leds :
  IF a \in ledCall[u].mask /\ ledPc[u] \in {"slow", "fast", "heart", "load"}
    THEN LedChangingWell(u, a) ELSE LedInMode(a)
LedStatusOf(u) == \A a \in Leds :
  IF a \in ledCall[u].mask /\ ledPc[u] \in {"on", "slow", "fast", "heart", "load", "store"}
    THEN LedUnstoredWell(u, a) ELSE LedAgrees(ledStatus, a)
LedLoadedOf(u) == \A a \in Leds :
  /\ ledPc[u] = "store" /\ a \notin ledCall[u].mask => LedAgrees(ledReg[u], a)
  /\ ledPc[u] = "drive" => LedAgrees(ledReg[u], a)
LedLinesOf(u) == \A a \in Leds :
  \/ a \in ledCall[u].mask /\ (ledPc[u] = "drive" => a \notin LedDriven(u))
  \/ LedAgrees(LedShown, a)

\* The invariant when nobody is.
LedMasksFree == \A a \in Leds : LedInMode(a)
LedStatusFree == \A a \in Leds : LedAgrees(ledStatus, a)
LedLinesFree == \A a \in Leds : LedAgrees(LedShown, a)

\* The invariant, when it is known who is inside a set.
LEMMA LedSoleForm ==
  \A u \in LedThreads : LedSole(u) =>
    /\ LedMasksInv <=> LedMasksOf(u)
    /\ LedStatusInv <=> LedStatusOf(u)
    /\ LedLoadedInv <=> LedLoadedOf(u)
    /\ LedLinesInv <=> LedLinesOf(u)
  <1> SUFFICES ASSUME NEW u \in LedThreads, LedSole(u)
               PROVE  /\ LedMasksInv <=> LedMasksOf(u)
                      /\ LedStatusInv <=> LedStatusOf(u)
                      /\ LedLoadedInv <=> LedLoadedOf(u)
                      /\ LedLinesInv <=> LedLinesOf(u)
    OBVIOUS
  <1>1. LedSetter(u) /\ \A t \in LedThreads \ {u} : ~LedSetter(t) /\ ledPc[t] \in {"idle", "enter", "sync"}
    BY DEF LedSole, LedHolds
  <1>2. ASSUME NEW a \in Leds, NEW t \in LedThreads
        PROVE  /\ LedChanging(t, a) <=>
                    t = u /\ a \in ledCall[u].mask /\ ledPc[u] \in {"slow", "fast", "heart", "load"}
               /\ LedUnstored(t, a) <=>
                    t = u /\ a \in ledCall[u].mask /\ ledPc[u] \in {"on", "slow", "fast", "heart", "load", "store"}
               /\ LedUndriven(t, a) <=>
                    t = u /\ a \in ledCall[u].mask /\ (ledPc[u] = "drive" => a \notin LedDriven(u))
    BY <1>1, LedPlaces DEF LedChanging, LedUnstored, LedUndriven
  <1>3. LedMasksInv <=> LedMasksOf(u)
    BY <1>2 DEF LedMasksInv, LedMasksOf
  <1>4. LedStatusInv <=> LedStatusOf(u)
    BY <1>2 DEF LedStatusInv, LedStatusOf
  <1>5. LedLinesInv <=> LedLinesOf(u)
    BY <1>2 DEF LedLinesInv, LedLinesOf, LedShown
  <1>6. LedLoadedInv <=> LedLoadedOf(u)
    <2>1. ledPc[u] # "syncStore"
      BY LedPlaces DEF LedSole
    <2>2. QED
      BY <1>1, <2>1 DEF LedLoadedInv, LedLoadedOf
  <1>7. QED
    BY <1>3, <1>4, <1>5, <1>6

\* The same in the next state.
LEMMA LedSoleFormNext ==
  \A u \in LedThreads : LedSole(u)' =>
    /\ LedMasksInv' <=> LedMasksOf(u)'
    /\ LedStatusInv' <=> LedStatusOf(u)'
    /\ LedLoadedInv' <=> LedLoadedOf(u)'
    /\ LedLinesInv' <=> LedLinesOf(u)'
  <1>1. (\A u \in LedThreads : LedSole(u) =>
           /\ LedMasksInv <=> LedMasksOf(u)
           /\ LedStatusInv <=> LedStatusOf(u)
           /\ LedLoadedInv <=> LedLoadedOf(u)
           /\ LedLinesInv <=> LedLinesOf(u))'
    BY LedSoleForm, PTL
  <1>2. QED
    BY <1>1

\* The invariant, when nobody is.
LEMMA LedFreeForm ==
  LedNobody =>
    /\ LedMasksInv <=> LedMasksFree
    /\ LedStatusInv <=> LedStatusFree
    /\ LedLinesInv <=> LedLinesFree
    /\ (\A t \in LedThreads : ledPc[t] \in {"idle", "enter", "sync"}) => LedLoadedInv
  <1> SUFFICES ASSUME LedNobody
               PROVE  /\ LedMasksInv <=> LedMasksFree
                      /\ LedStatusInv <=> LedStatusFree
                      /\ LedLinesInv <=> LedLinesFree
                      /\ (\A t \in LedThreads : ledPc[t] \in {"idle", "enter", "sync"}) => LedLoadedInv
    OBVIOUS
  <1>1. \A t \in LedThreads : ~LedSetter(t)
    BY DEF LedNobody
  <1>2. \A t \in LedThreads : \A a \in Leds : ~LedChanging(t, a) /\ ~LedUnstored(t, a) /\ ~LedUndriven(t, a)
    BY <1>1 DEF LedChanging, LedUnstored, LedUndriven
  <1>3. LedMasksInv <=> LedMasksFree
    BY <1>2 DEF LedMasksInv, LedMasksFree
  <1>4. LedStatusInv <=> LedStatusFree
    BY <1>2 DEF LedStatusInv, LedStatusFree
  <1>5. LedLinesInv <=> LedLinesFree
    BY <1>2 DEF LedLinesInv, LedLinesFree, LedShown
  <1>6. (\A t \in LedThreads : ledPc[t] \in {"idle", "enter", "sync"}) => LedLoadedInv
    BY DEF LedLoadedInv
  <1>7. QED
    BY <1>3, <1>4, <1>5, <1>6

\* The same in the next state.
LEMMA LedFreeFormNext ==
  LedNobody' =>
    /\ LedMasksInv' <=> LedMasksFree'
    /\ LedStatusInv' <=> LedStatusFree'
    /\ LedLinesInv' <=> LedLinesFree'
    /\ (\A t \in LedThreads : ledPc[t] \in {"idle", "enter", "sync"})' => LedLoadedInv'
  BY LedFreeForm, PTL

-----------------------------------------------------------------------------
(* What a step leaves alone.                                               *)

\* The other threads stay where they are, with what they have.
LedOthersStay(u) == \A t \in LedThreads \ {u} :
  ledPc'[t] = ledPc[t] /\ ledCall'[t] = ledCall[t] /\ ledReg'[t] = ledReg[t] /\ ledRow'[t] = ledRow[t]

\* Nothing is asked of a LED, and its modes stay.
LedStays(a) == ledAsked'[a] = ledAsked[a] /\ \A m \in LedModes : a \in ledMask'[m] <=> a \in ledMask[m]

LedAgreesNext(S, a) == a \notin LedBlinking' \cup ledOvertaken' => (a \in S <=> ledAsked'[a] = "lit")

\* A LED blinks when it is in one of the three masks.
LEMMA LedBlinkingIs ==
  \A a : a \in LedBlinking <=> \E m \in LedBlinkModes : a \in ledMask[m]
  BY DEF LedBlinking

\* The same in the next state.
LEMMA LedBlinkingIsNext ==
  \A a : a \in LedBlinking' <=> \E m \in LedBlinkModes : a \in ledMask'[m]
  BY DEF LedBlinking

\* A LED that is left alone keeps its mode.
LEMMA LedStaysInMode ==
  ASSUME NEW a \in Leds, LedStays(a)
  PROVE  /\ a \in LedBlinking' <=> a \in LedBlinking
         /\ LedInMode(a)' <=> LedInMode(a)
  <1>1. a \in LedBlinking' <=> a \in LedBlinking
    BY LedBlinkingIs, LedBlinkingIsNext, LedPlaces DEF LedStays
  <1>2. LedInMode(a)' <=> LedInMode(a)
    BY <1>1 DEF LedStays, LedInMode
  <1>3. QED
    BY <1>1, <1>2

\* What agreed still does, on a LED that is left alone.
LEMMA LedStaysAgreed ==
  ASSUME NEW a \in Leds, LedStays(a), a \in ledOvertaken => a \in ledOvertaken',
         NEW S, NEW T, a \in T <=> a \in S, LedAgrees(S, a)
  PROVE  LedAgreesNext(T, a)
  <1>1. a \in LedBlinking' <=> a \in LedBlinking
    BY LedStaysInMode
  <1>2. ledAsked'[a] = ledAsked[a]
    BY DEF LedStays
  <1>3. QED
    BY <1>1, <1>2 DEF LedAgrees, LedAgreesNext

\* Agreement in the next state, with the primes where the values are.
LEMMA LedAgreesPrimed ==
  /\ \A a : LedAgrees(ledStatus, a)' <=> LedAgreesNext(ledStatus', a)
  /\ \A a : LedAgrees(LedShown, a)' <=> LedAgreesNext(LedShown', a)
  /\ \A a, t : LedAgrees(ledReg[t], a)' <=> LedAgreesNext(ledReg'[t], a)
  BY DEF LedAgrees, LedAgreesNext

\* A LED shines when its line is at its active level.
LEMMA LedShownIs ==
  \A a \in Leds : a \in LedShown <=> (a \in ledHigh <=> a \in LedActiveHigh)
  BY DEF LedShown, LedShines, LedLine

\* The same in the next state.
LEMMA LedShownIsNext ==
  \A a \in Leds : a \in LedShown' <=> (a \in ledHigh' <=> a \in LedActiveHigh)
  BY DEF LedShown, LedShines, LedLine

\* Readers that wait for the mutex keep what they know while a set goes on.
LEMMA LedReadKept ==
  ASSUME NEW u \in LedThreads, LedReadInv, LedOthersStay(u), ledPc'[u] # "sync",
         LedBeingSet' \subseteq LedBeingSet, ledOvertaken' = ledOvertaken,
         \A a \in Leds \ LedBeingSet : LedStays(a)
  PROVE  LedReadInv'
  <1> SUFFICES ASSUME NEW t \in LedThreads, NEW a \in Leds, ledPc'[t] = "sync", a \in ledCall'[t].mask
               PROVE  LedAgreesNext(ledReg'[t], a) /\ (a \in LedBeingSet' => a \in ledOvertaken')
    BY LedAgreesPrimed DEF LedReadInv
  <1>1. t # u
    OBVIOUS
  <1>2. ledPc[t] = "sync" /\ a \in ledCall[t].mask /\ ledReg'[t] = ledReg[t]
    BY <1>1 DEF LedOthersStay
  <1>3. LedAgrees(ledReg[t], a) /\ (a \in LedBeingSet => a \in ledOvertaken)
    BY <1>2 DEF LedReadInv
  <1>4. CASE a \in LedBeingSet
    BY <1>3, <1>4 DEF LedAgreesNext
  <1>5. CASE a \notin LedBeingSet
    <2>1. LedStays(a)
      BY <1>5
    <2>2. LedAgreesNext(ledReg'[t], a)
      BY <2>1, <1>2, <1>3, LedStaysAgreed
    <2>3. QED
      BY <2>2, <1>5
  <1>6. QED
    BY <1>4, <1>5

\* Labels: a step of u that takes it to a place that suits its call.
LEMMA LedLabelsKept ==
  ASSUME NEW u \in LedThreads, LedLabelsInv, LedOthersStay(u),
         /\ ledPc'[u] \in LedModes \cup {"load", "store", "latch", "drive"} =>
              ledCall'[u].op = "set" /\ ledCall'[u].action # "invalid"
         /\ ledPc'[u] \in {"load", "store"} => ledCall'[u].action \in LedSteady
         /\ ledPc'[u] \in {"sync", "syncStore"} => ledCall'[u].op = "get"
         /\ ledPc'[u] = "sync" => ledReg'[u] \subseteq ledCall'[u].mask
         /\ ledPc'[u] # "drive" => ledRow'[u] = 0
  PROVE  LedLabelsInv'
  BY DEF LedLabelsInv, LedOthersStay

-----------------------------------------------------------------------------
(* The steps, one by one.                                                  *)

\* Where the threads are after one of them has moved.
LEMMA LedGotoValues ==
  ASSUME LedTypeOK, NEW u \in LedThreads, NEW l, LedGoto(u, l)
  PROVE  ledPc'[u] = l /\ \A t \in LedThreads \ {u} : ledPc'[t] = ledPc[t]
  BY DEF LedTypeOK, LedGoto

\* What is left of a call that returned.
LEMMA LedReturnValues ==
  ASSUME LedTypeOK, NEW u \in LedThreads, LedReturn(u)
  PROVE  /\ ledPc'[u] = "idle" /\ ledMutex' = NoLedCall /\ ledRow'[u] = 0 /\ LedOthersStay(u)
  <1>1. /\ ledPc \in [LedThreads -> LedLabels] /\ DOMAIN ledCall = LedThreads
        /\ ledReg \in [LedThreads -> SUBSET Leds] /\ ledRow \in [LedThreads -> 0 .. Len(LedList) - 1]
    BY DEF LedTypeOK
  <1>2. /\ ledPc' = [ledPc EXCEPT ![u] = "idle"] /\ ledCall' = [ledCall EXCEPT ![u] = NoLedCall]
        /\ ledReg' = [ledReg EXCEPT ![u] = {}] /\ ledRow' = [ledRow EXCEPT ![u] = 0]
        /\ ledMutex' = NoLedCall
    BY DEF LedReturn, LedGoto, LedLoad
  <1>3. QED
    BY <1>1, <1>2 DEF LedOthersStay

\* A step outside the critical section, which at most marks LEDs overtaken.
LEMMA LedQuiet ==
  ASSUME LedIInv, NEW u \in LedThreads, LedOthersStay(u),
         ledPc[u] \in {"idle", "enter", "sync"}, ledPc'[u] \in {"idle", "enter", "sync"},
         UNCHANGED <<ledMask, ledStatus, ledHigh, ledMutex, ledAsked>>,
         ledOvertaken \subseteq ledOvertaken'
  PROVE  LedBeingSet' = LedBeingSet /\ LedMasksInv' /\ LedStatusInv' /\ LedLoadedInv' /\ LedLinesInv'
  <1>1. ledMutex # u
    BY DEF LedIInv, LedTypeOK
  <1>2. \A t \in LedThreads : LedSetter(t)' <=> LedSetter(t)
    BY <1>1 DEF LedSetter, LedOthersStay
  <1>3. \A t \in LedThreads : LedSetter(t) =>
          t # u /\ ledPc'[t] = ledPc[t] /\ ledCall'[t] = ledCall[t] /\ ledReg'[t] = ledReg[t] /\ ledRow'[t] = ledRow[t]
    BY <1>1 DEF LedSetter, LedOthersStay
  <1>4. LedBeingSet' = LedBeingSet
    <2>1. LedBeingSet = UNION {ledCall[t].mask : t \in {v \in LedThreads : LedSetter(v)}}
      BY DEF LedBeingSet, LedSetter
    <2>2. LedBeingSet' = UNION {ledCall'[t].mask : t \in {v \in LedThreads : LedSetter(v)'}}
      BY DEF LedBeingSet, LedSetter
    <2>3. \A t \in {v \in LedThreads : LedSetter(v)} : ledCall'[t].mask = ledCall[t].mask
      BY <1>3
    <2>4. {v \in LedThreads : LedSetter(v)'} = {v \in LedThreads : LedSetter(v)}
      BY <1>2
    <2>5. QED
      BY <2>1, <2>2, <2>3, <2>4
  <1>5. \A t \in LedThreads, a \in Leds :
          /\ LedChanging(t, a)' <=> LedChanging(t, a)
          /\ LedUnstored(t, a)' <=> LedUnstored(t, a)
          /\ LedUndriven(t, a)' <=> LedUndriven(t, a)
    <2> SUFFICES ASSUME NEW t \in LedThreads, NEW a \in Leds
                 PROVE  /\ LedChanging(t, a)' <=> LedChanging(t, a)
                        /\ LedUnstored(t, a)' <=> LedUnstored(t, a)
                        /\ LedUndriven(t, a)' <=> LedUndriven(t, a)
      OBVIOUS
    <2>1. CASE LedSetter(t)
      <3>1. LedSetter(t)' /\ ledPc'[t] = ledPc[t] /\ ledCall'[t] = ledCall[t] /\ ledRow'[t] = ledRow[t]
        BY <2>1, <1>2, <1>3
      <3>2. QED
        BY <2>1, <3>1 DEF LedChanging, LedUnstored, LedUndriven, LedDriven
    <2>2. CASE ~LedSetter(t)
      BY <2>2, <1>2 DEF LedChanging, LedUnstored, LedUndriven
    <2>3. QED
      BY <2>1, <2>2
  <1>6. \A a \in Leds : LedStays(a)
    BY DEF LedStays
  <1>7. \A a \in Leds : LedInMode(a)' <=> LedInMode(a)
    BY <1>6, LedStaysInMode
  <1>8. ASSUME NEW a \in Leds, NEW S, LedAgrees(S, a) PROVE LedAgreesNext(S, a)
    BY <1>6, <1>8, LedStaysAgreed
  <1>9. LedMasksInv'
    <2>1. \A t \in LedThreads, a \in Leds : LedChanging(t, a) /\ LedChangingWell(t, a) => LedChangingWell(t, a)'
      <3> SUFFICES ASSUME NEW t \in LedThreads, NEW a \in Leds, LedChanging(t, a), LedChangingWell(t, a)
                   PROVE  LedChangingWell(t, a)'
        OBVIOUS
      <3>1. ledPc'[t] = ledPc[t] /\ ledCall'[t] = ledCall[t]
        BY <1>3 DEF LedChanging
      <3>2. a \in LedBlinking' <=> a \in LedBlinking
        BY <1>6, LedStaysInMode
      <3>3. QED
        BY <3>1, <3>2 DEF LedChangingWell
    <2>2. QED
      BY <2>1, <1>5, <1>7 DEF LedIInv, LedMasksInv
  <1>10. LedStatusInv'
    <2>1. \A t \in LedThreads, a \in Leds : LedUnstored(t, a) /\ LedUnstoredWell(t, a) => LedUnstoredWell(t, a)'
      <3> SUFFICES ASSUME NEW t \in LedThreads, NEW a \in Leds, LedUnstored(t, a), LedUnstoredWell(t, a)
                   PROVE  LedUnstoredWell(t, a)'
        OBVIOUS
      <3>1. ledPc'[t] = ledPc[t] /\ ledCall'[t] = ledCall[t] /\ ledReg'[t] = ledReg[t]
        BY <1>3 DEF LedUnstored
      <3>2. LedAgrees(ledStatus, a) => LedAgrees(ledStatus, a)'
        BY <1>8, LedAgreesPrimed
      <3>3. QED
        BY <3>1, <3>2 DEF LedUnstoredWell
    <2>2. \A a \in Leds : LedAgrees(ledStatus, a) => LedAgrees(ledStatus, a)'
      BY <1>8, LedAgreesPrimed
    <2>3. QED
      BY <2>1, <2>2, <1>5 DEF LedIInv, LedStatusInv
  <1>11. LedLoadedInv'
    <2> SUFFICES ASSUME NEW t \in LedThreads, NEW a \in Leds
                 PROVE  /\ ledPc'[t] = "store" /\ a \notin ledCall'[t].mask => LedAgrees(ledReg[t], a)'
                        /\ ledPc'[t] \in {"drive", "syncStore"} => LedAgrees(ledReg[t], a)'
      BY DEF LedLoadedInv
    <2>1. CASE t = u
      BY <2>1
    <2>2. CASE t # u
      <3>1. ledPc'[t] = ledPc[t] /\ ledCall'[t] = ledCall[t] /\ ledReg'[t] = ledReg[t]
        BY <2>2 DEF LedOthersStay
      <3>2. LedAgrees(ledReg[t], a) => LedAgrees(ledReg[t], a)'
        BY <3>1, <1>8, LedAgreesPrimed
      <3>3. QED
        BY <3>1, <3>2 DEF LedIInv, LedLoadedInv
    <2>3. QED
      BY <2>1, <2>2
  <1>12. LedLinesInv'
    <2>1. LedShown' = LedShown
      BY DEF LedShown, LedShines
    <2>2. \A a \in Leds : LedAgrees(LedShown, a) => LedAgrees(LedShown, a)'
      BY <2>1, <1>8, LedAgreesPrimed
    <2>3. QED
      BY <2>2, <1>5 DEF LedIInv, LedLinesInv, LedShown
  <1>13. QED
    BY <1>4, <1>9, <1>10, <1>11, <1>12

\* A thread calls.
LEMMA LedStartInv == ASSUME LedIInv, NEW u \in LedThreads, LedStart(u) PROVE LedIInv'
  <1>1. LedTypeOK /\ LedTypeOK'
    BY LedStartTyped DEF LedIInv
  <1>2. PICK c \in LedCallsOf[u] : ledCall' = [ledCall EXCEPT ![u] = c]
    BY DEF LedStart
  <1>3. /\ ledPc[u] = "idle" /\ LedGoto(u, "enter")
        /\ UNCHANGED <<ledMask, ledStatus, ledHigh, ledMutex, ledReg, ledRow, ledAsked, ledOvertaken>>
    BY DEF LedStart, ledMasks, ledHistory
  <1>4. ledPc'[u] = "enter" /\ LedOthersStay(u)
    BY <1>1, <1>2, <1>3, LedGotoValues DEF LedOthersStay, LedTypeOK
  <1>5. ledRow'[u] = 0
    BY <1>3 DEF LedIInv, LedLabelsInv
  <1>6. LedLabelsInv'
    BY <1>4, <1>5, LedLabelsKept, LedPlaces DEF LedIInv
  <1>7. LedBeingSet' = LedBeingSet /\ LedMasksInv' /\ LedStatusInv' /\ LedLoadedInv' /\ LedLinesInv'
    BY <1>3, <1>4, LedQuiet
  <1>8. LedReadInv'
    BY <1>3, <1>4, <1>7, LedReadKept DEF LedIInv, LedStays
  <1>9. QED
    BY <1>1, <1>6, <1>7, <1>8 DEF LedIInv

\* An unknown action is refused: nothing has changed.
LEMMA LedRefuseInv == ASSUME LedIInv, NEW u \in LedThreads, LedRefuse(u) PROVE LedIInv'
  <1>1. LedTypeOK /\ LedTypeOK'
    BY LedRefuseTyped DEF LedIInv
  <1>2. /\ ledPc[u] = "enter" /\ ledMutex = NoLedCall /\ LedReturn(u)
        /\ UNCHANGED <<ledMask, ledStatus, ledHigh, ledAsked, ledOvertaken>>
    BY DEF LedRefuse, ledMasks, ledHistory
  <1>3. ledPc'[u] = "idle" /\ ledMutex' = ledMutex /\ ledRow'[u] = 0 /\ LedOthersStay(u)
    BY <1>1, <1>2, LedReturnValues
  <1>4. LedLabelsInv'
    BY <1>3, LedLabelsKept, LedPlaces DEF LedIInv
  <1>5. LedBeingSet' = LedBeingSet /\ LedMasksInv' /\ LedStatusInv' /\ LedLoadedInv' /\ LedLinesInv'
    BY <1>2, <1>3, LedQuiet
  <1>6. LedReadInv'
    BY <1>2, <1>3, <1>5, LedReadKept DEF LedIInv, LedStays
  <1>7. QED
    BY <1>1, <1>4, <1>5, <1>6 DEF LedIInv

\* A line that cannot be read: nothing has changed.
LEMMA LedReadFailsInv == ASSUME LedIInv, NEW u \in LedThreads, LedReadFails(u) PROVE LedIInv'
  <1>1. LedTypeOK /\ LedTypeOK'
    BY LedReadFailsTyped DEF LedIInv
  <1>2. /\ ledPc[u] = "enter" /\ LedGoto(u, "idle") /\ ledCall' = [ledCall EXCEPT ![u] = NoLedCall]
        /\ UNCHANGED <<ledMask, ledStatus, ledHigh, ledMutex, ledReg, ledRow, ledAsked, ledOvertaken>>
    BY DEF LedReadFails, ledMasks, ledHistory
  <1>3. ledPc'[u] = "idle" /\ LedOthersStay(u)
    BY <1>1, <1>2, LedGotoValues DEF LedOthersStay, LedTypeOK
  <1>4. ledRow'[u] = 0
    BY <1>2 DEF LedIInv, LedLabelsInv
  <1>5. LedLabelsInv'
    BY <1>3, <1>4, LedLabelsKept, LedPlaces DEF LedIInv
  <1>6. LedBeingSet' = LedBeingSet /\ LedMasksInv' /\ LedStatusInv' /\ LedLoadedInv' /\ LedLinesInv'
    BY <1>2, <1>3, LedQuiet
  <1>7. LedReadInv'
    BY <1>2, <1>3, <1>6, LedReadKept DEF LedIInv, LedStays
  <1>8. QED
    BY <1>1, <1>5, <1>6, <1>7 DEF LedIInv

\* led_get_status reads a line: it shows what was asked for, or the LED is
\* being set and the reader is overtaken.
LEMMA LedReadLineInv == ASSUME LedIInv, NEW u \in LedThreads, LedReadLine(u) PROVE LedIInv'
  <1>1. LedTypeOK /\ LedTypeOK'
    BY LedReadLineTyped DEF LedIInv
  <1>2. /\ ledPc[u] = "enter" /\ ledCall[u].op = "get" /\ LedGoto(u, "sync")
        /\ LedLoad(u, {a \in ledCall[u].mask : LedShines(a)})
        /\ ledOvertaken' = ledOvertaken \cup (ledCall[u].mask \cap LedBeingSet)
        /\ UNCHANGED <<ledMask, ledStatus, ledHigh, ledMutex, ledCall, ledRow, ledAsked>>
    BY DEF LedReadLine, ledMasks
  <1>3. ledCall[u].mask \subseteq Leds
    BY <1>1, <1>2, LedBusy
  <1>4. /\ ledReg'[u] = {a \in ledCall[u].mask : LedShines(a)}
        /\ \A t \in LedThreads \ {u} : ledReg'[t] = ledReg[t]
    <2>1. {a \in ledCall[u].mask : LedShines(a)} \in SUBSET Leds
      BY <1>3
    <2>2. QED
      BY <2>1, <1>1, <1>2, LedTyped, LedLoadTyped
  <1>5. ledPc'[u] = "sync" /\ LedOthersStay(u)
    BY <1>1, <1>2, <1>4, LedGotoValues DEF LedOthersStay
  <1>6. LedLabelsInv'
    <2>1. ledRow'[u] = 0 /\ ledCall'[u].op = "get" /\ ledReg'[u] \subseteq ledCall'[u].mask
      BY <1>2, <1>4 DEF LedIInv, LedLabelsInv
    <2>2. QED
      BY <1>5, <2>1, LedLabelsKept, LedPlaces DEF LedIInv
  <1>7. LedBeingSet' = LedBeingSet /\ LedMasksInv' /\ LedStatusInv' /\ LedLoadedInv' /\ LedLinesInv'
    BY <1>2, <1>5, LedQuiet
  <1>8. LedReadInv'
    <2> SUFFICES ASSUME NEW t \in LedThreads, NEW a \in Leds, ledPc'[t] = "sync", a \in ledCall'[t].mask
                 PROVE  LedAgreesNext(ledReg'[t], a) /\ (a \in LedBeingSet => a \in ledOvertaken')
      BY <1>7, LedAgreesPrimed DEF LedReadInv
    <2>1. LedStays(a) /\ (a \in ledOvertaken => a \in ledOvertaken')
      BY <1>2 DEF LedStays
    <2>2. CASE t = u
      <3>1. a \in LedBeingSet => a \in ledOvertaken'
        BY <2>2, <1>2
      <3>2. CASE a \in LedBeingSet
        BY <3>1, <3>2 DEF LedAgreesNext
      <3>3. CASE a \notin LedBeingSet
        <4>1. \A v \in LedThreads : ~LedUndriven(v, a)
          BY <3>3 DEF LedUndriven, LedSetter, LedBeingSet
        <4>2. LedAgrees(LedShown, a)
          BY <4>1 DEF LedIInv, LedLinesInv, LedShown
        <4>3. a \in ledReg'[u] <=> a \in LedShown
          BY <2>2, <1>2, <1>4 DEF LedShown
        <4>4. LedAgreesNext(ledReg'[u], a)
          BY <2>1, <4>2, <4>3, LedStaysAgreed
        <4>5. QED
          BY <2>2, <4>4, <3>3
      <3>4. QED
        BY <3>2, <3>3
    <2>3. CASE t # u
      <3>1. ledPc[t] = "sync" /\ a \in ledCall[t].mask /\ ledReg'[t] = ledReg[t]
        BY <2>3, <1>5 DEF LedOthersStay
      <3>2. LedAgrees(ledReg[t], a) /\ (a \in LedBeingSet => a \in ledOvertaken)
        BY <3>1 DEF LedIInv, LedReadInv
      <3>3. LedAgreesNext(ledReg'[t], a)
        BY <2>1, <3>1, <3>2, LedStaysAgreed
      <3>4. QED
        BY <2>1, <3>2, <3>3
    <2>4. QED
      BY <2>2, <2>3
  <1>9. QED
    BY <1>1, <1>6, <1>7, <1>8 DEF LedIInv

\* A set begins: it changes nothing yet, and overtakes the readers of its LEDs.
LEMMA LedEnterInv == ASSUME LedIInv, NEW u \in LedThreads, LedEnter(u) PROVE LedIInv'
  <1>1. LedTypeOK /\ LedTypeOK' /\ LedLabelsInv
    BY LedEnterTyped DEF LedIInv
  <1>2. /\ ledPc[u] = "enter" /\ ledCall[u].op = "set" /\ ledCall[u].action # "invalid"
        /\ ledMutex = NoLedCall /\ LedGoto(u, "on")
        /\ UNCHANGED <<ledMask, ledStatus, ledHigh, ledCall, ledReg, ledRow, ledAsked>>
    BY DEF LedEnter, ledMasks
  <1>3. ledOvertaken' = (ledOvertaken \ (IF ledCall[u].action = "toggle" THEN {} ELSE ledCall[u].mask))
                          \cup (ledCall[u].mask \cap LedBeingRead)
    BY DEF LedEnter
  <1>4. ledPc'[u] = "on" /\ LedOthersStay(u)
    BY <1>1, <1>2, LedGotoValues DEF LedOthersStay
  <1>5. LedLabelsInv'
    <2>1. ledRow'[u] = 0
      BY <1>2 DEF LedIInv, LedLabelsInv
    <2>2. QED
      BY <1>2, <1>4, <2>1, LedLabelsKept DEF LedIInv
  <1>6. LedSole(u)' /\ LedNobody
    BY <1>1, <1>2, <1>4, <1>5, LedHolder, LedHolderNext, LedPlaces
  <1>7. LedMasksFree /\ LedStatusFree /\ LedLinesFree
    BY <1>6, LedFreeForm DEF LedIInv
  <1>8. \A a \in Leds : LedStays(a)
    BY <1>2 DEF LedStays
  <1>9. \A a \in Leds : a \notin ledCall[u].mask \/ ledCall[u].action = "toggle" =>
          (a \in ledOvertaken => a \in ledOvertaken')
    BY <1>3
  <1>10. LedMasksOf(u)'
    <2>1. \A a \in Leds : LedInMode(a)'
      BY <1>7, <1>8, LedStaysInMode DEF LedMasksFree
    <2>2. QED
      BY <1>4, <2>1 DEF LedMasksOf
  <1>11. LedStatusOf(u)'
    <2> SUFFICES ASSUME NEW a \in Leds
                 PROVE  IF a \in ledCall'[u].mask THEN LedUnstoredWell(u, a)' ELSE LedAgrees(ledStatus, a)'
      BY <1>4 DEF LedStatusOf
    <2>1. a \notin ledCall[u].mask \/ ledCall[u].action = "toggle" => LedAgrees(ledStatus, a)'
      <3>1. LedAgrees(ledStatus, a) /\ LedStays(a)
        BY <1>7, <1>8 DEF LedStatusFree
      <3>2. a \in ledStatus' <=> a \in ledStatus
        BY <1>2
      <3>3. ASSUME a \notin ledCall[u].mask \/ ledCall[u].action = "toggle"
            PROVE  LedAgreesNext(ledStatus', a)
        BY <3>1, <3>2, <3>3, <1>9, LedStaysAgreed
      <3>4. QED
        BY <3>3, LedAgreesPrimed
    <2>2. QED
      BY <2>1, <1>2, <1>4 DEF LedUnstoredWell
  <1>12. LedLinesOf(u)'
    <2> SUFFICES ASSUME NEW a \in Leds, a \notin ledCall[u].mask PROVE LedAgrees(LedShown, a)'
      BY <1>2, <1>4 DEF LedLinesOf
    <2>1. LedAgrees(LedShown, a) /\ LedStays(a) /\ (a \in ledOvertaken => a \in ledOvertaken')
      BY <1>7, <1>8, <1>9 DEF LedLinesFree
    <2>2. a \in LedShown' <=> a \in LedShown
      BY <1>2 DEF LedShown, LedShines
    <2>3. QED
      BY <2>1, <2>2, LedStaysAgreed, LedAgreesPrimed
  <1>13. LedLoadedOf(u)'
    BY <1>4 DEF LedLoadedOf
  <1>14. LedReadInv'
    <2> SUFFICES ASSUME NEW t \in LedThreads, NEW a \in Leds, ledPc'[t] = "sync", a \in ledCall'[t].mask
                 PROVE  LedAgreesNext(ledReg'[t], a) /\ (a \in LedBeingSet' => a \in ledOvertaken')
      BY LedAgreesPrimed DEF LedReadInv
    <2>1. t # u
      BY <1>4
    <2>2. ledPc[t] = "sync" /\ a \in ledCall[t].mask /\ ledReg'[t] = ledReg[t]
      BY <2>1, <1>4 DEF LedOthersStay
    <2>3. a \in LedBeingRead
      BY <2>2 DEF LedBeingRead, LedInside, LedIInv, LedLabelsInv
    <2>4. LedBeingSet' = ledCall[u].mask
      BY <1>2, <1>6 DEF LedSole
    <2>5. CASE a \in ledCall[u].mask
      BY <2>3, <2>5, <1>3 DEF LedAgreesNext
    <2>6. CASE a \notin ledCall[u].mask
      <3>1. LedAgrees(ledReg[t], a)
        BY <2>2 DEF LedIInv, LedReadInv
      <3>2. LedAgreesNext(ledReg'[t], a)
        BY <3>1, <2>2, <2>6, <1>8, <1>9, LedStaysAgreed
      <3>3. QED
        BY <3>2, <2>4, <2>6
    <2>7. QED
      BY <2>5, <2>6
  <1>15. QED
    BY <1>1, <1>5, <1>6, <1>10, <1>11, <1>12, <1>13, <1>14, LedSoleFormNext DEF LedIInv

\* What a step of the thread that sets leaves of the readers and the lines.
LEMMA LedSetterReads ==
  ASSUME LedIInv, NEW u \in LedThreads, LedSole(u), LedSole(u)' \/ LedNobody', LedOthersStay(u),
         ledPc'[u] # "sync", ledCall'[u] = ledCall[u] \/ LedNobody', ledOvertaken' = ledOvertaken,
         \A a \in Leds \ ledCall[u].mask : LedStays(a)
  PROVE  LedReadInv'
  <1>1. LedBeingSet = ledCall[u].mask /\ LedBeingSet' \subseteq LedBeingSet
    BY DEF LedSole, LedNobody
  <1>2. QED
    BY <1>1, LedReadKept DEF LedIInv

\* An assignment of a mask: the LEDs of other sets keep their modes, and one
\* of this set is in the modes passed exactly as its action says.
LEMMA LedSetMaskMode ==
  ASSUME LedIInv, NEW u \in LedThreads, NEW m \in LedModes, LedSetMask(u, m), LedMasksOf(u),
         ledPc'[u] = LedAfterMask(m, ledCall[u].action), NEW a \in ledCall[u].mask, a \in Leds
  PROVE  IF ledPc'[u] = "latch" THEN LedInMode(a)' ELSE LedChangingWell(u, a)'
  <1> DEFINE A == ledCall[u].action
  <1>1. LedTypeOK
    BY DEF LedIInv
  <1>2. /\ ledPc[u] = m /\ ledCall' = ledCall
        /\ \A n \in LedModes \ {m} : ledMask'[n] = ledMask[n]
        /\ ledMask'[m] = IF A = m THEN ledMask[m] \cup ledCall[u].mask
                         ELSE IF m = "on" /\ A = "toggle" THEN Flip(ledMask[m], ledCall[u].mask)
                         ELSE ledMask[m] \ ledCall[u].mask
    BY <1>1, LedSetMaskValues
  <1>3. ledAsked'[a] = IF m = "on" /\ A \in LedBlinkModes THEN "blink" ELSE ledAsked[a]
    BY <1>1, LedSetMaskAsked
  <1>4. m # "on" => (a \in ledMask'[m] <=> A = m)
    BY <1>2
  <1>5. m = "on" /\ A \in LedBlinkModes => a \notin ledMask'["on"]
    <2>1. A \in LedBlinkModes => A # "on" /\ A # "toggle"
      BY LedPlaces
    <2>2. QED
      BY <1>2, <2>1
  <1>6. \A n \in LedModes \ {m} : a \in ledMask'[n] <=> a \in ledMask[n]
    BY <1>2
  <1>7. CASE m = "on"
    <2>1. LedInMode(a)
      BY <1>2, <1>7 DEF LedMasksOf
    <2>2. ledPc'[u] = "slow"
      BY <1>7, LedAfterMaskPlace
    <2>3. a \in LedBlinking' <=> a \in LedBlinking
      BY <1>6, <1>7, LedBlinkingIs, LedBlinkingIsNext, LedPlaces
    <2>4. LedPassed("slow") = {}
      BY DEF LedPassed
    <2>5. LedChangingWell(u, a)'
      BY <2>1, <2>2, <2>3, <2>4, <1>2, <1>3, <1>5, <1>7 DEF LedChangingWell, LedInMode
    <2>6. QED
      BY <2>2, <2>5
  <1>8. CASE m # "on"
    <2>1. LedChangingWell(u, a)
      BY <1>2, <1>8, LedPlaces DEF LedMasksOf
    <2>2. ledAsked'[a] = ledAsked[a] /\ ledMask'["on"] = ledMask["on"]
      BY <1>2, <1>3, <1>8, LedPlaces
    <2>3. \A n \in LedPassed(m) \cup {m} : a \in ledMask'[n] <=> A = n
      <3>1. \A n \in LedPassed(m) : n \in LedModes /\ n # m /\ (a \in ledMask[n] <=> A = n)
        <4>1. \A n \in LedPassed(m) : n \in LedModes /\ n # m
          BY <1>8, LedPlaces DEF LedPassed
        <4>2. QED
          BY <4>1, <2>1, <1>2 DEF LedChangingWell
      <3>2. QED
        BY <3>1, <1>4, <1>6, <1>8
    <2>4. IF A \in LedBlinkModes
            THEN ledAsked'[a] = "blink" /\ a \notin ledMask'["on"]
            ELSE a \in LedBlinking' => ledAsked'[a] = "blink"
      <3>1. CASE A \in LedBlinkModes
        BY <3>1, <2>1, <2>2 DEF LedChangingWell
      <3>2. CASE A \notin LedBlinkModes
        <4>1. a \in LedBlinking' => a \in LedBlinking
          <5>1. A # m
            BY <3>2, <1>8, LedPlaces
          <5>2. a \notin ledMask'[m]
            BY <5>1, <1>4, <1>8
          <5>3. QED
            BY <5>2, <1>6, LedBlinkingIs, LedBlinkingIsNext, LedPlaces
        <4>2. QED
          BY <4>1, <3>2, <2>1, <2>2 DEF LedChangingWell
      <3>3. QED
        BY <3>1, <3>2
    <2>5. CASE m # "heart" \/ A \in LedSteady
      <3>1. ledPc'[u] # "latch" /\ LedPassed(ledPc'[u]) \subseteq LedPassed(m) \cup {m}
        BY <1>8, <2>5, LedAfterMaskPlace, LedPlaces DEF LedPassed
      <3>2. LedChangingWell(u, a)'
        BY <3>1, <2>3, <2>4, <1>2 DEF LedChangingWell
      <3>3. QED
        BY <3>1, <3>2
    <2>6. CASE m = "heart" /\ A \notin LedSteady
      <3>1. ledPc'[u] = "latch" /\ LedPassed(m) \cup {m} = LedBlinkModes
        BY <2>6, LedAfterMaskPlace, LedPlaces DEF LedPassed
      <3>2. A \in LedBlinkModes
        <4>1. ledCall[u].op = "set" /\ A # "invalid"
          BY <1>2 DEF LedIInv, LedLabelsInv
        <4>2. A \in LedActions
          BY <4>1, <1>1, <1>2, LedPlaces, LedBusy
        <4>3. QED
          BY <4>1, <4>2, <2>6 DEF LedActions
      <3>3. \A n \in LedModes : a \in ledMask'[n] <=> n = A
        BY <3>1, <3>2, <2>3, <2>4, LedPlaces
      <3>4. a \in LedBlinking' /\ ledAsked'[a] = "blink"
        BY <3>2, <3>3, <2>4, LedBlinkingIsNext, LedPlaces
      <3>5. LedInMode(a)'
        BY <3>3, <3>4 DEF LedInMode
      <3>6. QED
        BY <3>1, <3>5
    <2>7. QED
      BY <2>5, <2>6
  <1>9. QED
    BY <1>7, <1>8

\* A mask of modes is assigned.
LEMMA LedSetMaskInv ==
  ASSUME LedIInv, NEW u \in LedThreads, NEW m \in LedModes, LedSetMask(u, m) PROVE LedIInv'
  <1> DEFINE A == ledCall[u].action
             M == ledCall[u].mask
  <1>1. LedTypeOK /\ LedTypeOK' /\ LedLabelsInv
    BY LedSetMaskTyped DEF LedIInv
  <1>2. /\ ledPc[u] = m /\ LedGoto(u, LedAfterMask(m, A))
        /\ UNCHANGED <<ledStatus, ledHigh, ledMutex, ledCall, ledReg, ledRow, ledOvertaken>>
        /\ \A n \in LedModes \ {m} : ledMask'[n] = ledMask[n]
        /\ ledMask'[m] = IF A = m THEN ledMask[m] \cup M
                         ELSE IF m = "on" /\ A = "toggle" THEN Flip(ledMask[m], M) ELSE ledMask[m] \ M
    BY <1>1, LedSetMaskValues
  <1>3. ledPc'[u] = LedAfterMask(m, A) /\ LedOthersStay(u)
    BY <1>1, <1>2, LedGotoValues DEF LedOthersStay
  <1>4. ledPc[u] \in LedSetLabels /\ ledPc'[u] \in {"slow", "fast", "heart", "load", "latch"}
    BY <1>2, <1>3, LedAfterMaskPlace, LedPlaces
  <1>5. LedLabelsInv'
    <2>1. ledRow'[u] = 0 /\ ledCall'[u].op = "set" /\ A # "invalid" /\ ledCall'[u] = ledCall[u]
      BY <1>2, LedPlaces DEF LedIInv, LedLabelsInv
    <2>2. ledPc'[u] = "load" => A \in LedSteady
      <3>1. CASE m = "heart"
        BY <3>1, <1>3, LedAfterMaskPlace
      <3>2. CASE m # "heart"
        <4>1. m \in {"on", "slow", "fast"}
          BY <3>2, LedPlaces
        <4>2. LedAfterMask(m, A) \in {"slow", "fast", "heart"}
          BY <4>1, LedAfterMaskPlace
        <4>3. QED
          BY <4>2, <1>3
      <3>3. QED
        BY <3>1, <3>2
    <2>3. QED
      BY <1>3, <1>4, <2>1, <2>2, LedLabelsKept DEF LedIInv
  <1>6. LedSole(u) /\ LedSole(u)'
    BY <1>1, <1>4, <1>5, LedHolder, LedHolderNext, LedPlaces
  <1>7. LedMasksOf(u) /\ LedStatusOf(u) /\ LedLinesOf(u)
    BY <1>6, LedSoleForm DEF LedIInv
  <1>8. \A a \in Leds \ M : LedStays(a)
    <2> SUFFICES ASSUME NEW a \in Leds \ M, NEW n \in LedModes PROVE a \in ledMask'[n] <=> a \in ledMask[n]
      BY <1>1, LedSetMaskAsked DEF LedStays
    <2>1. CASE n = m
      BY <2>1, <1>2 DEF Flip
    <2>2. CASE n # m
      BY <2>2, <1>2
    <2>3. QED
      BY <2>1, <2>2
  <1>9. LedMasksOf(u)'
    <2> SUFFICES ASSUME NEW a \in Leds
                 PROVE  IF a \in M /\ ledPc'[u] \in {"slow", "fast", "heart", "load"}
                          THEN LedChangingWell(u, a)' ELSE LedInMode(a)'
      BY <1>2 DEF LedMasksOf
    <2>1. CASE a \in M
      BY <2>1, <1>3, <1>4, <1>7, LedSetMaskMode
    <2>2. CASE a \notin M
      <3>1. LedInMode(a)
        BY <2>2, <1>7 DEF LedMasksOf
      <3>2. QED
        BY <3>1, <2>2, <1>8, LedStaysInMode
    <2>3. QED
      BY <2>1, <2>2
  <1>10. ASSUME NEW a \in Leds \ M, NEW S, LedAgrees(S, a) PROVE LedAgreesNext(S, a)
    BY <1>2, <1>8, <1>10, LedStaysAgreed
  <1>11. LedStatusOf(u)'
    <2> SUFFICES ASSUME NEW a \in Leds
                 PROVE  IF a \in M /\ ledPc'[u] \in {"on", "slow", "fast", "heart", "load", "store"}
                          THEN LedUnstoredWell(u, a)' ELSE LedAgrees(ledStatus, a)'
      BY <1>2 DEF LedStatusOf
    <2>1. CASE a \notin M
      <3>1. LedAgrees(ledStatus, a)
        BY <2>1, <1>7 DEF LedStatusOf
      <3>2. LedAgreesNext(ledStatus', a)
        BY <3>1, <2>1, <1>2, <1>10
      <3>3. QED
        BY <3>2, <2>1, LedAgreesPrimed
    <2>2. CASE a \in M /\ ledPc'[u] = "latch"
      <3>1. LedInMode(a)'
        BY <2>2, <1>3, <1>7, LedSetMaskMode
      <3>2. a \in LedBlinking'
        <4>1. m = "heart" /\ A \notin LedSteady
          BY <2>2, <1>3, LedAfterMaskPlace, LedPlaces
        <4>2. LedChangingWell(u, a)
          BY <4>1, <2>2, <1>2, <1>7 DEF LedMasksOf
        <4>3. ledCall[u].op = "set" /\ A # "invalid" /\ A \in LedActions
          BY <1>1, <1>2, LedBusy, LedPlaces DEF LedLabelsInv
        <4>4. A \in LedBlinkModes
          BY <4>1, <4>3 DEF LedActions
        <4>5. ledAsked[a] = "blink"
          BY <4>2, <4>4 DEF LedChangingWell
        <4>6. ledAsked'[a] = "blink"
          BY <4>1, <4>5, <1>1, LedSetMaskAsked
        <4>7. QED
          BY <3>1, <4>6 DEF LedInMode
      <3>3. LedAgreesNext(ledStatus', a)
        BY <3>2 DEF LedAgreesNext
      <3>4. QED
        BY <3>3, <2>2, LedAgreesPrimed
    <2>3. CASE a \in M /\ ledPc'[u] # "latch"
      <3>1. ASSUME A = "toggle", ledAsked'[a] # "blink" PROVE LedAgreesNext(ledStatus', a)
        <4>1. ledAsked'[a] = ledAsked[a]
          <5>1. A \notin LedBlinkModes
            BY <3>1, LedPlaces
          <5>2. QED
            BY <5>1, <1>1, LedSetMaskAsked
        <4>2. LedUnstoredWell(u, a)
          BY <2>3, <1>2, <1>7, LedPlaces DEF LedStatusOf
        <4>3. LedAgrees(ledStatus, a)
          BY <4>1, <4>2, <3>1, <1>2, LedPlaces DEF LedUnstoredWell
        <4>4. a \notin LedBlinking
          <5>1. CASE m = "on"
            BY <5>1, <4>1, <3>1, <1>2, <1>7 DEF LedMasksOf, LedInMode
          <5>2. CASE m # "on"
            <6>1. LedChangingWell(u, a)
              BY <5>2, <2>3, <1>2, <1>7, LedPlaces DEF LedMasksOf
            <6>2. A \notin LedBlinkModes
              BY <3>1, LedPlaces
            <6>3. QED
              BY <6>1, <6>2, <4>1, <3>1 DEF LedChangingWell
          <5>3. QED
            BY <5>1, <5>2
        <4>5. QED
          BY <4>1, <4>3, <4>4, <1>2 DEF LedAgrees, LedAgreesNext
      <3>2. QED
        BY <3>1, <2>3, <1>2, <1>4, LedAgreesPrimed DEF LedUnstoredWell
    <2>4. QED
      BY <2>1, <2>2, <2>3
  <1>12. LedLinesOf(u)'
    <2> SUFFICES ASSUME NEW a \in Leds, a \notin M PROVE LedAgrees(LedShown, a)'
      BY <1>2, <1>4 DEF LedLinesOf
    <2>1. LedAgrees(LedShown, a)
      BY <1>7 DEF LedLinesOf
    <2>2. LedShown' = LedShown
      BY <1>2 DEF LedShown, LedShines
    <2>3. QED
      BY <2>1, <2>2, <1>10, LedAgreesPrimed
  <1>13. LedLoadedOf(u)'
    BY <1>4 DEF LedLoadedOf
  <1>14. LedReadInv'
    BY <1>2, <1>3, <1>4, <1>6, <1>8, LedSetterReads
  <1>15. QED
    BY <1>1, <1>5, <1>6, <1>9, <1>11, <1>12, <1>13, <1>14, LedSoleFormNext DEF LedIInv

\* What is asked for when the status is loaded.
LEMMA LedLoadStatusAsked ==
  ASSUME LedTypeOK, NEW u \in LedThreads, LedLoadStatus(u)
  PROVE  /\ ledPc[u] = "load" /\ LedGoto(u, "store") /\ ledReg'[u] = ledStatus
         /\ LedOthersStay(u)
         /\ UNCHANGED <<ledMask, ledStatus, ledHigh, ledMutex, ledCall, ledRow, ledOvertaken>>
         /\ \A a \in Leds : ledAsked'[a] =
              IF a \notin ledCall[u].mask THEN ledAsked[a]
              ELSE IF \/ ledCall[u].action = "on"
                      \/ ledCall[u].action = "toggle" /\ ledAsked[a] = "dark"
                      \/ ledCall[u].action = "toggle" /\ ledAsked[a] = "blink" /\ a \notin ledStatus
                THEN "lit" ELSE "dark"
  <1>1. /\ ledPc[u] = "load" /\ LedGoto(u, "store") /\ LedLoad(u, ledStatus)
        /\ UNCHANGED <<ledMask, ledStatus, ledHigh, ledMutex, ledCall, ledRow, ledOvertaken>>
    BY DEF LedLoadStatus, ledMasks
  <1>2. ledReg'[u] = ledStatus /\ \A t \in LedThreads \ {u} : ledReg'[t] = ledReg[t]
    BY <1>1, LedTyped, LedLoadTyped DEF LedTypeOK
  <1>3. LedOthersStay(u)
    BY <1>1, <1>2, LedGotoValues DEF LedOthersStay
  <1>4. \A a \in Leds : ledAsked'[a] =
          IF a \notin ledCall[u].mask THEN ledAsked[a]
          ELSE IF \/ ledCall[u].action = "on"
                  \/ ledCall[u].action = "toggle" /\ ledAsked[a] = "dark"
                  \/ ledCall[u].action = "toggle" /\ ledAsked[a] = "blink" /\ a \notin ledStatus
            THEN "lit" ELSE "dark"
    BY DEF LedLoadStatus
  <1>5. QED
    BY <1>1, <1>2, <1>3, <1>4

\* The status is loaded: what is asked for is decided here.
LEMMA LedLoadStatusInv ==
  ASSUME LedIInv, NEW u \in LedThreads, LedLoadStatus(u) PROVE LedIInv'
  <1> DEFINE A == ledCall[u].action
             M == ledCall[u].mask
  <1>1. LedTypeOK /\ LedTypeOK' /\ LedLabelsInv
    BY LedLoadStatusTyped DEF LedIInv
  <1>2. /\ ledPc[u] = "load" /\ LedGoto(u, "store") /\ ledReg'[u] = ledStatus /\ LedOthersStay(u)
        /\ UNCHANGED <<ledMask, ledStatus, ledHigh, ledMutex, ledCall, ledRow, ledOvertaken>>
    BY <1>1, LedLoadStatusAsked
  <1>3. \A a \in Leds : ledAsked'[a] =
          IF a \notin M THEN ledAsked[a]
          ELSE IF \/ A = "on"
                  \/ A = "toggle" /\ ledAsked[a] = "dark"
                  \/ A = "toggle" /\ ledAsked[a] = "blink" /\ a \notin ledStatus
            THEN "lit" ELSE "dark"
    BY <1>1, LedLoadStatusAsked
  <1>4. ledPc'[u] = "store" /\ ledPc[u] \in LedSetLabels /\ ledPc'[u] \in LedSetLabels
    BY <1>1, <1>2, LedGotoValues, LedPlaces
  <1>5. ledCall[u].op = "set" /\ A # "invalid" /\ A \in LedSteady /\ ledRow[u] = 0
    BY <1>1, <1>2 DEF LedLabelsInv
  <1>6. LedLabelsInv'
    BY <1>1, <1>2, <1>4, <1>5, LedLabelsKept
  <1>7. LedSole(u) /\ LedSole(u)'
    BY <1>1, <1>4, <1>6, LedHolder, LedHolderNext
  <1>8. LedMasksOf(u) /\ LedStatusOf(u) /\ LedLinesOf(u)
    BY <1>7, LedSoleForm DEF LedIInv
  <1>9. \A a \in Leds \ M : LedStays(a)
    BY <1>2, <1>3 DEF LedStays
  <1>10. ASSUME NEW a \in Leds \ M, NEW S, LedAgrees(S, a) PROVE LedAgreesNext(S, a)
    BY <1>2, <1>9, <1>10, LedStaysAgreed
  <1>11. ASSUME NEW a \in Leds, a \in M
         PROVE  a \notin LedBlinking /\ a \notin LedBlinking' /\ \A m \in LedBlinkModes : a \notin ledMask[m]
    <2>1. LedChangingWell(u, a)
      BY <1>2, <1>8, <1>11 DEF LedMasksOf
    <2>2. \A m \in LedBlinkModes : a \in ledMask[m] <=> A = m
      <3>1. LedPassed("load") = LedBlinkModes
        BY DEF LedPassed
      <3>2. QED
        BY <2>1, <3>1, <1>2 DEF LedChangingWell
    <2>3. A \notin LedBlinkModes
      BY <1>5, LedPlaces DEF LedSteady
    <2>4. QED
      BY <2>2, <2>3, <1>2, LedBlinkingIs, LedBlinkingIsNext
  <1>12. LedMasksOf(u)'
    <2> SUFFICES ASSUME NEW a \in Leds PROVE LedInMode(a)'
      BY <1>4 DEF LedMasksOf
    <2>1. CASE a \in M
      <3>1. ledAsked'[a] # "blink"
        BY <2>1, <1>3
      <3>2. QED
        BY <2>1, <3>1, <1>2, <1>11 DEF LedInMode
    <2>2. CASE a \notin M
      <3>1. LedInMode(a)
        BY <2>2, <1>8 DEF LedMasksOf
      <3>2. QED
        BY <3>1, <2>2, <1>9, LedStaysInMode
    <2>3. QED
      BY <2>1, <2>2
  <1>13. LedStatusOf(u)'
    <2> SUFFICES ASSUME NEW a \in Leds
                 PROVE  IF a \in M THEN LedUnstoredWell(u, a)' ELSE LedAgreesNext(ledStatus', a)
      BY <1>2, <1>4, LedAgreesPrimed DEF LedStatusOf
    <2>1. CASE a \in M
      <3>1. LedUnstoredWell(u, a)
        BY <2>1, <1>2, <1>8 DEF LedStatusOf
      <3>2. A = "toggle" /\ ledAsked[a] # "blink" /\ a \notin ledOvertaken =>
              (a \in ledStatus <=> ledAsked[a] = "lit")
        BY <2>1, <3>1, <1>2, <1>11 DEF LedUnstoredWell, LedAgrees
      <3>3. ledAsked[a] \in {"lit", "dark", "blink"}
        BY <1>1 DEF LedTypeOK
      <3>4. a \notin ledOvertaken => (ledAsked'[a] = "lit" <=> A = "on" \/ (A = "toggle" /\ a \notin ledStatus))
        BY <2>1, <3>2, <3>3, <1>3
      <3>5. QED
        BY <2>1, <3>4, <1>2, <1>4 DEF LedUnstoredWell
    <2>2. CASE a \notin M
      <3>1. LedAgrees(ledStatus, a)
        BY <2>2, <1>8 DEF LedStatusOf
      <3>2. QED
        BY <2>2, <3>1, <1>2, <1>10
    <2>3. QED
      BY <2>1, <2>2
  <1>14. LedLoadedOf(u)'
    <2> SUFFICES ASSUME NEW a \in Leds, a \notin M PROVE LedAgreesNext(ledReg'[u], a)
      BY <1>2, <1>4, LedAgreesPrimed DEF LedLoadedOf
    <2>1. LedAgrees(ledStatus, a)
      BY <1>8 DEF LedStatusOf
    <2>2. QED
      BY <2>1, <1>2, <1>10
  <1>15. LedLinesOf(u)'
    <2> SUFFICES ASSUME NEW a \in Leds, a \notin M PROVE LedAgreesNext(LedShown', a)
      BY <1>2, <1>4, LedAgreesPrimed DEF LedLinesOf
    <2>1. LedAgrees(LedShown, a)
      BY <1>8 DEF LedLinesOf
    <2>2. LedShown' = LedShown
      BY <1>2 DEF LedShown, LedShines
    <2>3. QED
      BY <2>1, <2>2, <1>10
  <1>16. LedReadInv'
    BY <1>2, <1>4, <1>7, <1>9, LedSetterReads
  <1>17. QED
    BY <1>1, <1>6, <1>7, <1>12, <1>13, <1>14, <1>15, <1>16, LedSoleFormNext DEF LedIInv

\* The status is stored: it is what was asked for, and for the LEDs of others
\* what it was, although the timer may have run since it was loaded.
LEMMA LedStoreStatusInv ==
  ASSUME LedIInv, NEW u \in LedThreads, LedStoreStatus(u) PROVE LedIInv'
  <1> DEFINE A == ledCall[u].action
             M == ledCall[u].mask
  <1>1. LedTypeOK /\ LedTypeOK' /\ LedLabelsInv
    BY LedStoreStatusTyped DEF LedIInv
  <1>2. /\ ledPc[u] = "store" /\ LedGoto(u, "latch")
        /\ UNCHANGED <<ledMask, ledHigh, ledMutex, ledCall, ledReg, ledRow, ledAsked, ledOvertaken>>
        /\ ledStatus' = CASE A = "on" -> ledReg[u] \cup M
                          [] A = "off" -> ledReg[u] \ M
                          [] OTHER -> Flip(ledReg[u], M)
    BY DEF LedStoreStatus, ledHistory
  <1>3. ledPc'[u] = "latch" /\ LedOthersStay(u)
    BY <1>1, <1>2, LedGotoValues DEF LedOthersStay
  <1>4. ledPc[u] \in LedSetLabels /\ ledPc'[u] \in LedSetLabels
    BY <1>2, <1>3, LedPlaces
  <1>5. ledCall[u].op = "set" /\ A # "invalid" /\ A \in LedSteady /\ ledRow[u] = 0
    BY <1>1, <1>2 DEF LedLabelsInv
  <1>6. LedLabelsInv'
    BY <1>1, <1>2, <1>3, <1>5, LedLabelsKept
  <1>7. LedSole(u) /\ LedSole(u)'
    BY <1>1, <1>4, <1>6, LedHolder, LedHolderNext
  <1>8. LedMasksOf(u) /\ LedStatusOf(u) /\ LedLoadedOf(u) /\ LedLinesOf(u)
    BY <1>7, LedSoleForm DEF LedIInv
  <1>9. \A a \in Leds : LedStays(a)
    BY <1>2 DEF LedStays
  <1>10. ASSUME NEW a \in Leds, NEW S, LedAgrees(S, a) PROVE LedAgreesNext(S, a)
    BY <1>2, <1>9, <1>10, LedStaysAgreed
  <1>11. LedMasksOf(u)'
    <2> SUFFICES ASSUME NEW a \in Leds PROVE LedInMode(a)'
      BY <1>3 DEF LedMasksOf
    <2>1. LedInMode(a)
      BY <1>2, <1>8 DEF LedMasksOf
    <2>2. QED
      BY <2>1, <1>9, LedStaysInMode
  <1>12. LedStatusOf(u)'
    <2> SUFFICES ASSUME NEW a \in Leds PROVE LedAgreesNext(ledStatus', a)
      BY <1>3, LedAgreesPrimed DEF LedStatusOf
    <2>1. CASE a \in M
      <3>1. LedUnstoredWell(u, a)
        BY <2>1, <1>2, <1>8 DEF LedStatusOf
      <3>2. a \notin ledOvertaken => (ledAsked[a] = "lit" <=> A = "on" \/ (A = "toggle" /\ a \notin ledReg[u]))
        BY <3>1, <1>2 DEF LedUnstoredWell
      <3>3. a \in ledStatus' <=> A = "on" \/ (A = "toggle" /\ a \notin ledReg[u])
        BY <2>1, <1>2, <1>5 DEF Flip, LedSteady
      <3>4. QED
        BY <3>2, <3>3, <1>2 DEF LedAgreesNext
    <2>2. CASE a \notin M
      <3>1. LedAgrees(ledReg[u], a)
        BY <2>2, <1>2, <1>8 DEF LedLoadedOf
      <3>2. a \in ledStatus' <=> a \in ledReg[u]
        BY <2>2, <1>2, <1>5 DEF Flip, LedSteady
      <3>3. QED
        BY <3>1, <3>2, <1>2, <1>9, LedStaysAgreed
    <2>3. QED
      BY <2>1, <2>2
  <1>13. LedLoadedOf(u)'
    BY <1>3 DEF LedLoadedOf
  <1>14. LedLinesOf(u)'
    <2> SUFFICES ASSUME NEW a \in Leds, a \notin M PROVE LedAgreesNext(LedShown', a)
      BY <1>2, <1>3, LedAgreesPrimed DEF LedLinesOf
    <2>1. LedAgrees(LedShown, a)
      BY <1>8 DEF LedLinesOf
    <2>2. LedShown' = LedShown
      BY <1>2 DEF LedShown, LedShines
    <2>3. QED
      BY <2>1, <2>2, <1>10
  <1>15. LedReadInv'
    BY <1>2, <1>3, <1>7, <1>9, LedSetterReads
  <1>16. QED
    BY <1>1, <1>6, <1>7, <1>11, <1>12, <1>13, <1>14, <1>15, LedSoleFormNext DEF LedIInv

\* The status is copied for the lines.
LEMMA LedLatchInv ==
  ASSUME LedIInv, NEW u \in LedThreads, LedLatch(u) PROVE LedIInv'
  <1>1. LedTypeOK /\ LedTypeOK' /\ LedLabelsInv
    BY LedLatchTyped DEF LedIInv
  <1>2. /\ ledPc[u] = "latch" /\ LedGoto(u, "drive") /\ LedLoad(u, ledStatus)
        /\ UNCHANGED <<ledMask, ledStatus, ledHigh, ledMutex, ledCall, ledRow, ledAsked, ledOvertaken>>
    BY DEF LedLatch, ledMasks, ledHistory
  <1>3. ledReg'[u] = ledStatus /\ \A t \in LedThreads \ {u} : ledReg'[t] = ledReg[t]
    BY <1>1, <1>2, LedTyped, LedLoadTyped DEF LedTypeOK
  <1>4. ledPc'[u] = "drive" /\ LedOthersStay(u)
    BY <1>1, <1>2, <1>3, LedGotoValues DEF LedOthersStay
  <1>5. ledPc[u] \in LedSetLabels /\ ledPc'[u] \in LedSetLabels
    BY <1>2, <1>4, LedPlaces
  <1>6. ledCall[u].op = "set" /\ ledCall[u].action # "invalid" /\ ledRow[u] = 0
    BY <1>1, <1>2 DEF LedLabelsInv
  <1>7. LedLabelsInv'
    BY <1>1, <1>2, <1>4, <1>6, LedLabelsKept
  <1>8. LedSole(u) /\ LedSole(u)'
    BY <1>1, <1>5, <1>7, LedHolder, LedHolderNext
  <1>9. LedMasksOf(u) /\ LedStatusOf(u)
    BY <1>8, LedSoleForm DEF LedIInv
  <1>10. \A a \in Leds : LedStays(a)
    BY <1>2 DEF LedStays
  <1>11. \A a \in Leds : LedInMode(a)' /\ LedAgreesNext(ledStatus', a)
    <2> SUFFICES ASSUME NEW a \in Leds PROVE LedInMode(a)' /\ LedAgreesNext(ledStatus', a)
      OBVIOUS
    <2>1. LedInMode(a) /\ LedAgrees(ledStatus, a)
      BY <1>2, <1>9 DEF LedMasksOf, LedStatusOf
    <2>2. QED
      BY <2>1, <1>2, <1>10, LedStaysInMode, LedStaysAgreed
  <1>12. LedMasksOf(u)' /\ LedStatusOf(u)' /\ LedLoadedOf(u)'
    BY <1>2, <1>3, <1>4, <1>11, LedAgreesPrimed DEF LedMasksOf, LedStatusOf, LedLoadedOf
  <1>13. LedLinesOf(u)'
    <2>1. LedDriven(u)' = {}
      BY <1>2, <1>6 DEF LedDriven
    <2>2. \A a \in Leds : a \in ledCall[u].mask \/ LedAgreesNext(LedShown', a)
      <3> SUFFICES ASSUME NEW a \in Leds, a \notin ledCall[u].mask PROVE LedAgreesNext(LedShown', a)
        OBVIOUS
      <3>1. LedAgrees(LedShown, a)
        BY <1>8, LedSoleForm DEF LedIInv, LedLinesOf
      <3>2. LedShown' = LedShown
        BY <1>2 DEF LedShown, LedShines
      <3>3. QED
        BY <3>1, <3>2, <1>2, <1>10, LedStaysAgreed
    <2>3. QED
      BY <2>1, <2>2, <1>2, LedAgreesPrimed DEF LedLinesOf
  <1>14. LedReadInv'
    BY <1>2, <1>4, <1>8, <1>10, LedSetterReads
  <1>15. QED
    BY <1>1, <1>7, <1>8, <1>12, <1>13, <1>14, LedSoleFormNext DEF LedIInv

\* A row that is driven shows what was latched, and the rows before it stay.
LEMMA LedDriveShows ==
  ASSUME LedIInv, NEW u \in LedThreads, LedDrive(u)
  PROVE  LET row == ledRow[u] + 1
         IN  /\ \A a \in Leds : LedInMode(a)' /\ LedAgreesNext(ledStatus', a) /\ LedAgreesNext(ledReg[u], a)
             /\ \A a \in Leds :
                  \/ a \in ledCall[u].mask /\ a \notin {LedList[i] : i \in 1 .. row}
                  \/ LedAgreesNext(LedShown', a)
  <1> DEFINE row == ledRow[u] + 1
             a0 == LedList[row]
  <1>1. LedTypeOK /\ LedLabelsInv
    BY DEF LedIInv
  <1>2. /\ ledPc[u] = "drive"
        /\ ledHigh' = IF LedLine(a0, a0 \in ledReg[u]) THEN ledHigh \cup {a0} ELSE ledHigh \ {a0}
        /\ UNCHANGED <<ledMask, ledStatus, ledAsked, ledOvertaken>>
    BY DEF LedDrive, ledHistory
  <1>3. ledRow[u] \in Nat /\ a0 \in Leds
    BY <1>1, LedDriveRow
  <1>4. LedSole(u)
    BY <1>1, <1>2, LedHolder, LedPlaces
  <1>5. LedMasksOf(u) /\ LedStatusOf(u) /\ LedLoadedOf(u) /\ LedLinesOf(u)
    BY <1>4, LedSoleForm DEF LedIInv
  <1>6. \A a \in Leds : LedStays(a)
    BY <1>2 DEF LedStays
  <1>7. ASSUME NEW a \in Leds, NEW S, LedAgrees(S, a) PROVE LedAgreesNext(S, a)
    BY <1>2, <1>6, <1>7, LedStaysAgreed
  <1>8. \A a \in Leds : LedInMode(a)' /\ LedAgreesNext(ledStatus', a) /\ LedAgreesNext(ledReg[u], a)
    <2> SUFFICES ASSUME NEW a \in Leds
                 PROVE  LedInMode(a)' /\ LedAgreesNext(ledStatus', a) /\ LedAgreesNext(ledReg[u], a)
      OBVIOUS
    <2>1. LedInMode(a) /\ LedAgrees(ledStatus, a) /\ LedAgrees(ledReg[u], a)
      BY <1>2, <1>5 DEF LedMasksOf, LedStatusOf, LedLoadedOf
    <2>2. QED
      BY <2>1, <1>2, <1>6, <1>7, LedStaysInMode
  <1>9. \A a \in Leds \ {a0} : a \in LedShown' <=> a \in LedShown
    BY <1>2, LedShownIs, LedShownIsNext
  <1>10. a0 \in LedShown' <=> a0 \in ledReg[u]
    <2>1. a0 \in ledHigh' <=> (a0 \in ledReg[u] <=> a0 \in LedActiveHigh)
      BY <1>2 DEF LedLine
    <2>2. QED
      BY <2>1, <1>3, LedShownIsNext
  <1>11. ASSUME NEW a \in Leds, a \notin ledCall[u].mask \/ a \in {LedList[i] : i \in 1 .. row}
         PROVE  LedAgreesNext(LedShown', a)
    <2>1. CASE a = a0
      <3>1. LedAgreesNext(ledReg[u], a)
        BY <1>8
      <3>2. QED
        BY <3>1, <2>1, <1>10 DEF LedAgreesNext
    <2>2. CASE a # a0
      <3>1. a \in {LedList[i] : i \in 1 .. row} => a \in LedDriven(u)
        BY <2>2, <1>3 DEF LedDriven
      <3>2. LedAgrees(LedShown, a)
        BY <3>1, <1>2, <1>5, <1>11 DEF LedLinesOf
      <3>3. QED
        BY <3>2, <2>2, <1>2, <1>6, <1>9, LedStaysAgreed
    <2>3. QED
      BY <2>1, <2>2
  <1>12. QED
    BY <1>8, <1>11

\* A row is driven; after the last one every line shows the status.
LEMMA LedDriveInv ==
  ASSUME LedIInv, NEW u \in LedThreads, LedDrive(u) PROVE LedIInv'
  <1> DEFINE row == ledRow[u] + 1
  <1>1. LedTypeOK /\ LedTypeOK' /\ LedLabelsInv
    BY LedDriveTyped DEF LedIInv
  <1>2. ledPc[u] = "drive" /\ UNCHANGED <<ledMask, ledStatus, ledAsked, ledOvertaken>>
    BY DEF LedDrive, ledHistory
  <1>3. \A a \in Leds : LedInMode(a)' /\ LedAgreesNext(ledStatus', a) /\ LedAgreesNext(ledReg[u], a)
    BY LedDriveShows
  <1>4. \A a \in Leds :
          \/ a \in ledCall[u].mask /\ a \notin {LedList[i] : i \in 1 .. row}
          \/ LedAgreesNext(LedShown', a)
    BY LedDriveShows
  <1>5. LedSole(u)
    BY <1>1, <1>2, LedHolder, LedPlaces
  <1>6. \A a \in Leds : LedStays(a)
    BY <1>2 DEF LedStays
  <1>7. CASE row < Len(LedList)
    <2>1. ledRow' = [ledRow EXCEPT ![u] = row] /\ UNCHANGED <<ledMutex, ledPc, ledCall, ledReg>>
      BY <1>7 DEF LedDrive
    <2>2. ledRow'[u] = row /\ LedOthersStay(u)
      BY <1>1, <2>1 DEF LedTypeOK, LedOthersStay
    <2>3. LedLabelsInv'
      BY <1>1, <1>2, <2>1, <2>2, LedLabelsKept DEF LedLabelsInv
    <2>4. LedSole(u)'
      BY <1>1, <1>2, <2>1, <2>3, LedHolderNext, LedPlaces
    <2>5. LedMasksOf(u)' /\ LedStatusOf(u)' /\ LedLoadedOf(u)'
      BY <1>2, <1>3, <2>1, LedAgreesPrimed DEF LedMasksOf, LedStatusOf, LedLoadedOf
    <2>6. LedLinesOf(u)'
      <3>1. LedDriven(u)' = {LedList[i] : i \in 1 .. row}
        BY <2>2 DEF LedDriven
      <3>2. QED
        BY <3>1, <1>4, <2>1, LedAgreesPrimed DEF LedLinesOf
    <2>7. LedReadInv'
      BY <1>2, <1>5, <1>6, <2>1, <2>2, <2>4, LedSetterReads
    <2>8. QED
      BY <1>1, <2>3, <2>4, <2>5, <2>6, <2>7, LedSoleFormNext DEF LedIInv
  <1>8. CASE ~(row < Len(LedList))
    <2>1. LedReturn(u)
      BY <1>8 DEF LedDrive
    <2>2. ledPc'[u] = "idle" /\ ledMutex' = NoLedCall /\ ledRow'[u] = 0 /\ LedOthersStay(u)
      BY <1>1, <2>1, LedReturnValues
    <2>3. LedLabelsInv'
      BY <1>1, <2>2, LedLabelsKept, LedPlaces
    <2>4. LedNobody' /\ (\A t \in LedThreads : ledPc[t] \in {"idle", "enter", "sync"})'
      BY <1>1, <2>2, <2>3, LedHolderNext
    <2>5. {LedList[i] : i \in 1 .. row} = Leds
      <3>1. row \in 1 .. Len(LedList) /\ row \in Nat
        BY <1>1, LedDriveRow
      <3>2. row = Len(LedList)
        BY <3>1, <1>8, LedRows
      <3>3. QED
        BY <3>2, LedRows
    <2>6. LedMasksFree' /\ LedStatusFree' /\ LedLinesFree'
      BY <1>3, <1>4, <2>5, LedAgreesPrimed DEF LedMasksFree, LedStatusFree, LedLinesFree
    <2>7. LedReadInv'
      BY <1>2, <1>5, <1>6, <2>2, <2>4, LedSetterReads
    <2>8. QED
      BY <1>1, <2>3, <2>4, <2>6, <2>7, LedFreeFormNext DEF LedIInv
  <1>9. QED
    BY <1>7, <1>8

\* The status made to agree with a line that was read is the status.
LEMMA LedSyncInv ==
  ASSUME LedIInv, NEW u \in LedThreads, LedSync(u) PROVE LedIInv'
  <1> DEFINE M == ledCall[u].mask
  <1>1. LedTypeOK /\ LedTypeOK' /\ LedLabelsInv
    BY LedSyncTyped DEF LedIInv
  <1>2. /\ ledPc[u] = "sync" /\ ledMutex = NoLedCall /\ ledMutex' = u /\ LedGoto(u, "syncStore")
        /\ LedLoad(u, (ledStatus \ M) \cup ledReg[u])
        /\ UNCHANGED <<ledMask, ledStatus, ledHigh, ledCall, ledRow, ledAsked, ledOvertaken>>
    BY DEF LedSync, ledMasks, ledHistory
  <1>3. /\ ledReg'[u] = (ledStatus \ M) \cup ledReg[u]
        /\ \A t \in LedThreads \ {u} : ledReg'[t] = ledReg[t]
    <2>1. (ledStatus \ M) \cup ledReg[u] \in SUBSET Leds
      BY <1>1 DEF LedTypeOK
    <2>2. QED
      BY <2>1, <1>1, <1>2, LedTyped, LedLoadTyped
  <1>4. ledPc'[u] = "syncStore" /\ LedOthersStay(u)
    BY <1>1, <1>2, <1>3, LedGotoValues DEF LedOthersStay
  <1>5. ledCall[u].op = "get" /\ ledReg[u] \subseteq M /\ ledRow[u] = 0
    BY <1>1, <1>2 DEF LedLabelsInv
  <1>6. LedLabelsInv'
    BY <1>1, <1>2, <1>4, <1>5, LedLabelsKept, LedPlaces
  <1>7. /\ LedNobody /\ \A t \in LedThreads : ledPc[t] \in {"idle", "enter", "sync"}
        /\ LedNobody'
    BY <1>1, <1>2, <1>4, <1>6, LedHolder, LedHolderNext
  <1>8. LedMasksFree /\ LedStatusFree /\ LedLinesFree
    BY <1>7, LedFreeForm DEF LedIInv
  <1>9. \A a \in Leds : LedStays(a)
    BY <1>2 DEF LedStays
  <1>10. ASSUME NEW a \in Leds, NEW S, LedAgrees(S, a) PROVE LedAgreesNext(S, a)
    BY <1>2, <1>9, <1>10, LedStaysAgreed
  <1>11. LedMasksFree'
    BY <1>8, <1>9, LedStaysInMode DEF LedMasksFree
  <1>12. LedStatusFree' /\ LedLinesFree'
    <2>1. LedShown' = LedShown
      BY <1>2 DEF LedShown, LedShines
    <2>2. \A a \in Leds : LedAgreesNext(ledStatus', a) /\ LedAgreesNext(LedShown', a)
      BY <2>1, <1>2, <1>8, <1>10 DEF LedStatusFree, LedLinesFree
    <2>3. QED
      BY <2>2, LedAgreesPrimed DEF LedStatusFree, LedLinesFree
  <1>13. LedLoadedInv'
    <2>1. \A a \in Leds : LedAgreesNext(ledReg'[u], a)
      <3> SUFFICES ASSUME NEW a \in Leds PROVE LedAgreesNext(ledReg'[u], a)
        OBVIOUS
      <3>1. CASE a \in M
        <4>1. LedAgrees(ledReg[u], a)
          BY <3>1, <1>2 DEF LedIInv, LedReadInv
        <4>2. a \in ledReg'[u] <=> a \in ledReg[u]
          BY <3>1, <1>3
        <4>3. QED
          BY <4>1, <4>2, <1>2, <1>9, LedStaysAgreed
      <3>2. CASE a \notin M
        <4>1. LedAgrees(ledStatus, a)
          BY <1>8 DEF LedStatusFree
        <4>2. a \in ledReg'[u] <=> a \in ledStatus
          BY <3>2, <1>3, <1>5
        <4>3. QED
          BY <4>1, <4>2, <1>2, <1>9, LedStaysAgreed
      <3>3. QED
        BY <3>1, <3>2
    <2>2. \A t \in LedThreads \ {u} : ledPc'[t] \in {"idle", "enter", "sync"}
      BY <1>4, <1>7 DEF LedOthersStay
    <2>3. QED
      BY <2>1, <2>2, <1>4, LedAgreesPrimed DEF LedLoadedInv
  <1>14. LedReadInv'
    BY <1>2, <1>4, <1>7, <1>9, LedReadKept DEF LedNobody, LedIInv
  <1>15. QED
    BY <1>1, <1>6, <1>7, <1>11, <1>12, <1>13, <1>14, LedFreeFormNext DEF LedIInv

\* The status led_get_status computed is stored.
LEMMA LedSyncStoreInv ==
  ASSUME LedIInv, NEW u \in LedThreads, LedSyncStore(u) PROVE LedIInv'
  <1>1. LedTypeOK /\ LedTypeOK' /\ LedLabelsInv
    BY LedSyncStoreTyped DEF LedIInv
  <1>2. /\ ledPc[u] = "syncStore" /\ ledStatus' = ledReg[u] /\ LedReturn(u)
        /\ UNCHANGED <<ledMask, ledHigh, ledAsked, ledOvertaken>>
    BY DEF LedSyncStore, ledHistory
  <1>3. ledPc'[u] = "idle" /\ ledMutex' = NoLedCall /\ ledRow'[u] = 0 /\ LedOthersStay(u)
    BY <1>1, <1>2, LedReturnValues
  <1>4. LedLabelsInv'
    BY <1>1, <1>3, LedLabelsKept, LedPlaces
  <1>5. LedNobody /\ LedNobody' /\ (\A t \in LedThreads : ledPc[t] \in {"idle", "enter", "sync"})'
    BY <1>1, <1>2, <1>3, <1>4, LedHolder, LedHolderNext
  <1>6. LedMasksFree /\ LedLinesFree
    BY <1>5, LedFreeForm DEF LedIInv
  <1>7. \A a \in Leds : LedAgrees(ledReg[u], a)
    BY <1>2 DEF LedIInv, LedLoadedInv
  <1>8. \A a \in Leds : LedStays(a)
    BY <1>2 DEF LedStays
  <1>9. ASSUME NEW a \in Leds, NEW S, LedAgrees(S, a) PROVE LedAgreesNext(S, a)
    BY <1>2, <1>8, <1>9, LedStaysAgreed
  <1>10. LedMasksFree'
    BY <1>6, <1>8, LedStaysInMode DEF LedMasksFree
  <1>11. LedStatusFree' /\ LedLinesFree'
    <2>1. LedShown' = LedShown
      BY <1>2 DEF LedShown, LedShines
    <2>2. \A a \in Leds : LedAgreesNext(ledStatus', a) /\ LedAgreesNext(LedShown', a)
      BY <2>1, <1>2, <1>6, <1>7, <1>9 DEF LedLinesFree
    <2>3. QED
      BY <2>2, LedAgreesPrimed DEF LedStatusFree, LedLinesFree
  <1>12. LedReadInv'
    BY <1>2, <1>3, <1>5, <1>8, LedReadKept DEF LedNobody, LedIInv
  <1>13. QED
    BY <1>1, <1>4, <1>5, <1>10, <1>11, <1>12, LedFreeFormNext DEF LedIInv

\* The timer leaves the status of the LEDs that do not blink, and makes every
\* line show the status.
LEMMA LedTickLeaves ==
  ASSUME LedTypeOK, LedTick
  PROVE  /\ \A a \in Leds : a \notin LedBlinking => (a \in ledStatus' <=> a \in ledStatus)
         /\ \A a \in Leds : a \in LedShown' <=> a \in ledStatus'
         /\ UNCHANGED <<ledMask, ledMutex, ledPc, ledCall, ledReg, ledRow, ledAsked, ledOvertaken>>
  <1>1. /\ ledHigh' = {a \in Leds : LedLine(a, a \in ledStatus')}
        /\ ledStatus' = Blinked \ LedBeating("heart") \/ ledStatus' = Blinked \cup LedBeating("heart")
        /\ UNCHANGED <<ledMask, ledMutex, ledPc, ledCall, ledReg, ledRow, ledAsked, ledOvertaken>>
    BY DEF LedTick, ledThread, ledHistory
  <1>2. \A a \in Leds : a \notin LedBlinking => (a \in ledStatus' <=> a \in ledStatus)
    <2> SUFFICES ASSUME NEW a \in Leds, a \notin LedBlinking PROVE a \in ledStatus' <=> a \in ledStatus
      OBVIOUS
    <2>1. \A m \in LedBlinkModes : a \notin LedBeating(m)
      BY LedBlinkingIs DEF LedBeating
    <2>2. a \notin LedBeating("slow") /\ a \notin LedBeating("fast") /\ a \notin LedBeating("heart")
      BY <2>1, LedPlaces
    <2>3. a \in Blinked <=> a \in ledStatus
      BY <2>2 DEF Blinked, Flip
    <2>4. QED
      BY <1>1, <2>2, <2>3
  <1>3. \A a \in Leds : a \in LedShown' <=> a \in ledStatus'
    BY <1>1, LedShownIsNext DEF LedLine
  <1>4. QED
    BY <1>1, <1>2, <1>3

\* The timer, in the middle of whatever the thread it interrupts was doing.
LEMMA LedTickInv == ASSUME LedIInv, LedTick PROVE LedIInv'
  <1>1. LedTypeOK /\ LedTypeOK'
    BY LedTickTyped DEF LedIInv
  <1>2. /\ \A a \in Leds : a \notin LedBlinking => (a \in ledStatus' <=> a \in ledStatus)
        /\ \A a \in Leds : a \in LedShown' <=> a \in ledStatus'
        /\ UNCHANGED <<ledMask, ledMutex, ledPc, ledCall, ledReg, ledRow, ledAsked, ledOvertaken>>
    BY <1>1, LedTickLeaves
  <1>3. LedLabelsInv' /\ LedMasksInv'
    BY <1>2 DEF LedIInv, LedLabelsInv, LedMasksInv, LedChanging, LedSetter, LedChangingWell, LedInMode, LedBlinking
  <1>4. LedLoadedInv' /\ LedReadInv'
    BY <1>2 DEF LedIInv, LedLoadedInv, LedReadInv, LedAgrees, LedBlinking, LedBeingSet
  <1>5. \A a \in Leds : LedAgrees(ledStatus, a) => LedAgrees(ledStatus, a)'
    <2>1. LedBlinking' = LedBlinking
      BY <1>2 DEF LedBlinking
    <2>2. QED
      BY <1>2, <2>1 DEF LedAgrees
  <1>6. \A t \in LedThreads, a \in Leds : LedUnstored(t, a)' <=> LedUnstored(t, a)
    BY <1>2 DEF LedUnstored, LedSetter
  <1>7. \A t \in LedThreads, a \in Leds : LedUnstoredWell(t, a) => LedUnstoredWell(t, a)'
    BY <1>2, <1>5 DEF LedUnstoredWell
  <1>8. LedStatusInv'
    BY <1>5, <1>6, <1>7 DEF LedIInv, LedStatusInv
  <1>9. LedLinesInv'
    <2> SUFFICES ASSUME NEW a \in Leds, \A t \in LedThreads : ~LedUndriven(t, a)'
                 PROVE  LedAgrees(LedShown, a)'
      BY DEF LedLinesInv, LedShown
    <2>1. \A t \in LedThreads : ~LedUndriven(t, a)
      BY <1>2 DEF LedUndriven, LedSetter, LedDriven
    <2>2. \A t \in LedThreads : ~LedUnstored(t, a)
      BY <2>1, LedPlaces DEF LedUnstored, LedUndriven
    <2>3. LedAgrees(ledStatus, a)'
      BY <2>2, <1>5 DEF LedIInv, LedStatusInv
    <2>4. QED
      BY <2>3, <1>2, LedAgreesPrimed DEF LedAgreesNext
  <1>10. QED
    BY <1>1, <1>3, <1>4, <1>8, <1>9 DEF LedIInv

\* After led_init.
LEMMA LedInitInv == LedInit => LedIInv
  <1> SUFFICES ASSUME LedInit PROVE LedIInv
    OBVIOUS
  <1>1. LedTypeOK
    BY LedInitTyped
  <1>2. \A t \in LedThreads : ledPc[t] = "idle" /\ ledRow[t] = 0
    BY DEF LedInit
  <1>3. ledMutex = NoLedCall
    BY DEF LedInit
  <1>4. LedLabelsInv
    BY <1>2, LedPlaces DEF LedLabelsInv
  <1>5. LedNobody
    BY <1>1, <1>3, <1>4, LedHolder
  <1>6. /\ \A m \in LedModes : ledMask[m] = {}
        /\ \A a \in Leds : ledAsked[a] = "dark" /\ a \notin ledStatus
    BY DEF LedInit
  <1>7. LedBlinking = {}
    <2>1. \A m \in LedBlinkModes : ledMask[m] = {}
      BY <1>6, LedPlaces
    <2>2. QED
      BY <2>1, LedBlinkingIs
  <1>8. LedMasksFree
    BY <1>6, <1>7 DEF LedMasksFree, LedInMode
  <1>9. LedStatusFree
    BY <1>6 DEF LedStatusFree, LedAgrees
  <1>10. LedLinesFree
    <2>1. \A a \in Leds : a \notin LedShown
      <3>1. ledHigh = {a \in Leds : LedLine(a, FALSE)}
        BY DEF LedInit
      <3>2. QED
        BY <3>1, LedShownIs DEF LedLine
    <2>2. QED
      BY <2>1, <1>6 DEF LedLinesFree, LedAgrees
  <1>11. LedLoadedInv /\ LedReadInv
    BY <1>2 DEF LedLoadedInv, LedReadInv
  <1>12. QED
    BY <1>1, <1>4, <1>5, <1>8, <1>9, <1>10, <1>11, LedFreeForm DEF LedIInv

\* Every step keeps the invariant.
LEMMA LedNextInv == LedIInv /\ [LedNext]_ledVars => LedIInv'
  <1> SUFFICES ASSUME LedIInv, [LedNext]_ledVars PROVE LedIInv'
    OBVIOUS
  <1>1. CASE UNCHANGED ledVars
    <2>1. UNCHANGED <<ledMask, ledStatus, ledHigh, ledMutex, ledPc, ledCall, ledReg, ledRow, ledAsked, ledOvertaken>>
      BY <1>1 DEF ledVars, ledMasks, ledThread, ledHistory
    <2>2. LedTypeOK'
      BY <1>1, LedNextTyped DEF LedIInv
    <2>3. LedLabelsInv' /\ LedMasksInv' /\ LedStatusInv' /\ LedLoadedInv' /\ LedReadInv' /\ LedLinesInv'
      <3>1. LedLabelsInv' /\ LedMasksInv'
        BY <2>1 DEF LedIInv, LedLabelsInv, LedMasksInv, LedChanging, LedSetter, LedChangingWell, LedInMode, LedBlinking
      <3>2. LedStatusInv'
        BY <2>1 DEF LedIInv, LedStatusInv, LedUnstored, LedSetter, LedUnstoredWell, LedAgrees, LedBlinking
      <3>3. LedLoadedInv' /\ LedReadInv'
        BY <2>1 DEF LedIInv, LedLoadedInv, LedReadInv, LedAgrees, LedBlinking, LedBeingSet
      <3>4. LedLinesInv'
        BY <2>1 DEF LedIInv, LedLinesInv, LedUndriven, LedSetter, LedDriven, LedAgrees, LedBlinking, LedShines
      <3>5. QED
        BY <3>1, <3>2, <3>3, <3>4
    <2>4. QED
      BY <2>2, <2>3 DEF LedIInv
  <1>2. ASSUME NEW u \in LedThreads, LedStep(u) PROVE LedIInv'
    BY <1>2, LedStartInv, LedEnterInv, LedRefuseInv, LedReadFailsInv, LedSetMaskInv, LedLoadStatusInv, LedStoreStatusInv,
       LedLatchInv, LedDriveInv, LedReadLineInv, LedSyncInv, LedSyncStoreInv DEF LedStep
  <1>3. QED
    BY <1>1, <1>2, LedTickInv DEF LedNext

-----------------------------------------------------------------------------
(* The theorems.                                                           *)

\* The invariant holds whatever the table, the threads and their calls, and
\* however the timer interrupts them (leds.c:80-340).
THEOREM LedInvariance == LedSpec => []LedIInv
  BY LedInitInv, LedNextInv, PTL DEF LedSpec

\* A LED nobody is setting is in the mode last asked for and, when it does not
\* blink, lit in the mask and on its line exactly when that was asked for.
THEOREM LedsAreRight == LedSpec => []LedsShowWhatWasAsked
  <1>1. LedIInv => LedsShowWhatWasAsked
    <2> SUFFICES ASSUME LedIInv, NEW a \in Leds \ LedBeingSet
                 PROVE  /\ ledAsked[a] = "blink" <=> a \in LedBlinking
                        /\ \A m, n \in LedModes : a \in ledMask[m] \cap ledMask[n] /\ m \in LedBlinkModes => m = n
                        /\ a \notin LedBlinking \cup ledOvertaken
                             => (a \in ledStatus <=> ledAsked[a] = "lit") /\ (LedShines(a) <=> ledAsked[a] = "lit")
      BY DEF LedsShowWhatWasAsked
    <2>1. \A t \in LedThreads : ~LedChanging(t, a) /\ ~LedUnstored(t, a) /\ ~LedUndriven(t, a)
      BY DEF LedBeingSet, LedChanging, LedUnstored, LedUndriven, LedSetter
    <2>2. LedInMode(a)
      BY <2>1 DEF LedIInv, LedMasksInv
    <2>3. LedAgrees(ledStatus, a)
      BY <2>1 DEF LedIInv, LedStatusInv
    <2>4. LedAgrees(LedShown, a)
      BY <2>1 DEF LedIInv, LedLinesInv, LedShown
    <2>5. a \in LedShown <=> LedShines(a)
      BY DEF LedShown
    <2>6. QED
      BY <2>2, <2>3, <2>4, <2>5 DEF LedInMode, LedAgrees
  <1>2. QED
    BY <1>1, LedInvariance, PTL
=============================================================================
