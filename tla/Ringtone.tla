------------------------------ MODULE Ringtone ------------------------------
(***************************************************************************)
(* libraries/ringtone/ringtone.c and the calls of src/buzzer_lib.c on it:  *)
(* a player with an index into a text, a timer interrupt that plays the    *)
(* next note when the one that sounds has ended, and a semaphore given at  *)
(* the end.                                                                *)
(*                                                                         *)
(* Threads are preemptive; the interrupt is one step and takes the mutex   *)
(* of the thread it interrupts, as in Alarm.  What process_next_note reads *)
(* in one call is one item of the text: a note, a pause, or a character    *)
(* that is neither and is skipped; an RTTTL header is read like that too.  *)
(* Digits before a note are part of it; those that end a text are an item  *)
(* of their own, skipped together with the terminator behind them.         *)
(* Time is the 32-bit k_uptime_get_32, a small number of steps here; it    *)
(* is not kept while the timer is stopped, and is any time when it starts. *)
(***************************************************************************)
EXTENDS Integers, Sequences, FiniteSets

CONSTANTS
  ToneThreads, ToneCallsOf,   \* the callers, and the calls of each
  ToneTexts,                  \* the texts, sequences of items
  Uptimes,                    \* the number of values of k_uptime_get_32
  TonePeriod,                 \* of the timer: 5 ms
  NoToneCall

VARIABLES
  toneText,      \* config.rtttl_string
  tonePlaying, toneStopRequest, toneIndex, toneEnd, toneProcessed,
                 \* is_playing, stop_request, current_index, note_end_time, note_processed
  toneDone,      \* done_semaphore
  toneTimer,     \* the timer runs
  toneSound,     \* the PWM has a pulse
  uptime,
  toneMutex, tonePc, toneCall,
  toneCut,       \* history: the timer was stopped under a tone that plays
  toneSwapped    \* history: the text was changed under a tone that plays

tonePlayer == <<tonePlaying, toneStopRequest, toneIndex, toneEnd, toneProcessed>>
toneDevice == <<toneTimer, toneSound, uptime>>
toneHistory == <<toneCut, toneSwapped>>
toneVars == <<toneText, tonePlayer, toneDone, toneDevice, toneMutex, tonePc, toneCall, toneHistory>>

ToneStray == UNION {{x[i] : i \in DOMAIN x} : x \in ToneTexts}
ToneItems == [kind : {"note", "pause", "skip", "digits"}, time : 0 .. Uptimes - 1]
ToneUnplayed == {"skip", "digits"}
ToneEndsBare(x) == Len(x) > 0 /\ x[Len(x)].kind = "digits"

ASSUME ToneAssumption ==
  /\ Uptimes \in Nat \ {0} /\ TonePeriod \in 1 .. Uptimes - 1
  /\ ToneTexts \subseteq Seq(ToneItems)
  /\ \A x \in ToneTexts : \A i \in DOMAIN x : x[i].kind = "digits" => i = Len(x)
  /\ NoToneCall \notin ToneThreads
  /\ \A t \in ToneThreads : \A c \in ToneCallsOf[t] :
       \/ c.op \in {"play", "stop", "wait"}
       \/ c.op = "custom" /\ c.text \in ToneTexts

-----------------------------------------------------------------------------
\* After ringtones_init.
ToneInit ==
  /\ toneText \in ToneTexts
  /\ tonePlaying = FALSE /\ toneStopRequest = FALSE
  /\ toneIndex = 1 /\ toneEnd = 0 /\ toneProcessed = TRUE
  /\ toneDone = 0
  /\ toneTimer = FALSE /\ toneSound = FALSE /\ uptime = 0
  /\ toneMutex = NoToneCall
  /\ tonePc = [t \in ToneThreads |-> "idle"] /\ toneCall = [t \in ToneThreads |-> NoToneCall]
  /\ toneCut = FALSE /\ toneSwapped = FALSE

ToneGoto(t, label) == tonePc' = [tonePc EXCEPT ![t] = label]
ToneReturn(t) == ToneGoto(t, "idle") /\ toneCall' = [toneCall EXCEPT ![t] = NoToneCall]

\* A custom tone goes on after its stop; a stop of its own returns.
ToneStopped(t) ==
  IF toneCall[t].op = "custom" THEN ToneGoto(t, "text") /\ UNCHANGED toneCall ELSE ToneReturn(t)

ToneStart(t) ==
  /\ tonePc[t] = "idle"
  /\ \E c \in ToneCallsOf[t] :
       /\ toneCall' = [toneCall EXCEPT ![t] = c]
       /\ ToneGoto(t, IF c.op = "custom" THEN "ask" ELSE c.op)
  /\ UNCHANGED <<toneText, tonePlayer, toneDone, toneDevice, toneMutex, toneHistory>>

-----------------------------------------------------------------------------
(* buzzer_play_notification, Buzzer_PlayCustom.                            *)

\* ringtones_is_playing, then ringtones_stop or not.
ToneAsk(t) ==
  /\ tonePc[t] = "ask" /\ toneMutex = NoToneCall
  /\ ToneGoto(t, IF tonePlaying THEN "stop" ELSE "text")
  /\ UNCHANGED <<toneText, tonePlayer, toneDone, toneDevice, toneMutex, toneCall, toneHistory>>

\* The text is replaced without the mutex.
ToneSetText(t) ==
  /\ tonePc[t] = "text"
  /\ toneText' = toneCall[t].text
  /\ toneSwapped' = (toneSwapped \/ (tonePlaying /\ toneText' # toneText))
  /\ ToneGoto(t, "play")
  /\ UNCHANGED <<tonePlayer, toneDone, toneDevice, toneMutex, toneCall, toneCut>>

-----------------------------------------------------------------------------
(* ringtones_play.                                                         *)

ToneAlreadyPlays(t) ==
  /\ tonePc[t] = "play" /\ toneMutex = NoToneCall /\ tonePlaying
  /\ ToneReturn(t)
  /\ UNCHANGED <<toneText, tonePlayer, toneDone, toneDevice, toneMutex, toneHistory>>

\* Locked: the index and the stop request are reset.
TonePlay(t) ==
  /\ tonePc[t] = "play" /\ toneMutex = NoToneCall /\ ~tonePlaying
  /\ toneMutex' = t
  /\ toneIndex' = 1 /\ toneStopRequest' = FALSE
  /\ ToneGoto(t, "playing")
  /\ UNCHANGED <<toneText, tonePlaying, toneEnd, toneProcessed, toneDone, toneDevice, toneCall, toneHistory>>

TonePlaying(t) ==
  /\ tonePc[t] = "playing"
  /\ tonePlaying' = TRUE
  /\ toneCut' = FALSE /\ toneSwapped' = FALSE
  /\ ToneGoto(t, "prime")
  /\ UNCHANGED <<toneText, toneStopRequest, toneIndex, toneEnd, toneProcessed, toneDone, toneDevice, toneMutex, toneCall>>

\* The first note is due at once; unlocked.
TonePrime(t) ==
  /\ tonePc[t] = "prime"
  /\ toneProcessed' = TRUE /\ toneEnd' = 0
  /\ toneMutex' = NoToneCall
  /\ ToneGoto(t, "reset")
  /\ UNCHANGED <<toneText, tonePlaying, toneStopRequest, toneIndex, toneDone, toneDevice, toneCall, toneHistory>>

\* k_sem_reset: whoever waits is woken with -EAGAIN.
ToneReset(t) ==
  /\ tonePc[t] = "reset"
  /\ toneDone' = 0
  /\ tonePc' = [u \in ToneThreads |-> IF u = t THEN "start" ELSE IF tonePc[u] = "waiting" THEN "woken" ELSE tonePc[u]]
  /\ UNCHANGED <<toneText, tonePlayer, toneDevice, toneMutex, toneCall, toneHistory>>

\* k_timer_start: any time may have passed since the last tick.
ToneTimerStart(t) ==
  /\ tonePc[t] = "start"
  /\ toneTimer' = TRUE
  /\ uptime' \in 0 .. Uptimes - 1
  /\ ToneReturn(t)
  /\ UNCHANGED <<toneText, tonePlayer, toneDone, toneSound, toneMutex, toneHistory>>

-----------------------------------------------------------------------------
(* ringtones_stop.                                                         *)

ToneNothingToStop(t) ==
  /\ tonePc[t] = "stop" /\ toneMutex = NoToneCall /\ ~tonePlaying
  /\ ToneStopped(t)
  /\ UNCHANGED <<toneText, tonePlayer, toneDone, toneDevice, toneMutex, toneHistory>>

ToneStop(t) ==
  /\ tonePc[t] = "stop" /\ toneMutex = NoToneCall /\ tonePlaying
  /\ toneMutex' = t
  /\ toneStopRequest' = TRUE
  /\ ToneGoto(t, "stopping")
  /\ UNCHANGED <<toneText, tonePlaying, toneIndex, toneEnd, toneProcessed, toneDone, toneDevice, toneCall, toneHistory>>

ToneStopping(t) ==
  /\ tonePc[t] = "stopping"
  /\ tonePlaying' = FALSE
  /\ toneMutex' = NoToneCall
  /\ ToneGoto(t, "silence")
  /\ UNCHANGED <<toneText, toneStopRequest, toneIndex, toneEnd, toneProcessed, toneDone, toneDevice, toneCall, toneHistory>>

\* Seeded fault: the pulse is left as it is.
ToneSilenceForgotten(t) ==
  /\ tonePc[t] = "silence"
  /\ ToneGoto(t, "halt")
  /\ UNCHANGED <<toneText, tonePlayer, toneDone, toneDevice, toneMutex, toneCall, toneHistory>>

\* pwm_set_pulse_dt 0.
ToneSilence(t) ==
  /\ tonePc[t] = "silence"
  /\ toneSound' = FALSE
  /\ ToneGoto(t, "halt")
  /\ UNCHANGED <<toneText, tonePlayer, toneDone, toneTimer, uptime, toneMutex, toneCall, toneHistory>>

\* k_timer_stop.
ToneHalt(t) ==
  /\ tonePc[t] = "halt"
  /\ toneTimer' = FALSE /\ uptime' = 0
  /\ toneCut' = (toneCut \/ tonePlaying)
  /\ ToneGoto(t, "signal")
  /\ UNCHANGED <<toneText, tonePlayer, toneDone, toneSound, toneMutex, toneCall, toneSwapped>>

-----------------------------------------------------------------------------
(* The semaphore of the end: limit 1, given to a waiting thread first.     *)

ToneWaiters == {t \in ToneThreads : tonePc[t] = "waiting"}

\* k_sem_give as the last step of a call, or of the interrupt.
ToneSignal(t) ==
  /\ tonePc[t] = "signal"
  /\ IF ToneWaiters = {}
       THEN toneDone' = 1 /\ ToneStopped(t)
       ELSE \E w \in ToneWaiters :
              /\ tonePc' = [tonePc EXCEPT ![w] = "woken", ![t] = IF toneCall[t].op = "custom" THEN "text" ELSE "idle"]
              /\ toneCall' = IF toneCall[t].op = "custom" THEN toneCall ELSE [toneCall EXCEPT ![t] = NoToneCall]
              /\ UNCHANGED toneDone
  /\ UNCHANGED <<toneText, tonePlayer, toneDevice, toneMutex, toneHistory>>

\* Given once or twice: waiting threads first, the limit takes no more than one.
ToneGive(times) ==
  \E W \in SUBSET ToneWaiters :
    /\ Cardinality(W) = times \/ (Cardinality(W) < times /\ W = ToneWaiters)
    /\ tonePc' = [t \in ToneThreads |-> IF t \in W THEN "woken" ELSE tonePc[t]]
    /\ toneDone' = IF Cardinality(W) < times THEN 1 ELSE toneDone

\* ringtones_wait_done with K_FOREVER.
ToneWait(t) ==
  /\ tonePc[t] = "wait"
  /\ IF toneDone = 1 THEN toneDone' = 0 /\ ToneReturn(t)
                     ELSE ToneGoto(t, "waiting") /\ UNCHANGED <<toneDone, toneCall>>
  /\ UNCHANGED <<toneText, tonePlayer, toneDevice, toneMutex, toneHistory>>

ToneWoken(t) ==
  /\ tonePc[t] = "woken"
  /\ ToneReturn(t)
  /\ UNCHANGED <<toneText, tonePlayer, toneDone, toneDevice, toneMutex, toneHistory>>

-----------------------------------------------------------------------------
(* ringtone_timer_callback.                                                *)

\* What process_next_note finds at the index: an item, the terminator, or,
\* past it, an item of any text.
ToneFound ==
  CASE toneIndex \in DOMAIN toneText -> {toneText[toneIndex]}
    [] toneIndex = Len(toneText) + 1 -> {NoToneCall}
    [] OTHER -> ToneStray \cup {NoToneCall}

\* current_index after an item: digits that end the text are read as the
\* duration of the terminator, which is skipped as no note; past every text the
\* index no longer counts.
ToneAfter(item) ==
  IF \A x \in ToneTexts : toneIndex > Len(x) + 1 THEN toneIndex
  ELSE toneIndex + (IF item.kind = "digits" THEN 2 ELSE 1)

\* The player between two ticks: whether a note is due, and the two outcomes
\* of a tick that ends the tone, by the terminator or by a stop request.
ToneDue(now) == tonePlaying /\ (toneProcessed \/ now >= toneEnd)
ToneEnds(times) ==
  tonePlaying' = FALSE /\ toneSound' = FALSE /\ toneTimer' = FALSE /\ uptime' = 0 /\ ToneGive(times)

ToneGoesOnAt(now) == uptime' = now /\ UNCHANGED <<tonePlaying, toneTimer, toneDone, tonePc>>

\* Nothing is due, or a stop request is left from a stop under way.
ToneIdleTick(now) ==
  /\ ~ToneDue(now)
  /\ IF toneStopRequest THEN ToneEnds(1) /\ toneStopRequest' = FALSE
                        ELSE ToneGoesOnAt(now) /\ UNCHANGED <<toneSound, toneStopRequest>>
  /\ UNCHANGED <<toneIndex, toneEnd, toneProcessed>>

\* ringtones_process_next_note at the terminator; a stop request that was
\* pending then finds nothing more to do but to give the semaphore again.
ToneLastTick(now) ==
  /\ ToneDue(now) /\ NoToneCall \in ToneFound
  /\ ToneEnds(IF toneStopRequest THEN 2 ELSE 1)
  /\ toneIndex' = 1 /\ toneProcessed' = FALSE /\ toneStopRequest' = FALSE
  /\ UNCHANGED toneEnd

\* Seeded fault: a skipped character ends no note and is read again.
ToneNextTickStays(now) ==
  \E item \in ToneFound \ {NoToneCall} :
    /\ ToneDue(now) /\ ~toneStopRequest
    /\ toneIndex' = IF item.kind = "skip" THEN toneIndex ELSE ToneAfter(item)
    /\ toneProcessed' = FALSE
    /\ toneEnd' = IF item.kind \in ToneUnplayed THEN toneEnd ELSE (now + item.time) % Uptimes
    /\ toneSound' = IF item.kind \in ToneUnplayed THEN toneSound ELSE item.kind = "note"
    /\ ToneGoesOnAt(now) /\ UNCHANGED toneStopRequest

\* ringtones_process_next_note: the item is played; a stop request that was
\* pending then ends the tone.
ToneNextTick(now) ==
  \E item \in ToneFound \ {NoToneCall} :
    /\ ToneDue(now)
    /\ toneIndex' = ToneAfter(item) /\ toneProcessed' = FALSE
    /\ toneEnd' = IF item.kind \in ToneUnplayed THEN toneEnd ELSE (now + item.time) % Uptimes
    /\ IF toneStopRequest
         THEN ToneEnds(1) /\ toneStopRequest' = FALSE
         ELSE /\ toneSound' = IF item.kind \in ToneUnplayed THEN toneSound ELSE item.kind = "note"
              /\ ToneGoesOnAt(now) /\ UNCHANGED toneStopRequest

ToneTick ==
  LET now == (uptime + TonePeriod) % Uptimes
  IN  /\ toneTimer
      /\ ToneIdleTick(now) \/ ToneLastTick(now) \/ ToneNextTick(now)
      /\ UNCHANGED <<toneText, toneMutex, toneCall, toneHistory>>

ToneStep(t) ==
  \/ ToneStart(t) \/ ToneAsk(t) \/ ToneSetText(t)
  \/ ToneAlreadyPlays(t) \/ TonePlay(t) \/ TonePlaying(t) \/ TonePrime(t) \/ ToneReset(t) \/ ToneTimerStart(t)
  \/ ToneNothingToStop(t) \/ ToneStop(t) \/ ToneStopping(t) \/ ToneSilence(t) \/ ToneHalt(t) \/ ToneSignal(t)
  \/ ToneWait(t) \/ ToneWoken(t)

ToneNext == ToneTick \/ \E t \in ToneThreads : ToneStep(t)

ToneSpec == ToneInit /\ [][ToneNext]_toneVars

-----------------------------------------------------------------------------
(* Properties.                                                             *)

ToneLabels == {"idle", "ask", "text", "play", "playing", "prime", "reset", "start", "stop", "stopping",
               "silence", "halt", "signal", "wait", "waiting", "woken"}

ToneTypeOK ==
  /\ toneText \in ToneTexts
  /\ {tonePlaying, toneStopRequest, toneProcessed, toneTimer, toneSound, toneCut, toneSwapped} \subseteq BOOLEAN
  /\ toneIndex \in Nat \ {0} /\ toneEnd \in 0 .. Uptimes - 1 /\ uptime \in 0 .. Uptimes - 1
  /\ toneDone \in {0, 1} /\ (toneDone = 1 => ToneWaiters = {})
  /\ toneMutex \in ToneThreads \cup {NoToneCall} /\ tonePc \in [ToneThreads -> ToneLabels]
  /\ \A t \in ToneThreads :
       /\ toneCall[t] \in ToneCallsOf[t] \cup {NoToneCall} /\ (toneCall[t] = NoToneCall <=> tonePc[t] = "idle")
       /\ toneMutex = t <=> tonePc[t] \in {"playing", "prime", "stopping"}

\* The device follows the player: the buzzer sounds only while a tone plays,
\* or a stop is about to silence it, so no tick puts a note on after the stop;
\* a tone that plays has its timer, or a caller about to start it, unless a
\* stop begun before it stopped the timer under it; and it is read inside its
\* text, unless another caller changed the text under it or the text ends in
\* digits that no note follows (ringtone.c:80, :166-237, :277-378).
DeviceFollowsPlayer ==
  /\ toneSound => tonePlaying \/ \E t \in ToneThreads : tonePc[t] = "silence"
  /\ tonePlaying /\ ~toneCut => toneTimer \/ \E t \in ToneThreads : tonePc[t] \in {"prime", "reset", "start"}
  /\ tonePlaying /\ ~toneSwapped => toneIndex <= Len(toneText) + 1 \/ ToneEndsBare(toneText)

\* A thread that waits while a tone with its timer plays is woken: the tone
\* ends, also when its notes end beyond the wrap of the uptime, and its end is
\* signalled; unless the timer is stopped or the text changed under it, or the
\* text ends in digits, behind which the player reads on (ringtone.c:80,
\* :261-272, :305-324, :433).
ToneLeftAlone == ~toneCut /\ ~toneSwapped /\ ~ToneEndsBare(toneText)
WaitersAreWoken ==
  \A t \in {u \in ToneThreads : \E c \in ToneCallsOf[u] : c.op = "wait"} :
    (tonePc[t] = "waiting" /\ tonePlaying /\ toneTimer /\ ToneLeftAlone)
      ~> (tonePc[t] # "waiting" \/ ~ToneLeftAlone)
=============================================================================
