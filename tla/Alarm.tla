------------------------------- MODULE Alarm -------------------------------
(***************************************************************************)
(* libraries/alarm/alarm.c: a mask of active alarms, a memory of the ones  *)
(* that were, a debounce timer per alarm and a queue of events that the    *)
(* system work queue hands to the callback.                                *)
(*                                                                         *)
(* Threads preempt each other anywhere outside the mutex; a timer runs its *)
(* whole callback in an interrupt, as one step.  There k_mutex_lock does   *)
(* not wait: it is granted to the interrupted thread, which may own it     *)
(* already, so the load and the store of a mask are steps of their own.    *)
(* Not modelled: the interrupt that finds the mutex owned by another       *)
(* thread than the one it interrupted; the timestamps of the real-time     *)
(* clock; mem_clear_callback, which is called without arguments.           *)
(***************************************************************************)
EXTENDS Integers, Sequences, SequencesExt

CONSTANTS
  Threads,
  AlarmCount,  \* description_count
  QueueSize,   \* of event_queue
  Debounced,   \* the alarms with a hysteresis at first
  CallsOf,     \* the calls of a thread
  None

VARIABLES
  active, memory,   \* actived.mask, memory.mask
  hyst,             \* the alarms with hysteresis[].msec > 0
  timer, pending,   \* the timers that run, and what each will do
  mutex,            \* its owner
  queue,            \* event_queue
  submitted, running, \* alarm_change_work
  pc, call, id, want, rest, \* a thread: its place, call, alarm, and loop
  reg,              \* the mask it has loaded
  told,    \* history: the last state the callback gave of each alarm
  asked,   \* history: the state the last call asked for
  since,   \* history: the alarms active since the memory was cleared
  mixed,   \* history: alarms with overlapping calls, or a timer in a call
  stale,   \* history: alarms set directly while their timer ran
  dropped, \* history: alarms whose last event was lost
  damaged  \* history: an interrupt came between a load and its store, or a
           \* timer without an alarm wrote outside its array

masks == <<active, memory, hyst>>
timers == <<timer, pending>>
events == <<queue, submitted, running, told, dropped>>
place == <<call, id, want, rest>>
history == <<asked, since, mixed, stale, damaged>>
vars == <<masks, timers, events, place, history, mutex, pc, reg>>

Alarms == 0 .. AlarmCount - 1

ASSUME AlarmAssumption ==
  /\ AlarmCount \in 1 .. 32 /\ QueueSize \in 1 .. 10 /\ Debounced \subseteq Alarms
  /\ None \notin Threads /\ \A t \in Threads : None \notin CallsOf[t]
  /\ \A t \in Threads : \A c \in CallsOf[t] :
       \/ c.op = "set" /\ c.id \in Alarms /\ c.state \in BOOLEAN
       \/ c.op = "force" /\ c.mask \subseteq Alarms
       \/ c.op = "hysteresis" /\ c.id \in Alarms /\ c.on \in BOOLEAN
       \/ c.op \in {"clearMemory", "flush"}

-----------------------------------------------------------------------------
With(mask, a, state) == IF state THEN mask \cup {a} ELSE mask \ {a}

\* The alarms a call sets or clears.
Touches(c) ==
  CASE c = None -> {} [] c # None /\ c.op = "set" -> {c.id}
    [] c # None /\ c.op = "force" -> Alarms [] OTHER -> {}

\* After alarm_init.
Init ==
  /\ active = {} /\ memory = {} /\ hyst = Debounced
  /\ timer = {} /\ pending = [a \in Alarms |-> [id |-> -1, state |-> FALSE]]
  /\ mutex = None
  /\ queue = <<>> /\ submitted = FALSE /\ running = FALSE
  /\ pc = [t \in Threads |-> "idle"] /\ call = [t \in Threads |-> None]
  /\ id = [t \in Threads |-> 0] /\ want = [t \in Threads |-> FALSE]
  /\ rest = [t \in Threads |-> <<>>] /\ reg = [t \in Threads |-> {}]
  /\ told = [a \in Alarms |-> FALSE] /\ asked = [a \in Alarms |-> FALSE]
  /\ since = {} /\ mixed = {} /\ stale = {} /\ dropped = {} /\ damaged = FALSE

Goto(t, label) == pc' = [pc EXCEPT ![t] = label]

\* A step of a thread that goes on at label and changes nothing else of it.
Onward(t, label) == Goto(t, label) /\ UNCHANGED place

\* A mask that was stored is not looked at again.
Forget(t) == reg' = [reg EXCEPT ![t] = {}]

\* A critical section that is one access is one step.
Section(t) == mutex = None /\ UNCHANGED mutex

Call(t) ==
  /\ pc[t] = "idle"
  /\ \E c \in CallsOf[t] :
       LET entry == [set |-> "check", force |-> "next", clearMemory |-> "load",
                     hysteresis |-> "configure", flush |-> "flush"]
       IN  /\ call' = [call EXCEPT ![t] = c]
           /\ Goto(t, entry[c.op])
           /\ mixed' = mixed \cup
                (Touches(c) \cap UNION {Touches(call[u]) : u \in Threads \ {t}})
           /\ asked' = [a \in Alarms |->
                CASE a \notin Touches(c) -> asked[a]
                  [] a \in Touches(c) /\ c.op = "set" -> c.state
                  [] OTHER -> a \in c.mask]
           /\ id' = IF c.op = "set" THEN [id EXCEPT ![t] = c.id] ELSE id
           /\ want' = IF c.op = "set" THEN [want EXCEPT ![t] = c.state] ELSE want
           /\ rest' = IF c.op = "force" THEN [rest EXCEPT ![t] = [i \in 1 .. AlarmCount |-> i - 1]]
                                        ELSE rest
  /\ UNCHANGED <<masks, timers, events, mutex, reg, since, stale, damaged>>

Return(t) ==
  /\ pc[t] = "return" \/ (pc[t] = "next" /\ rest[t] = <<>>)
  /\ Goto(t, "idle")
  /\ call' = [call EXCEPT ![t] = None]
  /\ id' = [id EXCEPT ![t] = 0] /\ want' = [want EXCEPT ![t] = FALSE]
  /\ UNCHANGED <<masks, timers, events, mutex, rest, reg, history>>

-----------------------------------------------------------------------------
(* alarm_set_status up to the direct change or the start of the timer.     *)

Check(t) ==
  /\ pc[t] = "check" /\ Section(t)
  /\ Onward(t, IF (id[t] \in active) = want[t] THEN "stop" ELSE "choose")
  /\ UNCHANGED <<masks, timers, events, reg, history>>

\* Seeded fault: the timer is left running.
StopForgotten(t) ==
  /\ pc[t] = "stop"
  /\ stale' = stale \ {id[t]}
  /\ Onward(t, "unpend")
  /\ UNCHANGED <<masks, timers, events, mutex, reg, asked, since, mixed, damaged>>

Stop(t) ==
  /\ pc[t] = "stop"
  /\ timer' = timer \ {id[t]}
  /\ stale' = stale \ {id[t]}
  /\ Onward(t, "unpend")
  /\ UNCHANGED <<masks, pending, events, mutex, reg, asked, since, mixed, damaged>>

Unpend(t) ==
  /\ pc[t] = "unpend"
  /\ pending' = [pending EXCEPT ![id[t]].id = -1]
  /\ Onward(t, "return")
  /\ UNCHANGED <<masks, timer, events, mutex, reg, history>>

\* The hysteresis is read outside the mutex.
Choose(t) ==
  /\ pc[t] = "choose"
  /\ Onward(t, IF id[t] \in hyst THEN "pend" ELSE "load")
  /\ UNCHANGED <<masks, timers, events, mutex, reg, history>>

Pend(t) ==
  /\ pc[t] = "pend" /\ Section(t)
  /\ pending' = [pending EXCEPT ![id[t]] = [id |-> id[t], state |-> want[t]]]
  /\ Onward(t, "arm")
  /\ UNCHANGED <<masks, timer, events, reg, history>>

Arm(t) ==
  /\ pc[t] = "arm"
  /\ timer' = timer \cup {id[t]}
  /\ stale' = stale \ {id[t]}
  /\ Onward(t, "return")
  /\ UNCHANGED <<masks, pending, events, mutex, reg, asked, since, mixed, damaged>>

-----------------------------------------------------------------------------
(* alarm_set and alarm_clear, and the event that reports them.             *)

Load(t) ==
  /\ pc[t] = "load" /\ mutex = None
  /\ mutex' = t
  /\ reg' = [reg EXCEPT ![t] = active]
  /\ Onward(t, IF call[t].op = "clearMemory" THEN "keep" ELSE "store")
  /\ UNCHANGED <<masks, timers, events, history>>

Store(t) ==
  /\ pc[t] = "store"
  /\ active' = With(reg[t], id[t], want[t])
  /\ mutex' = None /\ Forget(t)
  /\ since' = since \cup active'
  /\ stale' = With(stale, id[t], id[t] \in timer)
  /\ Onward(t, IF want[t] /\ id[t] \notin reg[t] THEN "memload" ELSE "put")
  /\ UNCHANGED <<memory, hyst, timers, events, asked, mixed, damaged>>

\* alarm_memory_add.
LoadMemory(t) ==
  /\ pc[t] = "memload" /\ mutex = None
  /\ mutex' = t
  /\ reg' = [reg EXCEPT ![t] = memory]
  /\ Onward(t, "memstore")
  /\ UNCHANGED <<masks, timers, events, history>>

StoreMemory(t) ==
  /\ pc[t] = "memstore"
  /\ memory' = reg[t] \cup {id[t]}
  /\ mutex' = None /\ Forget(t)
  /\ Onward(t, "put")
  /\ UNCHANGED <<active, hyst, timers, events, history>>

\* Seeded fault: events are put without regard to the size of the queue.
EnqueueUnbounded(a, state) ==
  queue' = Append(queue, [id |-> a, state |-> state]) /\ UNCHANGED dropped

\* k_msgq_put without waiting.
Enqueue(a, state) ==
  IF Len(queue) < QueueSize
    THEN queue' = Append(queue, [id |-> a, state |-> state]) /\ dropped' = dropped \ {a}
    ELSE UNCHANGED queue /\ dropped' = dropped \cup {a}

\* alarm_event_add.
Put(t) ==
  /\ pc[t] = "put"
  /\ Enqueue(id[t], want[t])
  /\ Onward(t, IF Len(queue) < QueueSize THEN "submit"
               ELSE IF call[t].op = "force" THEN "next" ELSE "return")
  /\ UNCHANGED <<masks, timers, submitted, running, told, mutex, reg, history>>

\* Seeded fault: the work is not submitted while its handler runs.
SubmitUnlessRunning(t) ==
  /\ pc[t] = "submit"
  /\ submitted' = (submitted \/ (~running /\ Len(queue) < QueueSize))
  /\ Onward(t, IF call[t].op = "force" THEN "next" ELSE "return")
  /\ UNCHANGED <<masks, timers, queue, running, told, dropped, mutex, reg, history>>

Submit(t) ==
  /\ pc[t] = "submit"
  /\ submitted' = TRUE
  /\ Onward(t, IF call[t].op = "force" THEN "next" ELSE "return")
  /\ UNCHANGED <<masks, timers, queue, running, told, dropped, mutex, reg, history>>

\* The loop of alarm_force_set.
NextAlarm(t) ==
  /\ pc[t] = "next" /\ rest[t] # <<>>
  /\ id' = [id EXCEPT ![t] = Head(rest[t])]
  /\ want' = [want EXCEPT ![t] = Head(rest[t]) \in call[t].mask]
  /\ rest' = [rest EXCEPT ![t] = Tail(@)]
  /\ Goto(t, "load")
  /\ UNCHANGED <<masks, timers, events, mutex, reg, history, call>>

-----------------------------------------------------------------------------
(* The other calls.                                                        *)

\* Seeded faults: the memory forgets the active alarms, or is not reset.
KeepNothing(t) ==
  /\ pc[t] = "keep"
  /\ memory' = {}
  /\ since' = active
  /\ mutex' = None /\ Forget(t)
  /\ Onward(t, "return")
  /\ UNCHANGED <<active, hyst, timers, events, asked, mixed, stale, damaged>>
KeepAll(t) ==
  /\ pc[t] = "keep"
  /\ memory' = memory \cup reg[t]
  /\ since' = active
  /\ mutex' = None /\ Forget(t)
  /\ Onward(t, "return")
  /\ UNCHANGED <<active, hyst, timers, events, asked, mixed, stale, damaged>>

\* The end of alarm_memory_clear.
Keep(t) ==
  /\ pc[t] = "keep"
  /\ memory' = reg[t]
  /\ since' = active
  /\ mutex' = None /\ Forget(t)
  /\ Onward(t, "return")
  /\ UNCHANGED <<active, hyst, timers, events, asked, mixed, stale, damaged>>

\* alarm_set_hysteresis.
Configure(t) ==
  /\ pc[t] = "configure" /\ Section(t)
  /\ hyst' = With(hyst, call[t].id, call[t].on)
  /\ Onward(t, "return")
  /\ UNCHANGED <<active, memory, timers, events, reg, history>>

\* alarm_flush_event_queue.
Flush(t) ==
  /\ pc[t] = "flush"
  /\ queue' = <<>>
  /\ dropped' = dropped \cup {e.id : e \in ToSet(queue)}
  /\ Onward(t, "return")
  /\ UNCHANGED <<masks, timers, submitted, running, told, mutex, reg, history>>

-----------------------------------------------------------------------------
(* The timer interrupt and the work queue.                                 *)

\* hysteresis_timer_callback.  Without an alarm (pending.id = -1) alarm_set
\* writes a timestamp before its array, where the masks are.
Expire(a) ==
  LET p == pending[a]
  IN  /\ a \in timer
      /\ timer' = timer \ {a}
      /\ Enqueue(p.id, p.state)
      /\ submitted' = (submitted \/ Len(queue) < QueueSize)
      /\ mixed' = IF \E t \in Threads : a \in Touches(call[t]) THEN mixed \cup {a} ELSE mixed
      /\ damaged' = (damaged \/ mutex # None \/ p.id = -1)
      /\ \/ /\ p.id # -1
            /\ active' = With(active, p.id, p.state)
            /\ memory' = memory \cup (active' \ active)
         \/ /\ p.id = -1
            /\ IF p.state THEN active' \in SUBSET Alarms /\ memory' \in SUBSET Alarms
                          ELSE UNCHANGED <<active, memory>>
      /\ since' = since \cup active'
      /\ UNCHANGED <<hyst, pending, running, told, place, asked, stale, mutex, pc, reg>>

WorkStarts ==
  /\ submitted /\ ~running
  /\ submitted' = FALSE /\ running' = TRUE
  /\ UNCHANGED <<masks, timers, queue, told, dropped, place, history, mutex, pc, reg>>

\* Seeded fault: the callback hears of alarms being set only.
DeliverSet ==
  /\ running /\ queue # <<>>
  /\ queue' = Tail(queue)
  /\ told' = [a \in Alarms |-> told[a] \/ a = Head(queue).id]
  /\ UNCHANGED <<masks, timers, submitted, running, dropped, place, history, mutex, pc, reg>>

\* alarm_change_work_handler: one event.
Deliver ==
  /\ running /\ queue # <<>>
  /\ queue' = Tail(queue)
  /\ told' = [a \in Alarms |-> IF a = Head(queue).id THEN Head(queue).state ELSE told[a]]
  /\ UNCHANGED <<masks, timers, submitted, running, dropped, place, history, mutex, pc, reg>>

WorkEnds ==
  /\ running /\ queue = <<>>
  /\ running' = FALSE
  /\ UNCHANGED <<masks, timers, queue, submitted, told, dropped, place, history, mutex, pc, reg>>

Step(t) ==
  \/ Call(t) \/ Return(t)
  \/ Check(t) \/ Stop(t) \/ Unpend(t) \/ Choose(t) \/ Pend(t) \/ Arm(t)
  \/ Load(t) \/ Store(t) \/ LoadMemory(t) \/ StoreMemory(t) \/ Put(t) \/ Submit(t) \/ NextAlarm(t)
  \/ Keep(t) \/ Configure(t) \/ Flush(t)

Next ==
  \/ \E t \in Threads : Step(t)
  \/ \E a \in Alarms : Expire(a)
  \/ WorkStarts \/ Deliver \/ WorkEnds

Spec == Init /\ [][Next]_vars

-----------------------------------------------------------------------------
(* Properties.                                                             *)

Labels == {"idle", "return", "check", "stop", "unpend", "choose", "pend", "arm", "load", "store",
           "memload", "memstore", "put", "submit", "next", "keep", "configure", "flush"}

TypeOK ==
  /\ active \subseteq Alarms /\ memory \subseteq Alarms /\ hyst \subseteq Alarms
  /\ timer \subseteq Alarms /\ pending \in [Alarms -> [id : {-1} \cup Alarms, state : BOOLEAN]]
  /\ mutex \in Threads \cup {None}
  /\ \A t \in Threads : mutex = t <=> pc[t] \in {"store", "memstore", "keep"}
  /\ queue \in Seq([id : {-1} \cup Alarms, state : BOOLEAN]) /\ Len(queue) <= QueueSize
  /\ {submitted, running, damaged} \subseteq BOOLEAN
  /\ pc \in [Threads -> Labels]
  /\ \A t \in Threads : call[t] \in CallsOf[t] \cup {None} /\ (call[t] = None <=> pc[t] = "idle")
  /\ id \in [Threads -> Alarms] /\ want \in [Threads -> BOOLEAN]
  /\ rest \in [Threads -> Seq(Alarms)] /\ reg \in [Threads -> SUBSET Alarms]
  /\ told \in [Alarms -> BOOLEAN] /\ asked \in [Alarms -> BOOLEAN]
  /\ since \subseteq Alarms /\ mixed \subseteq Alarms /\ stale \subseteq Alarms

\* Nobody sets or clears the alarm.
Quiet(a) == \A t \in Threads : a \notin Touches(call[t])

\* The debounce ends in what was last asked for: the alarm is in that state,
\* or its timer runs to bring it there -- unless calls, or a call and the
\* timer, overlapped on it, or it was set directly while the timer ran
\* (alarm.c:252-300).
LastRequestHolds ==
  \A a \in Alarms :
    Quiet(a) /\ a \notin mixed \cup stale /\ ~damaged =>
      IF a \in timer THEN /\ pending[a] = [id |-> a, state |-> asked[a]]
                          /\ asked[a] # (a \in active)
                     ELSE asked[a] = (a \in active)

\* An active alarm is in the memory, unless a thread is about to add it:
\* neither the gap between the two sections of alarm_set nor a clearing of
\* the memory in it loses an alarm (:75-121, :573-606).
MemoryCoversActive ==
  \A a \in active \ memory :
    damaged \/ \E t \in Threads : pc[t] \in {"memload", "memstore"} /\ id[t] = a

\* The memory of an alarm nobody overlapped on is exact: it is there if and
\* only if it was active since the memory was cleared.
MemoryIsExact ==
  \A a \in Alarms \ mixed : Quiet(a) /\ ~damaged => (a \in memory <=> a \in since)

\* What the callback was last told of an alarm is its state, unless the event
\* was lost to a full or flushed queue (:29-63).
CallbackToldTheTruth ==
  \A a \in Alarms \ (mixed \cup dropped) :
    Quiet(a) /\ ~damaged /\ (\A e \in ToSet(queue) : e.id # a) => told[a] = (a \in active)

\* An event in the queue has somebody to deliver it: the work is submitted,
\* its handler runs, or a thread is about to submit it (:46-49).
NoEventIsStranded ==
  queue # <<>> => submitted \/ running \/ \E t \in Threads : pc[t] = "submit"
=============================================================================
