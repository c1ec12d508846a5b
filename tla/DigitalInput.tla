---------------------------- MODULE DigitalInput ----------------------------
(***************************************************************************)
(* libraries/digital_input/digital_input.c: the status of each input, with *)
(* a mask of what was reported, a debounce timer per row of config_list    *)
(* and a queue of events for the callback.                                 *)
(*                                                                         *)
(* Threads, timer interrupts and the mutex are as in Alarm: the interrupt  *)
(* is one step and does not wait for the mutex, so what a thread loads and *)
(* what it stores are two steps.  A row is found by its id, and its timer  *)
(* by the row, but for one k_timer_stop that takes the id for the row.     *)
(***************************************************************************)
EXTENDS Integers, Sequences, SequencesExt

CONSTANTS
  Threads,
  Config,      \* config_list: the id of each row, as a function on 0 .. count - 1
  ActiveHigh,  \* the ids with .active_high
  High,        \* the ids whose pin is high in digital_input_init
  QueueSize,   \* of event_queue
  Debounced,   \* the rows with a hysteresis at first
  CallsOf,     \* the calls of a thread
  None

VARIABLES
  status, reported,   \* status_mask, status_reported_mask
  hyst,               \* the rows with hysteresis_ms > 0
  timer, pending,     \* the rows whose timer runs; pending.state of each
  mutex,              \* its owner
  queue,              \* event_queue
  submitted, running, \* input_change_work
  pc, call, reg,      \* a thread: its place, call, and what it has loaded
  told,    \* history: the last state the callback gave of each input
  asked,   \* history: the state last asked for
  mixed,   \* history: inputs with overlapping calls, or a timer in a call
  stale,   \* history: inputs set by set_all_state while their timer ran
  untold,  \* history: inputs whose last change the callback was not told
  damaged  \* history: an interrupt came between a load and its store

masks == <<status, reported, hyst>>
timers == <<timer, pending>>
events == <<queue, submitted, running, told>>
history == <<asked, mixed, stale, untold, damaged>>
vars == <<masks, timers, events, history, mutex, pc, call, reg>>

Rows == DOMAIN Config
Inputs == {Config[i] : i \in Rows}

\* find_digital_input_config.
RowOf(a) == CHOOSE i \in Rows : Config[i] = a

ASSUME InputAssumption ==
  /\ \E n \in 1 .. 32 : Rows = 0 .. n - 1
  /\ Inputs \subseteq 0 .. 31
  /\ \A i, j \in Rows : Config[i] = Config[j] => i = j
  /\ ActiveHigh \subseteq Inputs /\ High \subseteq Inputs /\ Debounced \subseteq Rows /\ QueueSize \in 1 .. 10
  /\ None \notin Threads /\ \A t \in Threads : None \notin CallsOf[t]
  /\ \A t \in Threads : \A c \in CallsOf[t] :
       \/ c.op = "update" /\ c.id \in Inputs /\ c.state \in BOOLEAN
       \/ c.op = "setAll" /\ c.mask \subseteq Inputs
       \/ c.op = "hysteresis" /\ c.id \in Inputs /\ c.on \in BOOLEAN
       \/ c.op = "flush"

-----------------------------------------------------------------------------
With(mask, a, state) == IF state THEN mask \cup {a} ELSE mask \ {a}

\* The inputs a call changes.
Touches(c) ==
  CASE c = None -> {} [] c # None /\ c.op = "update" -> {c.id}
    [] c # None /\ c.op = "setAll" -> Inputs [] OTHER -> {}

\* After digital_input_init; the callback is taken to know the first status.
Init ==
  /\ status = {a \in Inputs : (a \in High) # (a \in ActiveHigh)}
  /\ reported = status
  /\ hyst = Debounced
  /\ timer = {} /\ pending = [i \in Rows |-> FALSE]
  /\ mutex = None
  /\ queue = <<>> /\ submitted = FALSE /\ running = FALSE
  /\ pc = [t \in Threads |-> "idle"] /\ call = [t \in Threads |-> None]
  /\ reg = [t \in Threads |-> <<{}, {}>>]
  /\ told = [a \in Inputs |-> a \in status] /\ asked = [a \in Inputs |-> a \in status]
  /\ mixed = {} /\ stale = {} /\ untold = {} /\ damaged = FALSE

Goto(t, label) == pc' = [pc EXCEPT ![t] = label]
Onward(t, label) == Goto(t, label) /\ UNCHANGED call

\* A critical section that is one access is one step.
Section == mutex = None /\ UNCHANGED mutex

Call(t) ==
  /\ pc[t] = "idle"
  /\ \E c \in CallsOf[t] :
       LET entry == [update |-> "check", setAll |-> "assign", hysteresis |-> "configure", flush |-> "flush"]
       IN  /\ call' = [call EXCEPT ![t] = c]
           /\ Goto(t, entry[c.op])
           /\ mixed' = mixed \cup
                (Touches(c) \cap UNION {Touches(call[u]) : u \in Threads \ {t}})
           /\ asked' = [a \in Inputs |->
                CASE a \notin Touches(c) -> asked[a]
                  [] a \in Touches(c) /\ c.op = "update" -> c.state
                  [] OTHER -> a \in c.mask]
  /\ UNCHANGED <<masks, timers, events, mutex, reg, stale, untold, damaged>>

Return(t) ==
  /\ pc[t] = "return"
  /\ Goto(t, "idle")
  /\ call' = [call EXCEPT ![t] = None]
  /\ UNCHANGED <<masks, timers, events, mutex, reg, history>>

-----------------------------------------------------------------------------
(* digital_input_update_status.                                            *)

\* digital_input_get_status.
Check(t) ==
  /\ pc[t] = "check" /\ Section
  /\ Onward(t, IF (call[t].id \in status) = call[t].state THEN "stop" ELSE "restart")
  /\ UNCHANGED <<masks, timers, events, reg, history>>

\* The timer of the row whose number is the id; a row past the table has none.
Stop(t) ==
  /\ pc[t] = "stop"
  /\ timer' = timer \ {call[t].id}
  /\ stale' = stale \ {call[t].id}
  /\ Onward(t, "return")
  /\ UNCHANGED <<masks, pending, events, mutex, reg, asked, mixed, untold, damaged>>

\* Seeded fault: a timer that runs is not stopped.
RestartOnly(t) ==
  /\ pc[t] = "restart"
  /\ stale' = stale \ {call[t].id}
  /\ Onward(t, IF RowOf(call[t].id) \in hyst THEN "pend" ELSE "load")
  /\ UNCHANGED <<masks, timer, pending, events, mutex, reg, asked, mixed, untold, damaged>>

\* The hysteresis is read outside the mutex, and the timer of the row stopped.
Restart(t) ==
  /\ pc[t] = "restart"
  /\ timer' = timer \ {RowOf(call[t].id)}
  /\ stale' = stale \ {call[t].id}
  /\ Onward(t, IF RowOf(call[t].id) \in hyst THEN "pend" ELSE "load")
  /\ UNCHANGED <<masks, pending, events, mutex, reg, asked, mixed, untold, damaged>>

Pend(t) ==
  /\ pc[t] = "pend"
  /\ pending' = [pending EXCEPT ![RowOf(call[t].id)] = call[t].state]
  /\ Onward(t, "arm")
  /\ UNCHANGED <<masks, timer, events, mutex, reg, history>>

Arm(t) ==
  /\ pc[t] = "arm"
  /\ timer' = timer \cup {RowOf(call[t].id)}
  /\ Onward(t, "return")
  /\ UNCHANGED <<masks, pending, events, mutex, reg, history>>

Load(t) ==
  /\ pc[t] = "load" /\ mutex = None
  /\ mutex' = t
  /\ reg' = [reg EXCEPT ![t] = <<status, reported>>]
  /\ Onward(t, "store")
  /\ UNCHANGED <<masks, timers, events, history>>

\* Both masks change in one critical section; no event unless it is news.
Store(t) ==
  LET a == call[t].id
      state == call[t].state
  IN  /\ pc[t] = "store"
      /\ status' = With(reg[t][1], a, state)
      /\ reported' = With(reg[t][2], a, state)
      /\ mutex' = None /\ reg' = [reg EXCEPT ![t] = <<{}, {}>>]
      /\ Onward(t, IF (a \in reg[t][2]) # state THEN "put" ELSE "return")
      /\ UNCHANGED <<hyst, timers, events, history>>

\* Seeded fault: events are put without regard to the size of the queue.
EnqueueUnbounded(a, state) ==
  queue' = Append(queue, [id |-> a, state |-> state]) /\ UNCHANGED untold

\* k_msgq_put without waiting.
Enqueue(a, state) ==
  IF Len(queue) < QueueSize
    THEN queue' = Append(queue, [id |-> a, state |-> state]) /\ untold' = untold \ {a}
    ELSE UNCHANGED queue /\ untold' = untold \cup {a}

\* digital_input_event_add.
Put(t) ==
  /\ pc[t] = "put"
  /\ Enqueue(call[t].id, call[t].state)
  /\ Onward(t, IF Len(queue) < QueueSize THEN "submit" ELSE "return")
  /\ UNCHANGED <<masks, timers, submitted, running, told, mutex, reg, asked, mixed, stale, damaged>>

\* Seeded fault: the work is not submitted for the event that fills the queue.
SubmitUnlessFull(t) ==
  /\ pc[t] = "submit"
  /\ submitted' = (submitted \/ Len(queue) < QueueSize)
  /\ Onward(t, "return")
  /\ UNCHANGED <<masks, timers, queue, running, told, mutex, reg, history>>

Submit(t) ==
  /\ pc[t] = "submit"
  /\ submitted' = TRUE
  /\ Onward(t, "return")
  /\ UNCHANGED <<masks, timers, queue, running, told, mutex, reg, history>>

-----------------------------------------------------------------------------
(* The other calls.                                                        *)

\* digital_input_set_all_state: no timer is stopped and nobody told.
AssignStatus(t) ==
  /\ pc[t] = "assign" /\ mutex = None
  /\ mutex' = t
  /\ status' = call[t].mask
  /\ untold' = untold \cup {a \in Inputs : (a \in status) # (a \in status')}
  /\ stale' = stale \cup {Config[i] : i \in timer}
  /\ Onward(t, "assignReported")
  /\ UNCHANGED <<reported, hyst, timers, events, reg, asked, mixed, damaged>>

\* Seeded fault: only the status is assigned.
AssignNothing(t) ==
  /\ pc[t] = "assignReported"
  /\ mutex' = None
  /\ Onward(t, "return")
  /\ UNCHANGED <<masks, timers, events, reg, history>>

AssignReported(t) ==
  /\ pc[t] = "assignReported"
  /\ reported' = call[t].mask
  /\ mutex' = None
  /\ Onward(t, "return")
  /\ UNCHANGED <<status, hyst, timers, events, reg, history>>

\* digital_input_set_hysteresis.
Configure(t) ==
  /\ pc[t] = "configure" /\ Section
  /\ hyst' = With(hyst, RowOf(call[t].id), call[t].on)
  /\ Onward(t, "return")
  /\ UNCHANGED <<status, reported, timers, events, reg, history>>

\* digital_input_flush_event_queue.
Flush(t) ==
  /\ pc[t] = "flush"
  /\ queue' = <<>>
  /\ untold' = untold \cup {e.id : e \in ToSet(queue)}
  /\ Onward(t, "return")
  /\ UNCHANGED <<masks, timers, submitted, running, told, mutex, reg, asked, mixed, stale, damaged>>

-----------------------------------------------------------------------------
(* The timer interrupt and the work queue.                                 *)

\* hysteresis_timer_callback.
Expire(i) ==
  LET a == Config[i]
      news == (a \in reported) # pending[i]
  IN  /\ i \in timer
      /\ timer' = timer \ {i}
      /\ status' = With(status, a, pending[i])
      /\ reported' = With(reported, a, pending[i])
      /\ IF news THEN Enqueue(a, pending[i]) ELSE UNCHANGED <<queue, untold>>
      /\ submitted' = (submitted \/ (news /\ Len(queue) < QueueSize))
      /\ mixed' = IF \E t \in Threads : a \in Touches(call[t]) THEN mixed \cup {a} ELSE mixed
      /\ damaged' = (damaged \/ mutex # None)
      /\ UNCHANGED <<hyst, pending, running, told, mutex, pc, call, reg, asked, stale>>

WorkStarts ==
  /\ submitted /\ ~running
  /\ submitted' = FALSE /\ running' = TRUE
  /\ UNCHANGED <<masks, timers, queue, told, history, mutex, pc, call, reg>>

\* Seeded fault: the newest event is delivered first.
DeliverLast ==
  /\ running /\ queue # <<>>
  /\ queue' = Front(queue)
  /\ told' = [told EXCEPT ![Last(queue).id] = Last(queue).state]
  /\ UNCHANGED <<masks, timers, submitted, running, history, mutex, pc, call, reg>>

\* input_change_work_handler: one event.
Deliver ==
  /\ running /\ queue # <<>>
  /\ queue' = Tail(queue)
  /\ told' = [told EXCEPT ![Head(queue).id] = Head(queue).state]
  /\ UNCHANGED <<masks, timers, submitted, running, history, mutex, pc, call, reg>>

WorkEnds ==
  /\ running /\ queue = <<>>
  /\ running' = FALSE
  /\ UNCHANGED <<masks, timers, queue, submitted, told, history, mutex, pc, call, reg>>

Step(t) ==
  \/ Call(t) \/ Return(t)
  \/ Check(t) \/ Stop(t) \/ Restart(t) \/ Pend(t) \/ Arm(t)
  \/ Load(t) \/ Store(t) \/ Put(t) \/ Submit(t)
  \/ AssignStatus(t) \/ AssignReported(t) \/ Configure(t) \/ Flush(t)

Next ==
  \/ \E t \in Threads : Step(t)
  \/ \E i \in Rows : Expire(i)
  \/ WorkStarts \/ Deliver \/ WorkEnds

Spec == Init /\ [][Next]_vars

-----------------------------------------------------------------------------
(* Properties.                                                             *)

Labels == {"idle", "return", "check", "stop", "restart", "pend", "arm", "load", "store", "put",
           "submit", "assign", "assignReported", "configure", "flush"}

TypeOK ==
  /\ status \subseteq Inputs /\ reported \subseteq Inputs
  /\ hyst \subseteq Rows /\ timer \subseteq Rows /\ pending \in [Rows -> BOOLEAN]
  /\ mutex \in Threads \cup {None}
  /\ \A t \in Threads : mutex = t <=> pc[t] \in {"store", "assignReported"}
  /\ queue \in Seq([id : Inputs, state : BOOLEAN]) /\ Len(queue) <= QueueSize
  /\ {submitted, running, damaged} \subseteq BOOLEAN
  /\ pc \in [Threads -> Labels]
  /\ \A t \in Threads : call[t] \in CallsOf[t] \cup {None} /\ (call[t] = None <=> pc[t] = "idle")
  /\ reg \in [Threads -> (SUBSET Inputs) \X (SUBSET Inputs)]
  /\ told \in [Inputs -> BOOLEAN] /\ asked \in [Inputs -> BOOLEAN]
  /\ mixed \subseteq Inputs /\ stale \subseteq Inputs /\ untold \subseteq Inputs

\* Nobody changes the input.
Quiet(a) == \A t \in Threads : a \notin Touches(call[t])

\* What is taken as reported is the status, whenever nobody holds the mutex:
\* a later change is never mistaken for an old one (digital_input.c:118-130,
\* :392-403, :420-421).
ReportedIsStatus == mutex = None /\ ~damaged => reported = status

\* The debounce ends in what was last asked for: the input has that status,
\* or its timer runs to bring it there -- unless calls, or a call and the
\* timer, overlapped on it, or digital_input_set_all_state set it while the
\* timer ran (:332-406).
LastUpdateHolds ==
  \A a \in Inputs :
    Quiet(a) /\ a \notin mixed \cup stale /\ ~damaged =>
      IF RowOf(a) \in timer THEN pending[RowOf(a)] = asked[a] /\ asked[a] # (a \in status)
                            ELSE asked[a] = (a \in status)

\* What the callback was last told of an input is its status, unless the
\* event was lost to a full or flushed queue or the change was that of
\* digital_input_set_all_state (:49-94).
CallbackToldTheTruth ==
  \A a \in Inputs \ (mixed \cup untold) :
    Quiet(a) /\ ~damaged /\ (\A e \in ToSet(queue) : e.id # a) => told[a] = (a \in status)

\* An event in the queue has somebody to deliver it (:72-75).
NoEventIsStranded ==
  queue # <<>> => submitted \/ running \/ \E t \in Threads : pc[t] = "submit"

\* Claim of digital_input.h:122 ("This function applies hysteresis if
\* configured") for any ids: an input whose last update was to the status it
\* had is not changed by a timer of an earlier update.
CancelledUpdateIsForgotten ==
  \A a \in Inputs :
    Quiet(a) /\ a \notin mixed \cup stale /\ ~damaged /\ asked[a] = (a \in status)
    => RowOf(a) \notin timer
=============================================================================
