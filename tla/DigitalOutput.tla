--------------------------- MODULE DigitalOutput ---------------------------
(***************************************************************************)
(* libraries/digital_output/digital_output.c: valves on GPIO pins with a   *)
(* mask of the states they are believed to have.  An operation marks the   *)
(* mask under the mutex, drives the pin outside it, and takes the mark     *)
(* back under the mutex again if the driver fails, so two threads on one   *)
(* valve interleave between the mark and the pin.                          *)
(***************************************************************************)
EXTENDS Integers, Sequences

CONSTANTS
  Threads,
  Valves,      \* the ids of config_list
  ConfigList,  \* them in the order of config_list
  ActiveHigh,  \* the valves with .active_high
  CallsOf,     \* the calls of a thread
  None

VARIABLES
  mask,   \* status_mask: the valves marked open
  pin,    \* the level of each pin
  pc,     \* where a thread is
  call,   \* its call
  valve,  \* the valve it operates on
  want,   \* whether it opens that valve
  seen,   \* is_open as digital_output_get_status read it
  snap,   \* current_mask of digital_output_force_set
  rest,   \* the valves its loop has still to visit
  ret,    \* the result
  told,   \* history: the state the last callback gave of each valve
  shared, \* history: valves two calls overlapped on, until a call of
          \* digital_output_get_status had the valve to itself
  mixed,  \* history: valves two calls ever overlapped on
  alone,  \* history: no other call overlapped with the thread's own
  failed  \* history: the driver failed in the thread's call

history == <<told, shared, mixed, alone, failed>>
vars == <<mask, pin, pc, call, valve, want, seen, snap, rest, ret, history>>

ASSUME ValvesAssumption ==
  /\ ConfigList \in Seq(Valves) /\ \A v \in Valves : \E i \in DOMAIN ConfigList : ConfigList[i] = v
  /\ ActiveHigh \subseteq Valves
  /\ \A t \in Threads : \A c \in CallsOf[t] :
       /\ c.op \in {"open", "close", "status", "force"}
       /\ IF c.op = "force" THEN c.mask \subseteq Valves ELSE c.id \in Valves
  /\ None \notin Valves /\ \A t \in Threads : None \notin CallsOf[t]

-----------------------------------------------------------------------------
\* The level that opens or closes a valve.
Level(v, open) == IF open <=> v \in ActiveHigh THEN 1 ELSE 0
IsOpen(v) == pin[v] = Level(v, TRUE)

Marked(v, open) == IF open THEN mask \cup {v} ELSE mask \ {v}

\* The valves a call may change the mark or the pin of.
Touches(c) == IF c = None THEN {} ELSE IF c.op = "force" THEN Valves ELSE {c.id}

\* After digital_output_init: every valve closed.
Init ==
  /\ mask = {} /\ pin = [v \in Valves |-> Level(v, FALSE)]
  /\ pc = [t \in Threads |-> "idle"]
  /\ call = [t \in Threads |-> None]
  /\ valve = [t \in Threads |-> None]
  /\ want = [t \in Threads |-> FALSE]
  /\ seen = [t \in Threads |-> FALSE]
  /\ snap = [t \in Threads |-> {}]
  /\ rest = [t \in Threads |-> <<>>]
  /\ ret = [t \in Threads |-> "OK"]
  /\ told = [v \in Valves |-> FALSE]
  /\ shared = {} /\ mixed = {}
  /\ alone = [t \in Threads |-> TRUE]
  /\ failed = [t \in Threads |-> FALSE]

Goto(t, label) == pc' = [pc EXCEPT ![t] = label]

\* Which calls overlap: no state of the code.
Meet(t, c) ==
  LET met == {u \in Threads \ {t} : Touches(call[u]) \cap Touches(c) # {}}
      on == Touches(c) \cap UNION {Touches(call[u]) : u \in met}
  IN  /\ shared' = shared \cup on /\ mixed' = mixed \cup on
      /\ alone' = [u \in Threads |-> IF u = t THEN met = {} ELSE alone[u] /\ u \notin met]
      /\ failed' = [failed EXCEPT ![t] = FALSE]
      /\ UNCHANGED told

Call(t) ==
  /\ pc[t] = "idle"
  /\ \E c \in CallsOf[t] :
       /\ call' = [call EXCEPT ![t] = c]
       /\ Meet(t, c)
       /\ \/ /\ c.op \in {"open", "close"} /\ Goto(t, "mark")
             /\ valve' = [valve EXCEPT ![t] = c.id]
             /\ want' = [want EXCEPT ![t] = c.op = "open"]
          \/ /\ c.op = "status" /\ Goto(t, "read")
             /\ valve' = [valve EXCEPT ![t] = c.id]
             /\ UNCHANGED want
          \/ /\ c.op = "force" /\ Goto(t, "snapshot")
             /\ UNCHANGED <<valve, want>>
  /\ UNCHANGED <<mask, pin, seen, snap, rest, ret>>

-----------------------------------------------------------------------------
(* digital_output_open and digital_output_close.                           *)

\* Seeded fault: a valve that is as asked ends the whole call.
FinishIdle(t, result) == ret' = [ret EXCEPT ![t] = result] /\ Goto(t, "idle")

\* A call of the user returns; one made by digital_output_force_set goes on
\* with the next valve whatever its result.
Finish(t, result) ==
  /\ ret' = [ret EXCEPT ![t] = result]
  /\ IF call[t].op = "force" THEN Goto(t, "next") ELSE Goto(t, "return")

\* The first critical section.
Mark(t) ==
  /\ pc[t] = "mark"
  /\ \/ /\ (valve[t] \in mask) = want[t]
        /\ Finish(t, "OK") /\ UNCHANGED mask
     \/ /\ (valve[t] \in mask) # want[t]
        /\ mask' = Marked(valve[t], want[t])
        /\ Goto(t, "drive") /\ UNCHANGED ret
  /\ UNCHANGED <<pin, call, valve, want, seen, snap, rest, history>>

Drive(t) ==
  /\ pc[t] = "drive"
  /\ pin' = [pin EXCEPT ![valve[t]] = Level(valve[t], want[t])]
  /\ Goto(t, "notify")
  /\ UNCHANGED <<mask, call, valve, want, seen, snap, rest, ret, history>>

\* gpio_pin_set_dt fails and leaves the pin.
DriveFails(t) ==
  /\ pc[t] = "drive"
  /\ Goto(t, "rollback")
  /\ failed' = [failed EXCEPT ![t] = TRUE]
  /\ UNCHANGED <<mask, pin, call, valve, want, seen, snap, rest, ret, told, shared, mixed, alone>>

\* Seeded fault: the mark stays although the driver failed.
RollbackForgotten(t) ==
  /\ pc[t] = "rollback"
  /\ Finish(t, "EIO")
  /\ UNCHANGED <<mask, pin, call, valve, want, seen, snap, rest, history>>

Rollback(t) ==
  /\ pc[t] = "rollback"
  /\ mask' = Marked(valve[t], ~want[t])
  /\ Finish(t, "EIO")
  /\ UNCHANGED <<pin, call, valve, want, seen, snap, rest, history>>

\* Seeded fault: the callback of a close says the valve is open.
NotifyOpen(t) ==
  /\ pc[t] = "notify"
  /\ told' = [told EXCEPT ![valve[t]] = TRUE]
  /\ Finish(t, "OK")
  /\ UNCHANGED <<mask, pin, call, valve, want, seen, snap, rest, shared, mixed, alone, failed>>

Notify(t) ==
  /\ pc[t] = "notify"
  /\ told' = [told EXCEPT ![valve[t]] = want[t]]
  /\ Finish(t, "OK")
  /\ UNCHANGED <<mask, pin, call, valve, want, seen, snap, rest, shared, mixed, alone, failed>>

-----------------------------------------------------------------------------
(* digital_output_get_status: the pin is read first, and what it showed is *)
(* written to the mask in a critical section of its own.                   *)

ReadPin(t) ==
  /\ pc[t] = "read"
  /\ seen' = [seen EXCEPT ![t] = IsOpen(valve[t])]
  /\ Goto(t, "sync")
  /\ UNCHANGED <<mask, pin, call, valve, want, snap, rest, ret, history>>

ReadFails(t) ==
  /\ pc[t] = "read"
  /\ failed' = [failed EXCEPT ![t] = TRUE]
  /\ Finish(t, "false")
  /\ UNCHANGED <<mask, pin, call, valve, want, seen, snap, rest, told, shared, mixed, alone>>

Sync(t) ==
  /\ pc[t] = "sync"
  /\ mask' = Marked(valve[t], seen[t])
  /\ shared' = IF alone[t] THEN shared \ {valve[t]} ELSE shared
  /\ Finish(t, IF seen[t] THEN "true" ELSE "false")
  /\ UNCHANGED <<pin, call, valve, want, seen, snap, rest, told, mixed, alone, failed>>

-----------------------------------------------------------------------------
(* digital_output_force_set: one look at the mask, then a loop of calls.   *)

Snapshot(t) ==
  /\ pc[t] = "snapshot"
  /\ snap' = [snap EXCEPT ![t] = mask]
  /\ rest' = [rest EXCEPT ![t] = ConfigList]
  /\ Goto(t, "next")
  /\ UNCHANGED <<mask, pin, call, valve, want, seen, ret, history>>

\* Seeded fault: the loop only opens valves.
NextValveOpensOnly(t) ==
  /\ pc[t] = "next" /\ rest[t] # <<>>
  /\ LET v == Head(rest[t])
     IN  /\ rest' = [rest EXCEPT ![t] = Tail(@)]
         /\ IF v \in call[t].mask /\ v \notin snap[t]
              THEN /\ valve' = [valve EXCEPT ![t] = v]
                   /\ want' = [want EXCEPT ![t] = TRUE]
                   /\ Goto(t, "mark")
              ELSE UNCHANGED <<valve, want, pc>>
  /\ UNCHANGED <<mask, pin, call, seen, snap, ret, history>>

NextValve(t) ==
  /\ pc[t] = "next" /\ rest[t] # <<>>
  /\ LET v == Head(rest[t])
     IN  /\ rest' = [rest EXCEPT ![t] = Tail(@)]
         /\ IF (v \in call[t].mask) # (v \in snap[t])
              THEN /\ valve' = [valve EXCEPT ![t] = v]
                   /\ want' = [want EXCEPT ![t] = v \in call[t].mask]
                   /\ Goto(t, "mark")
              ELSE UNCHANGED <<valve, want, pc>>
  /\ UNCHANGED <<mask, pin, call, seen, snap, ret, history>>

\* digital_output_force_set returns 0 whatever its calls returned.
EndForce(t) ==
  /\ pc[t] = "next" /\ rest[t] = <<>>
  /\ Goto(t, "return")
  /\ ret' = [ret EXCEPT ![t] = "OK"]
  /\ UNCHANGED <<mask, pin, call, valve, want, seen, snap, rest, history>>

Return(t) ==
  /\ pc[t] = "return"
  /\ Goto(t, "idle")
  /\ call' = [call EXCEPT ![t] = None]
  /\ valve' = [valve EXCEPT ![t] = None]
  /\ want' = [want EXCEPT ![t] = FALSE]
  /\ seen' = [seen EXCEPT ![t] = FALSE]
  /\ snap' = [snap EXCEPT ![t] = {}]
  /\ ret' = [ret EXCEPT ![t] = "OK"]
  /\ alone' = [alone EXCEPT ![t] = TRUE]
  /\ failed' = [failed EXCEPT ![t] = FALSE]
  /\ UNCHANGED <<mask, pin, rest, told, shared, mixed>>

Step(t) ==
  \/ Call(t) \/ Mark(t) \/ Drive(t) \/ DriveFails(t) \/ Rollback(t) \/ Notify(t)
  \/ ReadPin(t) \/ ReadFails(t) \/ Sync(t)
  \/ Snapshot(t) \/ NextValve(t) \/ EndForce(t) \/ Return(t)

Next == \E t \in Threads : Step(t)

Spec == Init /\ [][Next]_vars

-----------------------------------------------------------------------------
(* Properties.                                                             *)

Labels == {"idle", "mark", "drive", "rollback", "notify", "read", "sync", "snapshot", "next", "return"}

TypeOK ==
  /\ mask \subseteq Valves
  /\ pin \in [Valves -> {0, 1}]
  /\ pc \in [Threads -> Labels]
  /\ \A t \in Threads : call[t] \in CallsOf[t] \cup {None} /\ (call[t] = None <=> pc[t] = "idle")
  /\ valve \in [Threads -> Valves \cup {None}]
  /\ want \in [Threads -> BOOLEAN] /\ seen \in [Threads -> BOOLEAN]
  /\ snap \in [Threads -> SUBSET Valves] /\ rest \in [Threads -> Seq(Valves)]
  /\ shared \subseteq mixed /\ mixed \subseteq Valves

\* Nobody operates on the valve.
Quiet(v) == \A t \in Threads : v \notin Touches(call[t])

\* The mask and the pin of a valve agree whenever nobody operates on it,
\* driver failures and roll-backs included, unless two calls overlapped on it
\* and no digital_output_get_status was alone with it since
\* (digital_output.c:92-240).
MaskMatchesPins == \A v \in Valves : Quiet(v) /\ v \notin shared => (v \in mask <=> IsOpen(v))

\* The callback is never wrong about a valve for good: the last state it gave
\* is that of the pin, unless two calls overlapped on the valve (:133-136).
CallbackToldTheTruth == \A v \in Valves : Quiet(v) /\ v \notin mixed => (told[v] <=> IsOpen(v))

\* A force that no driver error and no other call disturbed leaves exactly
\* the valves asked for open, whatever they were before (:262-297).
ForceSetsAll ==
  \A t \in Threads :
    pc[t] = "return" /\ call[t].op = "force" /\ alone[t] /\ ~failed[t] /\ shared = {}
    => mask = call[t].mask /\ \A v \in Valves : IsOpen(v) <=> v \in mask

\* Claim of digital_output.h:31 ("Mask with current valve states"): the mask
\* and the pins agree whenever nobody operates on the valves.
MaskIsCurrent == \A v \in Valves : Quiet(v) => (v \in mask <=> IsOpen(v))
=============================================================================
