------------------------------ MODULE MCAlarm ------------------------------
(* Two alarms, the first debounced, a queue of one event, two threads.     *)
EXTENDS Alarm

CONSTANTS t1, t2

Set(a) == {[op |-> "set", id |-> a, state |-> s] : s \in BOOLEAN}
MCCalls == t1 :> Set(0)
        @@ t2 :> {[op |-> "force", mask |-> {0}], [op |-> "clearMemory"], [op |-> "flush"],
                  [op |-> "hysteresis", id |-> 0, on |-> FALSE]}

\* Every property is about undamaged masks only.
Undamaged == ~damaged
=============================================================================
