-------------------------- MODULE MCDigitalInput --------------------------
(* Two inputs, the first debounced, a queue of two events, two threads.    *)
EXTENDS DigitalInput

CONSTANTS t1, t2

\* Ids that are row numbers, and ids that are not.
Numbered == 0 :> 0 @@ 1 :> 1
Swapped == 0 :> 1 @@ 1 :> 0

Update(a) == {[op |-> "update", id |-> a, state |-> s] : s \in BOOLEAN}
MCCalls == t1 :> Update(0)
        @@ t2 :> {[op |-> "update", id |-> 1, state |-> TRUE], [op |-> "setAll", mask |-> {0}],
                  [op |-> "hysteresis", id |-> 0, on |-> FALSE], [op |-> "flush"]}

\* Every property is about undamaged masks only.
Undamaged == ~damaged
=============================================================================
