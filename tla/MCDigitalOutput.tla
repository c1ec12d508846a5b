-------------------------- MODULE MCDigitalOutput --------------------------
(***************************************************************************)
(* Two threads on two valves of opposite polarity.                         *)
(***************************************************************************)
EXTENDS DigitalOutput

CONSTANTS t1, t2, v1, v2

MCConfigList == <<v1, v2>>

On(op, v) == [op |-> op, id |-> v]
Force(m) == [op |-> "force", mask |-> m]

MCCallsOf ==
  [t \in Threads |->
     {On(op, v) : op \in {"open", "close", "status"}, v \in Valves}
       \cup {Force(m) : m \in IF t = t1 THEN SUBSET Valves ELSE {{v1}}}]
=============================================================================
