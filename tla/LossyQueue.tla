----------------------------- MODULE LossyQueue -----------------------------
(***************************************************************************)
(* What a caller of src/isotp_conn.c may count on: the accepted messages   *)
(* leave in the order they came, one at a time, and the only ones lost are *)
(* the oldest that wait and the one whose sending fails.                   *)
(***************************************************************************)
EXTENDS Sequences

CONSTANTS Messages, NoMessage

VARIABLES
  waiting,  \* the accepted messages, oldest first
  taken     \* the message that is being sent

Init == waiting = <<>> /\ taken = NoMessage

Add == \E m \in Messages : waiting' = Append(waiting, m) /\ UNCHANGED taken

DropOldest == waiting # <<>> /\ waiting' = Tail(waiting) /\ UNCHANGED taken

Take ==
  /\ taken = NoMessage /\ waiting # <<>>
  /\ taken' = Head(waiting) /\ waiting' = Tail(waiting)

\* isotp_conn_transmit: a message that does not wait.
TakeDirectly ==
  /\ taken = NoMessage /\ taken' \in Messages
  /\ UNCHANGED waiting

Finish == taken # NoMessage /\ taken' = NoMessage /\ UNCHANGED waiting

Next == Add \/ DropOldest \/ Take \/ TakeDirectly \/ Finish
=============================================================================
