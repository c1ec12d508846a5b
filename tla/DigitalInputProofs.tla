------------------------- MODULE DigitalInputProofs -------------------------
(***************************************************************************)
(* Proofs about DigitalInput, for any table of inputs and any threads:     *)
(* what is taken as reported is the status, an event in the queue has      *)
(* somebody to deliver it, the debounce ends in what was asked for, the    *)
(* callback was told the truth, and every variable has its type.           *)
(***************************************************************************)
EXTENDS DigitalInput, TLAPS

\* The mutex is owned by the thread between what it loads and what it stores.
Owned ==
  /\ pc \in [Threads -> Labels]
  /\ call = [t \in Threads |-> call[t]] /\ reg = [t \in Threads |-> reg[t]]
  /\ \A t \in Threads : mutex = t <=> pc[t] \in {"store", "assignReported"}
  /\ mutex \in Threads \cup {None}

\* The masks agree, but for the thread that has assigned the first of them;
\* and what a thread has loaded is still there when it stores.
Agree ==
  /\ (\A t \in Threads : pc[t] # "assignReported") => reported = status
  /\ \A t \in Threads : pc[t] = "assignReported" => status = call[t].mask
  /\ \A t \in Threads : pc[t] = "store" => reg[t] = <<status, reported>>

\* Agree is what no interrupt between a load and its store took away.
IInv == Owned /\ (~damaged => Agree)

-----------------------------------------------------------------------------
LEMMA InitInv == Init => IInv
BY InputAssumption DEF Init, IInv, Owned, Agree, Labels

\* A step of a thread outside every critical section that goes on outside,
\* leaves the masks and the mutex alone.
LEMMA Outside ==
  ASSUME IInv, NEW t \in Threads, NEW l \in Labels \ {"store", "assignReported"},
         pc[t] \notin {"store", "assignReported"}, pc' = [pc EXCEPT ![t] = l],
         call' = call \/ \E c : call' = [call EXCEPT ![t] = c],
         UNCHANGED <<status, reported, mutex, reg, damaged>>
  PROVE  IInv'
<1> USE DEF IInv
<1>1. \A u \in Threads : pc'[u] = IF u = t THEN l ELSE pc[u] BY DEF Owned
<1>2. \A u \in Threads \ {t} : call'[u] = call[u] BY DEF Owned
<1>3. call' = [u \in Threads |-> call'[u]] BY DEF Owned
<1>4. pc' \in [Threads -> Labels] BY DEF Owned
<1>5. Owned' BY <1>1, <1>3, <1>4 DEF Owned
<1>6. Agree => Agree' BY <1>1, <1>2 DEF Agree
<1> QED BY <1>5, <1>6

\* The calls, their returns, and everything that is done without the mutex or
\* in a section of one access (digital_input.c:49-94, 332-406).
LEMMA OutsideSteps ==
  ASSUME IInv, NEW t \in Threads,
         \/ Call(t) \/ Return(t) \/ Check(t) \/ Stop(t) \/ Restart(t) \/ Pend(t) \/ Arm(t)
         \/ Put(t) \/ Submit(t) \/ Configure(t) \/ Flush(t)
  PROVE  IInv'
<1> USE DEF Goto, Onward, Section, masks, timers, events, history, Labels
<1>1. CASE Call(t)
  <2>1. PICK c \in CallsOf[t] :
          /\ call' = [call EXCEPT ![t] = c]
          /\ pc' = [pc EXCEPT ![t] = [update |-> "check", setAll |-> "assign",
                                     hysteresis |-> "configure", flush |-> "flush"][c.op]]
    BY <1>1 DEF Call
  <2>2. c.op \in {"update", "setAll", "hysteresis", "flush"} BY InputAssumption
  <2>3. PICK l \in {"check", "assign", "configure", "flush"} :
          l = [update |-> "check", setAll |-> "assign",
               hysteresis |-> "configure", flush |-> "flush"][c.op]
    BY <2>2
  <2>4. pc[t] = "idle" /\ UNCHANGED <<status, reported, mutex, reg, damaged>> BY <1>1 DEF Call
  <2> QED BY <2>1, <2>3, <2>4, Outside
<1>2. CASE Return(t)
  <2>1. /\ pc[t] = "return" /\ pc' = [pc EXCEPT ![t] = "idle"]
        /\ call' = [call EXCEPT ![t] = None]
        /\ UNCHANGED <<status, reported, mutex, reg, damaged>>
    BY <1>2 DEF Return
  <2> QED BY <2>1, Outside
<1>3. CASE Check(t)
  <2>1. PICK l \in {"stop", "restart"} : pc' = [pc EXCEPT ![t] = l] BY <1>3 DEF Check
  <2>2. pc[t] = "check" /\ UNCHANGED <<status, reported, mutex, reg, damaged, call>>
    BY <1>3 DEF Check
  <2> QED BY <2>1, <2>2, Outside
<1>4. CASE Stop(t) \/ Arm(t) \/ Submit(t) \/ Configure(t) \/ Flush(t)
  <2>1. /\ pc[t] \in {"stop", "arm", "submit", "configure", "flush"}
        /\ pc' = [pc EXCEPT ![t] = "return"]
        /\ UNCHANGED <<status, reported, mutex, reg, damaged, call>>
    BY <1>4 DEF Stop, Arm, Submit, Configure, Flush
  <2> QED BY <2>1, Outside
<1>5. CASE Restart(t)
  <2>1. PICK l \in {"pend", "load"} : pc' = [pc EXCEPT ![t] = l] BY <1>5 DEF Restart
  <2>2. pc[t] = "restart" /\ UNCHANGED <<status, reported, mutex, reg, damaged, call>>
    BY <1>5 DEF Restart
  <2> QED BY <2>1, <2>2, Outside
<1>6. CASE Pend(t)
  <2>1. /\ pc[t] = "pend" /\ pc' = [pc EXCEPT ![t] = "arm"]
        /\ UNCHANGED <<status, reported, mutex, reg, damaged, call>>
    BY <1>6 DEF Pend
  <2> QED BY <2>1, Outside
<1>7. CASE Put(t)
  <2>1. PICK l \in {"submit", "return"} : pc' = [pc EXCEPT ![t] = l] BY <1>7 DEF Put
  <2>2. pc[t] = "put" /\ UNCHANGED <<status, reported, mutex, reg, damaged, call>>
    BY <1>7 DEF Put
  <2> QED BY <2>1, <2>2, Outside
<1> QED BY <1>1, <1>2, <1>3, <1>4, <1>5, <1>6, <1>7

\* The direct change: what was loaded is stored with one input changed, in
\* both masks (digital_input.c:386-406).
LEMMA LoadStore ==
  ASSUME IInv, NEW t \in Threads, Load(t) \/ Store(t) PROVE IInv'
<1> USE DEF IInv, Onward, Goto, masks, timers, events, history
<1>1. CASE Load(t)
  <2>1. /\ pc[t] = "load" /\ mutex = None /\ mutex' = t
        /\ pc' = [pc EXCEPT ![t] = "store"] /\ reg' = [reg EXCEPT ![t] = <<status, reported>>]
        /\ UNCHANGED <<status, reported, call, damaged>>
    BY <1>1 DEF Load
  <2>2. \A u \in Threads : pc[u] \notin {"store", "assignReported"}
    BY <2>1, InputAssumption DEF Owned
  <2>3. \A u \in Threads : pc'[u] = (IF u = t THEN "store" ELSE pc[u]) BY <2>1 DEF Owned
  <2>4. reg'[t] = <<status, reported>> /\ reg' = [u \in Threads |-> reg'[u]] BY <2>1 DEF Owned
  <2>5. Owned' BY <2>1, <2>2, <2>3, <2>4 DEF Owned, Labels
  <2>6. Agree => Agree' BY <2>1, <2>2, <2>3, <2>4 DEF Agree
  <2> QED BY <2>1, <2>5, <2>6
<1>2. CASE Store(t)
  <2>1. PICK l \in {"put", "return"} : pc' = [pc EXCEPT ![t] = l] BY <1>2 DEF Store
  <2>2. /\ pc[t] = "store" /\ mutex' = None /\ reg' = [reg EXCEPT ![t] = <<{}, {}>>]
        /\ status' = With(reg[t][1], call[t].id, call[t].state)
        /\ reported' = With(reg[t][2], call[t].id, call[t].state)
        /\ UNCHANGED <<call, damaged>>
    BY <1>2 DEF Store
  <2>3. \A u \in Threads : u # t => pc[u] \notin {"store", "assignReported"}
    BY <2>2 DEF Owned
  <2>4. \A u \in Threads : pc'[u] = (IF u = t THEN l ELSE pc[u]) BY <2>1 DEF Owned
  <2>5. \A u \in Threads : pc'[u] \notin {"store", "assignReported"} BY <2>3, <2>4
  <2>6. reg' = [u \in Threads |-> reg'[u]] BY <2>2 DEF Owned
  <2>7. Owned' BY <2>1, <2>2, <2>5, <2>6, InputAssumption DEF Owned, Labels
  <2>8. Agree => status = reported BY <2>2, <2>3 DEF Agree
  <2>9. Agree => status' = reported' BY <2>2, <2>8 DEF Agree
  <2>10. Agree => Agree' BY <2>5, <2>9 DEF Agree
  <2> QED BY <2>2, <2>7, <2>10
<1> QED BY <1>1, <1>2

\* digital_input_set_all_state assigns one mask, then the other
\* (digital_input.c:408-424).
LEMMA Assign ==
  ASSUME IInv, NEW t \in Threads, AssignStatus(t) \/ AssignReported(t) PROVE IInv'
<1> USE DEF IInv, Onward, Goto, masks, timers, events, history
<1>1. CASE AssignStatus(t)
  <2>1. /\ pc[t] = "assign" /\ mutex = None /\ mutex' = t
        /\ pc' = [pc EXCEPT ![t] = "assignReported"] /\ status' = call[t].mask
        /\ UNCHANGED <<reg, reported, call, damaged>>
    BY <1>1 DEF AssignStatus
  <2>2. \A u \in Threads : pc[u] \notin {"store", "assignReported"}
    BY <2>1, InputAssumption DEF Owned
  <2>3. \A u \in Threads : pc'[u] = (IF u = t THEN "assignReported" ELSE pc[u]) BY <2>1 DEF Owned
  <2>4. Owned' BY <2>1, <2>2, <2>3 DEF Owned, Labels
  <2>5. Agree' BY <2>1, <2>2, <2>3 DEF Agree
  <2> QED BY <2>4, <2>5
<1>2. CASE AssignReported(t)
  <2>1. /\ pc[t] = "assignReported" /\ mutex' = None
        /\ pc' = [pc EXCEPT ![t] = "return"] /\ reported' = call[t].mask
        /\ UNCHANGED <<reg, status, call, damaged>>
    BY <1>2 DEF AssignReported
  <2>2. \A u \in Threads : u # t => pc[u] \notin {"store", "assignReported"}
    BY <2>1 DEF Owned
  <2>3. \A u \in Threads : pc'[u] = (IF u = t THEN "return" ELSE pc[u]) BY <2>1 DEF Owned
  <2>4. \A u \in Threads : pc'[u] \notin {"store", "assignReported"} BY <2>2, <2>3
  <2>5. Owned' BY <2>1, <2>3, <2>4, InputAssumption DEF Owned, Labels
  <2>6. Agree => Agree' BY <2>1, <2>4 DEF Agree
  <2> QED BY <2>1, <2>5, <2>6
<1> QED BY <1>1, <1>2

\* The timer changes both masks at once; if it comes while a thread owns the
\* mutex, the masks are damaged (digital_input.c:97-144).
LEMMA ExpireInv == ASSUME IInv, NEW i \in Rows, Expire(i) PROVE IInv'
<1> USE DEF IInv
<1>1. /\ status' = With(status, Config[i], pending[i])
      /\ reported' = With(reported, Config[i], pending[i])
      /\ UNCHANGED <<pc, call, reg, mutex>>
      /\ ~damaged' => ~damaged /\ mutex = None
  BY Zenon DEF Expire
<1>2. Owned' BY <1>1 DEF Owned
<1>3. ASSUME ~damaged' PROVE Agree'
  <2>1. \A u \in Threads : pc[u] \notin {"store", "assignReported"}
    BY <1>1, <1>3, InputAssumption DEF Owned
  <2>2. status' = reported' BY <1>1, <1>3, <2>1 DEF Agree
  <2> QED BY <1>1, <2>1, <2>2 DEF Agree
<1> QED BY <1>2, <1>3

\* The work queue changes neither masks nor threads.
LEMMA Still ==
  ASSUME IInv, UNCHANGED <<status, reported, mutex, reg, damaged, pc, call>> PROVE IInv'
BY DEF IInv, Owned, Agree

-----------------------------------------------------------------------------
LEMMA InvStep == ASSUME IInv, [Next]_vars PROVE IInv'
<1>1. CASE UNCHANGED vars BY <1>1, Still DEF vars, masks, history
<1>2. CASE WorkStarts \/ Deliver \/ WorkEnds
  BY <1>2, Still DEF WorkStarts, Deliver, WorkEnds, masks, history
<1>3. ASSUME NEW i \in Rows, Expire(i) PROVE IInv' BY <1>3, ExpireInv
<1>4. ASSUME NEW t \in Threads, Step(t) PROVE IInv'
  BY <1>4, OutsideSteps, LoadStore, Assign DEF Step
<1> QED BY <1>1, <1>2, <1>3, <1>4 DEF Next

\* IInv holds in every state.
THEOREM Invariance == Spec => []IInv
<1>1. IInv /\ [Next]_vars => IInv' BY InvStep
<1> QED BY <1>1, InitInv, PTL DEF Spec

\* While nobody holds the mutex, what is taken as reported is the status, for
\* any table, threads and calls, until an interrupt damages a mask.
THEOREM StatusIsReported == Spec => []ReportedIsStatus
<1>1. IInv => ReportedIsStatus BY InputAssumption DEF IInv, Owned, Agree, ReportedIsStatus
<1> QED BY <1>1, Invariance, PTL

-----------------------------------------------------------------------------
\* Of IInv this needs only that every thread has one label.
LEMMA StrandedStep == ASSUME IInv, NoEventIsStranded, [Next]_vars PROVE NoEventIsStranded'
<1> USE DEF NoEventIsStranded
<1>0. pc \in [Threads -> Labels] BY DEF IInv, Owned
<1>1. CASE UNCHANGED vars BY <1>1 DEF vars, events
<1>2. CASE WorkStarts BY <1>2 DEF WorkStarts
<1>3. CASE Deliver BY <1>3 DEF Deliver
<1>4. CASE WorkEnds BY <1>4 DEF WorkEnds
<1>5. ASSUME NEW i \in Rows, Expire(i) PROVE NoEventIsStranded'
  <2>1. queue' = queue \/ submitted' BY <1>5 DEF Expire, Enqueue
  <2>2. (submitted => submitted') /\ running' = running /\ pc' = pc BY <1>5 DEF Expire
  <2> QED BY <2>1, <2>2
<1>6. ASSUME NEW t \in Threads, Step(t) PROVE NoEventIsStranded'
  <2>1. CASE Submit(t) BY <2>1 DEF Submit
  <2>2. CASE Flush(t) BY <2>2 DEF Flush
  <2>3. CASE Put(t)
    <3>1. /\ Len(queue) < QueueSize => pc' = [pc EXCEPT ![t] = "submit"]
          /\ ~(Len(queue) < QueueSize) => pc' = [pc EXCEPT ![t] = "return"] /\ queue' = queue
          /\ pc[t] = "put" /\ UNCHANGED <<submitted, running>>
      BY <2>3 DEF Put, Onward, Goto, Enqueue
    <3>2. CASE Len(queue) < QueueSize BY <1>0, <3>1, <3>2
    <3>3. CASE ~(Len(queue) < QueueSize) BY <1>0, <3>1, <3>3
    <3> QED BY <3>2, <3>3
  <2>4. ASSUME ~Submit(t), ~Flush(t), ~Put(t) PROVE NoEventIsStranded'
    <3>1. UNCHANGED <<queue, submitted, running>>
      BY <1>6, <2>4 DEF Step, Call, Return, Check, Stop, Restart, Pend, Arm, Load, Store,
                    AssignStatus, AssignReported, Configure, events
    <3>2. pc[t] # "submit" /\ \E l : pc' = [pc EXCEPT ![t] = l]
      BY <1>6, <2>4 DEF Step, Call, Return, Check, Stop, Restart, Pend, Arm, Load, Store,
                    AssignStatus, AssignReported, Configure, Onward, Goto
    <3> QED BY <1>0, <3>1, <3>2
  <2> QED BY <2>1, <2>2, <2>3, <2>4
<1> QED BY <1>1, <1>2, <1>3, <1>4, <1>5, <1>6 DEF Next

\* An event in the queue always has somebody to deliver it, for any size of
\* the queue and any calls: the handler leaves only an empty queue, and
\* whoever adds an event submits the work after it.
THEOREM EventsAreDelivered == Spec => []NoEventIsStranded
<1>1. Init => NoEventIsStranded BY DEF Init, NoEventIsStranded
<1>2. IInv /\ NoEventIsStranded /\ [Next]_vars => NoEventIsStranded' BY StrandedStep
<1> QED BY <1>1, <1>2, Invariance, PTL DEF Spec

-----------------------------------------------------------------------------
(* The debounce, for tables whose ids are the numbers of their rows: with  *)
(* others k_timer_stop stops the wrong timer, and CancelledUpdateIsForgotten *)
(* is violated.                                                            *)

RowsAreIds == \A i \in Rows : Config[i] = i

\* The calls of the threads, by their labels.
Busy == {"check", "stop", "restart", "pend", "arm", "load", "store"}
Called ==
  /\ \A t \in Threads :
       /\ call[t] \in CallsOf[t] \cup {None} /\ (call[t] = None <=> pc[t] = "idle")
       /\ pc[t] \in Busy \cup {"put", "submit"} => call[t].op = "update"
       /\ pc[t] \in {"assign", "assignReported"} => call[t].op = "setAll"
  /\ pending = [i \in Rows |-> pending[i]]

\* Calls that overlap on an input are mixed there.
Sole ==
  \A a \in Inputs \ mixed : \A t, u \in Threads :
    a \in Touches(call[t]) /\ a \in Touches(call[u]) => t = u

\* A thread that has not yet done to a what it was called for.
Open(t, a) == (pc[t] \in Busy /\ call[t].id = a) \/ pc[t] = "assign"

Settled(a) ==
  IF a \in timer THEN (pending[a] <=> asked[a]) /\ ~(asked[a] <=> a \in status)
                 ELSE asked[a] <=> a \in status

\* What it has found out and done so far.
Pursues(t, a) ==
  /\ pc[t] \in Busy /\ call[t].id = a =>
       /\ asked[a] <=> call[t].state
       /\ pc[t] = "stop" => (a \in status <=> call[t].state)
       /\ pc[t] \in {"restart", "pend", "arm"} => ~(a \in status <=> call[t].state)
       /\ pc[t] \in {"pend", "arm", "load", "store"} => a \notin timer
       /\ pc[t] = "arm" => (pending[a] <=> call[t].state)
  /\ pc[t] = "assign" => (asked[a] <=> a \in call[t].mask)
Pursued(a) ==
  /\ \A t \in Threads : Pursues(t, a)
  /\ a \notin stale /\ (\A t \in Threads : ~Open(t, a)) => Settled(a)
Debounce == \A a \in Inputs \ mixed : ~damaged => Pursued(a)

DebounceInv == IInv /\ Called /\ Sole /\ Debounce

-----------------------------------------------------------------------------
LEMMA CallsAre ==
  ASSUME NEW t \in Threads, NEW c \in CallsOf[t]
  PROVE  /\ c # None /\ c.op \in {"update", "setAll", "hysteresis", "flush"}
         /\ c.op = "update" => c.id \in Inputs /\ Touches(c) = {c.id}
         /\ c.op = "setAll" => c.mask \subseteq Inputs /\ Touches(c) = Inputs
         /\ c.op \notin {"update", "setAll"} => Touches(c) = {}
BY InputAssumption DEF Touches

LEMMA RowIsId ==
  ASSUME RowsAreIds, NEW a \in Inputs PROVE a \in Rows /\ Config[a] = a /\ RowOf(a) = a
<1>1. PICK i \in Rows : Config[i] = a BY DEF Inputs
<1>2. i = a BY <1>1 DEF RowsAreIds
<1> QED BY <1>1, <1>2 DEF RowsAreIds, RowOf

\* The places a step goes to.
LEMMA CallEnters ==
  ASSUME NEW t \in Threads, Call(t)
  PROVE  \E c \in CallsOf[t] :
           /\ call' = [call EXCEPT ![t] = c]
           /\ pc' = [pc EXCEPT ![t] = CASE c.op = "update" -> "check" [] c.op = "setAll" -> "assign"
                                        [] c.op = "hysteresis" -> "configure" [] OTHER -> "flush"]
           /\ mixed' = mixed \cup (Touches(c) \cap UNION {Touches(call[u]) : u \in Threads \ {t}})
           /\ asked' = [a \in Inputs |->
                CASE a \notin Touches(c) -> asked[a]
                  [] a \in Touches(c) /\ c.op = "update" -> c.state
                  [] OTHER -> a \in c.mask]
           /\ pc[t] = "idle" /\ UNCHANGED <<masks, timers, events, mutex, reg, stale, untold, damaged>>
<1>1. PICK c \in CallsOf[t] :
        /\ call' = [call EXCEPT ![t] = c]
        /\ Goto(t, [update |-> "check", setAll |-> "assign", hysteresis |-> "configure", flush |-> "flush"][c.op])
        /\ mixed' = mixed \cup (Touches(c) \cap UNION {Touches(call[u]) : u \in Threads \ {t}})
        /\ asked' = [a \in Inputs |->
             CASE a \notin Touches(c) -> asked[a]
               [] a \in Touches(c) /\ c.op = "update" -> c.state
               [] OTHER -> a \in c.mask]
  BY Zenon DEF Call
<1>2. c.op \in {"update", "setAll", "hysteresis", "flush"} BY CallsAre
<1>3. [update |-> "check", setAll |-> "assign", hysteresis |-> "configure", flush |-> "flush"][c.op]
        = CASE c.op = "update" -> "check" [] c.op = "setAll" -> "assign"
            [] c.op = "hysteresis" -> "configure" [] OTHER -> "flush"
  BY <1>2
<1>4. pc[t] = "idle" /\ UNCHANGED <<masks, timers, events, mutex, reg, stale, untold, damaged>> BY DEF Call
<1> QED BY <1>1, <1>3, <1>4 DEF Goto

\* Every step of a call but its first and last stays in the call.
Inner(t) ==
  \/ Check(t) \/ Stop(t) \/ Restart(t) \/ Pend(t) \/ Arm(t) \/ Load(t) \/ Store(t) \/ Put(t) \/ Submit(t)
  \/ AssignStatus(t) \/ AssignReported(t) \/ Configure(t) \/ Flush(t)

LEMMA InnerGoes ==
  ASSUME IInv, Called, NEW t \in Threads, Inner(t)
  PROVE  /\ UNCHANGED <<call, asked, mixed, damaged>> /\ pc[t] # "idle"
         /\ pc' = [pc EXCEPT ![t] = pc'[t]] /\ pc'[t] # "idle"
         /\ pc'[t] \in Busy \cup {"put", "submit"} => pc[t] \in Busy \cup {"put", "submit"}
         /\ pc'[t] \in {"assign", "assignReported"} => pc[t] = "assign"
         /\ pc'[t] # "assign"
         /\ pending' = [i \in Rows |-> pending'[i]]
<1> USE DEF Inner, Onward, Goto, history, timers, Section, Busy
<1>0. pc \in [Threads -> Labels] BY DEF IInv, Owned
<1>1. UNCHANGED <<call, asked, mixed, damaged>>
  BY DEF Check, Stop, Restart, Pend, Arm, Load, Store, Put, Submit, AssignStatus, AssignReported, Configure, Flush
<1>2. PICK l : pc' = [pc EXCEPT ![t] = l] /\ pc[t] # "idle" /\ l # "idle" /\ l # "assign"
        /\ (l \in Busy \cup {"put", "submit"} => pc[t] \in Busy \cup {"put", "submit"})
        /\ (l \in {"assign", "assignReported"} => pc[t] = "assign")
  <2>1. CASE Check(t)
    <3>1. PICK l \in {"stop", "restart"} : pc' = [pc EXCEPT ![t] = l] BY <2>1 DEF Check
    <3> QED BY <2>1, <3>1 DEF Check
  <2>2. CASE Stop(t) \/ Arm(t) \/ Submit(t) \/ AssignReported(t) \/ Configure(t) \/ Flush(t)
    <3>1. PICK l \in {"return"} : pc' = [pc EXCEPT ![t] = l]
      BY <2>2 DEF Stop, Arm, Submit, AssignReported, Configure, Flush
    <3>2. pc[t] # "idle" BY <2>2 DEF Stop, Arm, Submit, AssignReported, Configure, Flush
    <3> QED BY <3>1, <3>2
  <2>3. CASE Restart(t)
    <3>1. PICK l \in {"pend", "load"} : pc' = [pc EXCEPT ![t] = l] BY <2>3 DEF Restart
    <3> QED BY <2>3, <3>1 DEF Restart
  <2>4. CASE Pend(t) \/ Load(t) \/ AssignStatus(t) BY <2>4 DEF Pend, Load, AssignStatus
  <2>5. CASE Store(t)
    <3>1. PICK l \in {"put", "return"} : pc' = [pc EXCEPT ![t] = l] BY <2>5 DEF Store
    <3> QED BY <2>5, <3>1 DEF Store
  <2>6. CASE Put(t)
    <3>1. PICK l \in {"submit", "return"} : pc' = [pc EXCEPT ![t] = l] BY <2>6 DEF Put
    <3> QED BY <2>6, <3>1 DEF Put
  <2> QED BY <2>1, <2>2, <2>3, <2>4, <2>5, <2>6 DEF Inner
<1>3. pending' = [i \in Rows |-> pending'[i]]
  BY DEF Called, Check, Stop, Restart, Pend, Arm, Load, Store, Put, Submit, AssignStatus, AssignReported, Configure, Flush
<1> QED BY <1>0, <1>1, <1>2, <1>3

LEMMA CalledInv == ASSUME IInv, Called, [Next]_vars PROVE Called'
<1>0. pc \in [Threads -> Labels] /\ call = [t \in Threads |-> call[t]] BY DEF IInv, Owned
<1>1. CASE UNCHANGED vars BY <1>1 DEF vars, timers, Called
<1>2. CASE WorkStarts \/ Deliver \/ WorkEnds BY <1>2 DEF WorkStarts, Deliver, WorkEnds, timers, Called
<1>3. ASSUME NEW i \in Rows, Expire(i) PROVE Called' BY <1>3 DEF Expire, Called
<1>4. ASSUME NEW t \in Threads, Call(t) PROVE Called'
  <2>1. PICK c \in CallsOf[t] :
          /\ call' = [call EXCEPT ![t] = c]
          /\ pc' = [pc EXCEPT ![t] = CASE c.op = "update" -> "check" [] c.op = "setAll" -> "assign"
                                       [] c.op = "hysteresis" -> "configure" [] OTHER -> "flush"]
          /\ UNCHANGED pending
    BY <1>4, CallEnters DEF timers
  <2>2. \A u \in Threads : u # t => call'[u] = call[u] /\ pc'[u] = pc[u] BY <2>1, <1>0
  <2>3. call'[t] = c /\ c # None BY <2>1, <1>0, CallsAre
  <2>4. /\ pc'[t] \in {"check", "assign", "configure", "flush"}
        /\ pc'[t] = "check" => c.op = "update"
        /\ pc'[t] = "assign" => c.op = "setAll"
    BY <2>1, <1>0
  <2> QED BY <2>1, <2>2, <2>3, <2>4 DEF Called, Busy
<1>5. ASSUME NEW t \in Threads, Return(t) PROVE Called'
  <2>1. /\ pc' = [pc EXCEPT ![t] = "idle"] /\ call' = [call EXCEPT ![t] = None] /\ UNCHANGED pending
    BY <1>5 DEF Return, Goto, timers
  <2> QED BY <2>1, <1>0 DEF Called, Busy
<1>6. ASSUME NEW t \in Threads, Inner(t) PROVE Called'
  BY <1>0, <1>6, InnerGoes DEF Called, Busy
<1> QED BY <1>1, <1>2, <1>3, <1>4, <1>5, <1>6 DEF Next, Step, Inner

LEMMA SoleInv == ASSUME IInv, Called, Sole, [Next]_vars PROVE Sole'
<1>0. call = [t \in Threads |-> call[t]] BY DEF IInv, Owned
<1>1. ASSUME mixed \subseteq mixed', UNCHANGED call PROVE Sole' BY <1>1 DEF Sole, Touches
<1>2. CASE UNCHANGED vars BY <1>1, <1>2 DEF vars, history
<1>3. CASE WorkStarts \/ Deliver \/ WorkEnds BY <1>1, <1>3 DEF WorkStarts, Deliver, WorkEnds, history
<1>4. ASSUME NEW i \in Rows, Expire(i) PROVE Sole' BY <1>1, <1>4 DEF Expire
<1>5. ASSUME NEW t \in Threads, Inner(t) PROVE Sole' BY <1>1, <1>5, InnerGoes
<1>6. ASSUME NEW t \in Threads, Return(t) PROVE Sole'
  <2>1. call' = [call EXCEPT ![t] = None] /\ UNCHANGED mixed BY <1>6 DEF Return, history
  <2>2. \A u \in Threads : Touches(call[u])' = IF u = t THEN {} ELSE Touches(call[u])
    BY <1>0, <2>1 DEF Touches
  <2> QED BY <2>1, <2>2 DEF Sole
<1>7. ASSUME NEW t \in Threads, Call(t) PROVE Sole'
  <2>1. PICK c \in CallsOf[t] :
          /\ call' = [call EXCEPT ![t] = c]
          /\ mixed' = mixed \cup (Touches(c) \cap UNION {Touches(call[u]) : u \in Threads \ {t}})
    BY <1>7, CallEnters
  <2>2. \A u \in Threads : Touches(call[u])' = IF u = t THEN Touches(c) ELSE Touches(call[u])
    BY <1>0, <2>1 DEF Touches
  <2> QED BY <2>1, <2>2 DEF Sole
<1> QED BY <1>2, <1>3, <1>4, <1>5, <1>6, <1>7 DEF Next, Step, Inner

-----------------------------------------------------------------------------
(* Debounce.                                                               *)

\* Whoever is open on an input touches it.
LEMMA OpenTouches ==
  ASSUME Called, NEW t \in Threads, NEW a \in Inputs, Open(t, a) PROVE a \in Touches(call[t])
<1>1. call[t] \in CallsOf[t] /\ call[t].op \in {"update", "setAll"} BY DEF Called, Open, Busy
<1>2. call[t].op = "update" => call[t].id = a BY DEF Called, Open
<1> QED BY <1>1, <1>2, CallsAre

LEMMA CallIsUpdate ==
  ASSUME Called, NEW t \in Threads, pc[t] \in Busy
  PROVE  call[t] \in CallsOf[t] /\ call[t].op = "update" /\ call[t].id \in Inputs /\ call[t].state \in BOOLEAN
<1>1. call[t] \in CallsOf[t] /\ call[t].op = "update" BY DEF Called, Busy
<1> QED BY <1>1, InputAssumption

\* A step that leaves a alone.
LEMMA PursuedFrame ==
  ASSUME NEW a, Pursued(a),
         asked'[a] <=> asked[a], a \in status' <=> a \in status, a \in timer' <=> a \in timer,
         pending'[a] <=> pending[a], a \in stale => a \in stale',
         \A u \in Threads : \/ pc'[u] = pc[u] /\ call'[u] = call[u]
                            \/ ~Open(u, a) /\ ~Open(u, a)'
  PROVE  Pursued(a)'
<1>1. ASSUME NEW u \in Threads PROVE Pursues(u, a)' /\ (Open(u, a)' <=> Open(u, a))
  <2>1. CASE pc'[u] = pc[u] /\ call'[u] = call[u] BY <2>1 DEF Pursued, Pursues, Open
  <2>2. CASE ~Open(u, a) /\ ~Open(u, a)' BY <2>2 DEF Pursues, Open
  <2> QED BY <2>1, <2>2
<1>2. Settled(a) => Settled(a)' BY DEF Settled
<1> QED BY <1>1, <1>2 DEF Pursued

\* A step of the one thread that touches a.
LEMMA PursuedSole ==
  ASSUME NEW a, NEW t \in Threads, Pursues(t, a)', \A u \in Threads : u # t => ~Open(u, a)',
         ~Open(t, a)' /\ a \notin stale' => Settled(a)'
  PROVE  Pursued(a)'
<1>1. \A u \in Threads : u # t => Pursues(u, a)' BY DEF Pursues, Open
<1> QED BY <1>1 DEF Pursued

LEMMA PursuedCall ==
  ASSUME IInv, Called, Sole, NEW a \in Inputs \ mixed', Pursued(a), NEW t \in Threads, Call(t)
  PROVE  Pursued(a)'
<1>0. pc \in [Threads -> Labels] /\ call = [u \in Threads |-> call[u]] BY DEF IInv, Owned
<1>1. PICK c \in CallsOf[t] :
        /\ call' = [call EXCEPT ![t] = c]
        /\ pc' = [pc EXCEPT ![t] = CASE c.op = "update" -> "check" [] c.op = "setAll" -> "assign"
                                     [] c.op = "hysteresis" -> "configure" [] OTHER -> "flush"]
        /\ mixed' = mixed \cup (Touches(c) \cap UNION {Touches(call[u]) : u \in Threads \ {t}})
        /\ asked' = [b \in Inputs |->
             CASE b \notin Touches(c) -> asked[b]
               [] b \in Touches(c) /\ c.op = "update" -> c.state
               [] OTHER -> b \in c.mask]
        /\ pc[t] = "idle" /\ UNCHANGED <<status, timer, pending, stale>>
  BY CallEnters DEF masks, timers
<1>2. \A u \in Threads : u # t => call'[u] = call[u] /\ pc'[u] = pc[u] BY <1>0, <1>1
<1>3. /\ call'[t] = c
      /\ pc'[t] = CASE c.op = "update" -> "check" [] c.op = "setAll" -> "assign"
                    [] c.op = "hysteresis" -> "configure" [] OTHER -> "flush"
  BY <1>0, <1>1
<1>4. CASE a \notin Touches(c)
  <2>1. ~Open(t, a) BY <1>1 DEF Open, Busy
  <2>2. ~Open(t, a)'
    <3>1. c.op # "setAll" /\ (c.op = "update" => c.id # a) BY <1>4, CallsAre
    <3>2. pc'[t] # "assign" /\ (pc'[t] \in Busy => c.op = "update") BY <1>3, <3>1, CallsAre DEF Busy
    <3> QED BY <1>3, <3>1, <3>2 DEF Open
  <2>3. asked'[a] = asked[a] BY <1>1, <1>4
  <2> QED BY <1>1, <1>2, <2>1, <2>2, <2>3, PursuedFrame
<1>5. CASE a \in Touches(c)
  <2>1. \A u \in Threads : u # t => a \notin Touches(call[u]) BY <1>1, <1>5
  <2>2. \A u \in Threads : u # t => ~Open(u, a)' BY <1>2, <2>1, OpenTouches DEF Open
  <2>3. c.op \in {"update", "setAll"} BY <1>5, CallsAre
  <2>4. CASE c.op = "update"
    <3>1. c.id = a /\ pc'[t] = "check" /\ asked'[a] = c.state BY <1>1, <1>3, <1>5, <2>4, CallsAre
    <3>2. Pursues(t, a)' /\ Open(t, a)' BY <1>3, <3>1 DEF Pursues, Open, Busy
    <3> QED BY <2>2, <3>2, PursuedSole
  <2>5. CASE c.op = "setAll"
    <3>1. pc'[t] = "assign" /\ asked'[a] = (a \in c.mask) BY <1>1, <1>3, <1>5, <2>5
    <3>2. Pursues(t, a)' /\ Open(t, a)' BY <1>3, <3>1 DEF Pursues, Open, Busy
    <3> QED BY <2>2, <3>2, PursuedSole
  <2> QED BY <2>3, <2>4, <2>5
<1> QED BY <1>4, <1>5

\* The update of another input, and the steps that change no input.
LEMMA PursuedElsewhere ==
  ASSUME RowsAreIds, IInv, ~damaged, Called, NEW a \in Inputs, Pursued(a), NEW t \in Threads, Inner(t),
         pc[t] \in Busy => call[t].id # a, pc[t] # "assign"
  PROVE  Pursued(a)'
<1> USE DEF Onward, Goto, Section, masks, timers, history
<1>0. UNCHANGED <<call, asked>> /\ pc' = [pc EXCEPT ![t] = pc'[t]]
      /\ (pc'[t] \in Busy \cup {"put", "submit"} => pc[t] \in Busy \cup {"put", "submit"}) /\ pc'[t] # "assign"
  BY InnerGoes
<1>1. pc \in [Threads -> Labels] BY DEF IInv, Owned
<1>2. \A u \in Threads : u # t => pc'[u] = pc[u] BY <1>0, <1>1
<1>3. pc[t] \in {"put", "submit"} => pc'[t] \notin Busy
  <2>1. CASE Put(t)
    <3>1. CASE Len(queue) < QueueSize BY <1>1, <2>1, <3>1 DEF Put, Busy
    <3>2. CASE ~(Len(queue) < QueueSize) BY <1>1, <2>1, <3>2 DEF Put, Busy
    <3> QED BY <3>1, <3>2
  <2>2. CASE Submit(t) BY <1>1, <2>2 DEF Submit, Busy
  <2> QED BY <2>1, <2>2 DEF Inner, Check, Stop, Restart, Pend, Arm, Load, Store, AssignStatus, AssignReported,
           Configure, Flush
<1>4. ~Open(t, a) /\ ~Open(t, a)' BY <1>0, <1>3 DEF Open
<1>5. /\ a \in status' <=> a \in status
      /\ a \in timer' <=> a \in timer
      /\ pending'[a] = pending[a]
      /\ a \in stale => a \in stale'
  <2>1. CASE Stop(t) \/ Restart(t) \/ Pend(t) \/ Arm(t)
    <3>1. pc[t] \in Busy /\ call[t].op = "update" BY <2>1 DEF Stop, Restart, Pend, Arm, Called, Busy
    <3>2. call[t] \in CallsOf[t] BY <3>1 DEF Called, Busy
    <3>3. call[t].id \in Inputs /\ call[t].id # a BY <3>1, <3>2, CallsAre
    <3>4. RowOf(call[t].id) = call[t].id BY <3>3, RowIsId
    <3>5. a \in Rows BY RowIsId
    <3>6. CASE Stop(t) BY <3>3, <3>6 DEF Stop
    <3>7. CASE Restart(t) BY <3>3, <3>4, <3>7 DEF Restart
    <3>8. CASE Pend(t) BY <3>3, <3>4, <3>5, <3>8 DEF Pend, Called
    <3>9. CASE Arm(t) BY <3>3, <3>4, <3>9 DEF Arm
    <3> QED BY <2>1, <3>6, <3>7, <3>8, <3>9
  <2>2. CASE Store(t)
    <3>1. pc[t] = "store" /\ status' = With(reg[t][1], call[t].id, call[t].state) /\ UNCHANGED <<timer, pending, stale>>
      BY <2>2 DEF Store
    <3>2. reg[t][1] = status BY <3>1 DEF IInv, Agree
    <3>3. call[t].id # a BY <3>1 DEF Busy
    <3> QED BY <3>1, <3>2, <3>3 DEF With
  <2>3. CASE \/ Check(t) \/ Load(t) \/ Put(t) \/ Submit(t) \/ AssignReported(t) \/ Configure(t) \/ Flush(t)
    BY <2>3 DEF Check, Load, Put, Submit, AssignReported, Configure, Flush
  <2>4. ~AssignStatus(t) BY DEF AssignStatus
  <2> QED BY <2>1, <2>2, <2>3, <2>4 DEF Inner
<1> QED BY <1>0, <1>2, <1>4, <1>5, PursuedFrame

\* A step of the one call on a, or of the call that sets all the inputs.
LEMMA PursuedOpen ==
  ASSUME RowsAreIds, IInv, ~damaged, Called, Sole, NEW a \in Inputs \ mixed, Pursued(a),
         NEW t \in Threads, Inner(t), Open(t, a)
  PROVE  Pursued(a)'
<1> USE DEF Onward, Goto, Section, masks, timers, history
<1>0. UNCHANGED <<call, asked>> /\ pc' = [pc EXCEPT ![t] = pc'[t]] BY InnerGoes
<1>1. pc \in [Threads -> Labels] BY DEF IInv, Owned
<1>2. \A u \in Threads : u # t => pc'[u] = pc[u] BY <1>0, <1>1
<1>3. \A u \in Threads : u # t => ~Open(u, a)
  BY OpenTouches DEF Sole
<1>4. \A u \in Threads : u # t => ~Open(u, a)' BY <1>0, <1>2, <1>3 DEF Open
<1>5. Pursues(t, a) BY DEF Pursued
<1>6. /\ RowOf(a) = a /\ a \in Rows /\ Config[a] = a
  BY RowIsId
<1>7. SUFFICES Pursues(t, a)' /\ (~Open(t, a)' /\ a \notin stale' => Settled(a)')
  BY <1>4, PursuedSole
<1>8. CASE pc[t] = "assign"
  <2>1. AssignStatus(t)
    BY <1>8 DEF Inner, Check, Stop, Restart, Pend, Arm, Load, Store, Put, Submit, AssignReported, Configure, Flush
  <2>2. /\ pc' = [pc EXCEPT ![t] = "assignReported"] /\ status' = call[t].mask
        /\ stale' = stale \cup {Config[i] : i \in timer} /\ UNCHANGED <<timer, pending>>
    BY <2>1 DEF AssignStatus
  <2>3. pc'[t] = "assignReported" BY <1>1, <2>2
  <2>4. a \notin stale' => a \notin timer' BY <1>6, <2>2
  <2>5. asked'[a] <=> a \in status' BY <1>0, <1>5, <1>8, <2>2 DEF Pursues
  <2> QED BY <2>3, <2>4, <2>5 DEF Pursues, Settled, Busy
<1>9. CASE pc[t] \in Busy /\ call[t].id = a
  <2>0. RowOf(call[t].id) = a BY <1>6, <1>9
  <2>1. CASE Check(t)
    <3>1. /\ pc[t] = "check" /\ UNCHANGED <<status, timer, pending>>
          /\ pc' = [pc EXCEPT ![t] = IF (call[t].id \in status) = call[t].state THEN "stop" ELSE "restart"]
      BY <2>1 DEF Check
    <3>2. CASE (call[t].id \in status) = call[t].state
      <4>1. pc'[t] = "stop" BY <1>1, <3>1, <3>2
      <4>2. a \in status <=> call[t].state BY <1>9, <3>2
      <4> QED BY <1>0, <1>5, <1>9, <3>1, <4>1, <4>2 DEF Pursues, Open, Busy
    <3>3. CASE (call[t].id \in status) # call[t].state
      <4>1. pc'[t] = "restart" BY <1>1, <3>1, <3>3
      <4>2. call[t].state \in BOOLEAN BY <1>9, CallIsUpdate
      <4>3. ~(a \in status <=> call[t].state) BY <1>9, <3>3, <4>2
      <4> QED BY <1>0, <1>5, <1>9, <3>1, <4>1, <4>3 DEF Pursues, Open, Busy
    <3> QED BY <3>2, <3>3
  <2>2. CASE Stop(t)
    <3>1. /\ pc[t] = "stop" /\ UNCHANGED <<status, pending>> /\ timer' = timer \ {a}
          /\ pc' = [pc EXCEPT ![t] = "return"]
      BY <1>9, <2>2 DEF Stop
    <3>2. pc'[t] = "return" /\ a \notin timer' BY <1>1, <3>1
    <3>3. asked'[a] <=> a \in status' BY <1>0, <1>5, <1>9, <3>1 DEF Pursues
    <3> QED BY <3>2, <3>3 DEF Pursues, Settled, Busy
  <2>3. CASE Restart(t)
    <3>1. /\ pc[t] = "restart" /\ UNCHANGED <<status, pending>> /\ timer' = timer \ {a}
          /\ \E l \in {"pend", "load"} : pc' = [pc EXCEPT ![t] = l]
      BY <2>0, <2>3 DEF Restart
    <3>2. pc'[t] \in {"pend", "load"} /\ a \notin timer' BY <1>1, <3>1
    <3> QED BY <1>0, <1>5, <1>9, <3>1, <3>2 DEF Pursues, Open, Busy
  <2>4. CASE Pend(t)
    <3>1. /\ pc[t] = "pend" /\ UNCHANGED <<status, timer>> /\ pending' = [pending EXCEPT ![a] = call[t].state]
          /\ pc' = [pc EXCEPT ![t] = "arm"]
      BY <2>0, <2>4 DEF Pend
    <3>2. pc'[t] = "arm" BY <1>1, <3>1
    <3>3. pending'[a] = call[t].state BY <1>6, <3>1 DEF Called
    <3> QED BY <1>0, <1>5, <1>9, <3>1, <3>2, <3>3 DEF Pursues, Open, Busy
  <2>5. CASE Arm(t)
    <3>1. /\ pc[t] = "arm" /\ UNCHANGED <<status, pending>> /\ timer' = timer \cup {a}
          /\ pc' = [pc EXCEPT ![t] = "return"]
      BY <2>0, <2>5 DEF Arm
    <3>2. pc'[t] = "return" /\ a \in timer' BY <1>1, <3>1
    <3>3. (pending'[a] <=> asked'[a]) /\ ~(asked'[a] <=> a \in status')
      BY <1>0, <1>5, <1>9, <3>1 DEF Pursues
    <3> QED BY <3>2, <3>3 DEF Pursues, Settled, Busy
  <2>6. CASE Load(t)
    <3>1. pc[t] = "load" /\ UNCHANGED <<status, timer, pending>> /\ pc' = [pc EXCEPT ![t] = "store"]
      BY <2>6 DEF Load
    <3>2. pc'[t] = "store" BY <1>1, <3>1
    <3> QED BY <1>0, <1>5, <1>9, <3>1, <3>2 DEF Pursues, Open, Busy
  <2>7. CASE Store(t)
    <3>1. /\ pc[t] = "store" /\ UNCHANGED <<timer, pending>>
          /\ status' = With(reg[t][1], a, call[t].state)
          /\ \E l \in {"put", "return"} : pc' = [pc EXCEPT ![t] = l]
      BY <1>9, <2>7 DEF Store
    <3>2. pc'[t] \in {"put", "return"} BY <1>1, <3>1
    <3>3. a \in status' <=> call[t].state BY <3>1 DEF With
    <3>4. a \notin timer' /\ (asked'[a] <=> a \in status')
      BY <1>0, <1>5, <1>9, <3>1, <3>3 DEF Pursues
    <3> QED BY <3>2, <3>4 DEF Pursues, Settled, Busy
  <2> QED BY <1>9, <2>1, <2>2, <2>3, <2>4, <2>5, <2>6, <2>7
        DEF Inner, Put, Submit, AssignStatus, AssignReported, Configure, Flush, Busy
<1> QED BY <1>8, <1>9 DEF Open

\* A timer that expires in no call brings the input where it was asked to be.
LEMMA PursuedExpire ==
  ASSUME RowsAreIds, IInv, Called, NEW a \in Inputs \ mixed', Pursued(a), NEW i \in Rows, Expire(i)
  PROVE  Pursued(a)'
<1>1. /\ Config[i] = i /\ i \in timer /\ timer' = timer \ {i}
      /\ status' = With(status, i, pending[i])
      /\ UNCHANGED <<pending, pc, call, asked, stale>>
  BY Zenon DEF Expire, RowsAreIds
<1>2. CASE i # a
  <2>1. a \in status' <=> a \in status BY <1>1, <1>2 DEF With
  <2> QED BY <1>1, <1>2, <2>1, PursuedFrame
<1>3. CASE i = a
  <2>1. \A u \in Threads : a \notin Touches(call[u]) BY <1>1, <1>3 DEF Expire
  <2>2. \A u \in Threads : ~Open(u, a) BY <2>1, OpenTouches
  <2>3. \A u \in Threads : ~Open(u, a)' BY <1>1, <2>2 DEF Open
  <2>4. \A u \in Threads : Pursues(u, a)' BY <2>3 DEF Pursues, Open
  <2>5. a \notin stale' => Settled(a) BY <1>1, <2>2 DEF Pursued
  <2>6. a \in status' <=> pending[a] BY <1>1, <1>3 DEF With
  <2>7. a \notin stale' => Settled(a)' BY <1>1, <1>3, <2>5, <2>6 DEF Settled
  <2> QED BY <2>4, <2>7 DEF Pursued
<1> QED BY <1>2, <1>3

\* A call that returns has done what it was called for.
LEMMA PursuedReturn ==
  ASSUME IInv, NEW a, Pursued(a), NEW t \in Threads, Return(t) PROVE Pursued(a)'
<1>0. pc \in [Threads -> Labels] /\ call = [u \in Threads |-> call[u]] BY DEF IInv, Owned
<1>1. /\ pc[t] = "return" /\ pc' = [pc EXCEPT ![t] = "idle"] /\ call' = [call EXCEPT ![t] = None]
      /\ UNCHANGED <<status, timer, pending, asked, stale>>
  BY DEF Return, Goto, masks, timers, history
<1>2. \A u \in Threads : u # t => call'[u] = call[u] /\ pc'[u] = pc[u] BY <1>0, <1>1
<1>3. pc'[t] = "idle" BY <1>0, <1>1
<1>4. ~Open(t, a) /\ ~Open(t, a)' BY <1>1, <1>3 DEF Open, Busy
<1> QED BY <1>1, <1>2, <1>4, PursuedFrame

LEMMA DebounceStep ==
  ASSUME RowsAreIds, DebounceInv, [Next]_vars PROVE Debounce'
<1> USE DEF DebounceInv
<1>1. ASSUME NEW a \in Inputs \ mixed', ~damaged', UNCHANGED <<status, timer, pending, asked, stale, pc, call>>,
             mixed \subseteq mixed', damaged => damaged'
      PROVE  Pursued(a)'
  BY <1>1, PursuedFrame DEF Debounce
<1>2. CASE UNCHANGED vars BY <1>1, <1>2 DEF vars, masks, timers, history, Debounce
<1>3. CASE WorkStarts \/ Deliver \/ WorkEnds
  BY <1>1, <1>3 DEF WorkStarts, Deliver, WorkEnds, masks, timers, history, Debounce
<1>4. ASSUME NEW i \in Rows, Expire(i) PROVE Debounce'
  <2>1. mixed \subseteq mixed' BY <1>4 DEF Expire
  <2>2. damaged => damaged' BY Zenon, <1>4 DEF Expire
  <2> QED BY <1>4, <2>1, <2>2, PursuedExpire DEF Debounce
<1>5. ASSUME NEW t \in Threads, Call(t) PROVE Debounce'
  <2>1. mixed \subseteq mixed' /\ damaged' = damaged BY <1>5 DEF Call
  <2> QED BY <1>5, <2>1, PursuedCall DEF Debounce
<1>6. ASSUME NEW t \in Threads, Return(t) PROVE Debounce'
  <2>1. UNCHANGED <<mixed, damaged>> BY <1>6 DEF Return, history
  <2> QED BY <1>6, <2>1, PursuedReturn DEF Debounce
<1>7. ASSUME NEW t \in Threads, Inner(t) PROVE Debounce'
  <2>1. UNCHANGED <<mixed, damaged>> BY <1>7, InnerGoes
  <2>2. SUFFICES ASSUME NEW a \in Inputs \ mixed, ~damaged PROVE Pursued(a)' BY <2>1 DEF Debounce
  <2>3. Pursued(a) BY <2>2 DEF Debounce
  <2>4. CASE Open(t, a) BY <1>7, <2>2, <2>3, <2>4, PursuedOpen
  <2>5. CASE ~Open(t, a) BY <1>7, <2>2, <2>3, <2>5, PursuedElsewhere DEF Open
  <2> QED BY <2>4, <2>5
<1> QED BY <1>2, <1>3, <1>4, <1>5, <1>6, <1>7 DEF Next, Step, Inner

LEMMA DebounceInit == ASSUME RowsAreIds PROVE Init => DebounceInv
<1> SUFFICES ASSUME Init PROVE DebounceInv OBVIOUS
<1>1. IInv BY InitInv
<1>2. \A t \in Threads : pc[t] = "idle" /\ call[t] = None BY DEF Init
<1>3. Called BY <1>2 DEF Called, Busy, Init
<1>4. Sole BY <1>2 DEF Sole, Touches
<1>5. ASSUME NEW a \in Inputs PROVE Settled(a) /\ \A t \in Threads : Pursues(t, a)
  BY <1>2 DEF Settled, Pursues, Busy, Init
<1> QED BY <1>1, <1>3, <1>4, <1>5 DEF DebounceInv, Debounce, Pursued

LEMMA DebounceInvariant == ASSUME RowsAreIds PROVE Spec => []DebounceInv
<1>1. Init => DebounceInv BY DebounceInit
<1>2. DebounceInv /\ [Next]_vars => DebounceInv'
  <2> SUFFICES ASSUME DebounceInv, [Next]_vars PROVE DebounceInv' OBVIOUS
  <2>1. IInv' BY InvStep DEF DebounceInv
  <2>2. Called' BY CalledInv DEF DebounceInv
  <2>3. Sole' BY SoleInv DEF DebounceInv
  <2>4. Debounce' BY DebounceStep
  <2> QED BY <2>1, <2>2, <2>3, <2>4 DEF DebounceInv
<1> QED BY <1>1, <1>2, PTL DEF Spec

\* What is pending and what was asked for are Booleans.
Truths == (\A i \in Rows : pending[i] \in BOOLEAN) /\ (\A a \in Inputs : asked[a] \in BOOLEAN)

LEMMA TruthsEqual == ASSUME NEW p \in BOOLEAN, NEW q \in BOOLEAN, p <=> q PROVE p = q
OBVIOUS

LEMMA TruthsStep == ASSUME IInv, Called, Truths, [Next]_vars PROVE Truths'
<1>1. CASE UNCHANGED vars BY <1>1, Zenon DEF vars, timers, history, Truths
<1>2. CASE WorkStarts \/ Deliver \/ WorkEnds
  BY <1>2, Zenon DEF WorkStarts, Deliver, WorkEnds, timers, history, Truths
<1>3. ASSUME NEW i \in Rows, Expire(i) PROVE Truths' BY <1>3, Zenon DEF Expire, Truths
<1>4. ASSUME NEW t \in Threads, Return(t) PROVE Truths' BY <1>4, Zenon DEF Return, timers, history, Truths
<1>5. ASSUME NEW t \in Threads, Call(t) PROVE Truths'
  <2>1. PICK c \in CallsOf[t] :
          /\ asked' = [a \in Inputs |->
               CASE a \notin Touches(c) -> asked[a]
                 [] a \in Touches(c) /\ c.op = "update" -> c.state
                 [] OTHER -> a \in c.mask]
          /\ UNCHANGED pending
    BY <1>5, CallEnters DEF timers
  <2>2. c.op = "update" => c.state \in BOOLEAN BY InputAssumption
  <2>3. ASSUME NEW a \in Inputs PROVE asked'[a] \in BOOLEAN
    <3>1. CASE a \notin Touches(c)
      <4>1. asked'[a] = asked[a] BY <2>1, <3>1
      <4> QED BY <4>1, Zenon DEF Truths
    <3>2. CASE a \in Touches(c) /\ c.op = "update"
      <4>1. asked'[a] = c.state BY <2>1, <3>2
      <4> QED BY <2>2, <3>2, <4>1, Zenon
    <3>3. CASE a \in Touches(c) /\ c.op # "update"
      <4>1. asked'[a] = (a \in c.mask) BY <2>1, <3>3
      <4>2. CASE a \in c.mask BY <4>1, <4>2
      <4>3. CASE a \notin c.mask BY <4>1, <4>3
      <4> QED BY <4>2, <4>3
    <3> QED BY <3>1, <3>2, <3>3
  <2> QED BY <2>1, <2>3, Zenon DEF Truths
<1>6. ASSUME NEW t \in Threads, Inner(t) PROVE Truths'
  <2>1. asked' = asked BY <1>6, InnerGoes
  <2>2. CASE Pend(t)
    <3>1. pending' = [pending EXCEPT ![RowOf(call[t].id)] = call[t].state] /\ pc[t] = "pend"
      BY <2>2, Zenon DEF Pend
    <3>2. call[t].state \in BOOLEAN BY <3>1, CallIsUpdate DEF Busy
    <3>3. ASSUME NEW i \in Rows PROVE pending'[i] = pending[i] \/ pending'[i] = call[t].state
      BY <3>1 DEF Called
    <3> QED BY <2>1, <3>2, <3>3, Zenon DEF Truths
  <2>3. CASE ~Pend(t)
    <3>1. UNCHANGED pending
      BY <1>6, <2>3 DEF Inner, Check, Stop, Restart, Arm, Load, Store, Put, Submit, AssignStatus, AssignReported,
                        Configure, Flush, timers
    <3> QED BY <2>1, <3>1, Zenon DEF Truths
  <2> QED BY <2>2, <2>3
<1> QED BY <1>1, <1>2, <1>3, <1>4, <1>5, <1>6 DEF Next, Step, Inner

LEMMA TruthsInit == Init => Truths
<1> SUFFICES ASSUME Init PROVE Truths OBVIOUS
<1>1. ASSUME NEW i \in Rows PROVE pending[i] \in BOOLEAN
  <2>1. pending[i] = FALSE BY DEF Init
  <2> QED BY <2>1
<1>2. ASSUME NEW a \in Inputs PROVE asked[a] \in BOOLEAN
  <2>1. asked[a] = (a \in status) BY DEF Init
  <2>2. CASE a \in status BY <2>1, <2>2
  <2>3. CASE a \notin status BY <2>1, <2>3
  <2> QED BY <2>2, <2>3
<1> QED BY <1>1, <1>2, Zenon DEF Truths

\* The debounce ends in what was last asked for, for any pins, calls, threads
\* and hystereses, if the ids are the numbers of the rows: an input that is
\* neither in a call nor raced by a timer has that status, or its timer runs
\* to bring it there (digital_input.c:97-144, 332-406).
THEOREM DebounceEnds == ASSUME RowsAreIds PROVE Spec => []LastUpdateHolds
<1>1. DebounceInv /\ Truths => LastUpdateHolds
  <2> SUFFICES ASSUME DebounceInv, Truths, NEW a \in Inputs, Quiet(a), a \notin mixed \cup stale, ~damaged
               PROVE  IF RowOf(a) \in timer THEN pending[RowOf(a)] = asked[a] /\ asked[a] # (a \in status)
                                             ELSE asked[a] = (a \in status)
    BY DEF LastUpdateHolds
  <2>1. \A t \in Threads : ~Open(t, a) BY OpenTouches DEF Quiet, DebounceInv
  <2>2. Settled(a) BY <2>1 DEF DebounceInv, Debounce, Pursued
  <2>3. RowOf(a) = a /\ a \in Rows BY RowIsId
  <2>4. pending[a] \in BOOLEAN /\ asked[a] \in BOOLEAN BY <2>3, Zenon DEF Truths
  <2>5. (pending[a] <=> asked[a]) => pending[a] = asked[a] BY <2>4, TruthsEqual
  <2>6. (asked[a] <=> a \in status) => asked[a] = (a \in status)
    <3>1. (a \in status) \in BOOLEAN OBVIOUS
    <3> QED BY <2>4, <3>1, TruthsEqual
  <2>7. ~(asked[a] <=> a \in status) => asked[a] # (a \in status) BY <2>4, Zenon
  <2> QED BY <2>2, <2>3, <2>5, <2>6, <2>7, Zenon DEF Settled
<1>2. DebounceInv /\ Truths /\ [Next]_vars => Truths' BY TruthsStep DEF DebounceInv
<1> QED BY <1>1, <1>2, TruthsInit, DebounceInvariant, PTL DEF Spec

-----------------------------------------------------------------------------
(* What the callback is told, and what every variable is, for any ids.     *)

Calls == IInv /\ Called /\ Sole /\ Truths

LEMMA CallsInvariant == Spec => []Calls
<1>1. Init => Calls
  <2> SUFFICES ASSUME Init PROVE Calls OBVIOUS
  <2>1. \A t \in Threads : pc[t] = "idle" /\ call[t] = None BY DEF Init
  <2>2. Called BY <2>1 DEF Called, Busy, Init
  <2>3. Sole BY <2>1 DEF Sole, Touches
  <2> QED BY <2>2, <2>3, InitInv, TruthsInit DEF Calls
<1>2. Calls /\ [Next]_vars => Calls' BY InvStep, CalledInv, SoleInv, TruthsStep DEF Calls
<1> QED BY <1>1, <1>2, PTL DEF Spec

\* A thread that has still to report what it did.
Tells(t, a) == pc[t] = "put" /\ call[t].id = a

\* The last event of a, or else what the callback was told, says v.
Latest(a, v) ==
  \/ \E i \in 1 .. Len(queue) : /\ queue[i].id = a /\ (queue[i].state <=> v)
                                /\ \A j \in i + 1 .. Len(queue) : queue[j].id # a
  \/ (\A i \in 1 .. Len(queue) : queue[i].id # a) /\ (told[a] <=> v)

ToldAt(a) ==
  /\ \A t \in Threads : Tells(t, a) => (a \in status <=> call[t].state)
  /\ a \notin untold /\ (\A t \in Threads : ~Tells(t, a)) => Latest(a, a \in status)
Told == ~damaged => \A a \in Inputs \ mixed : ToldAt(a)

Events == [id : Inputs, state : BOOLEAN]
Texts == queue \in Seq(Events) /\ told = [a \in Inputs |-> told[a]] /\ \A a \in Inputs : told[a] \in BOOLEAN

LEMMA TellsTouches ==
  ASSUME Called, NEW t \in Threads, NEW a \in Inputs, Tells(t, a) \/ (pc[t] \in {"store", "put"} /\ call[t].id = a)
  PROVE  a \in Touches(call[t])
<1>1. call[t] \in CallsOf[t] /\ call[t].op = "update" /\ call[t].id = a BY DEF Called, Tells, Busy
<1> QED BY <1>1, CallsAre

\* What a thread that changes an input changes it to.
LEMMA CallHas ==
  ASSUME Called, NEW t \in Threads, pc[t] \in {"store", "put"}
  PROVE  call[t].id \in Inputs /\ call[t].state \in BOOLEAN
<1>1. call[t] \in CallsOf[t] /\ call[t].op = "update" BY DEF Called, Busy
<1> QED BY <1>1, InputAssumption

\* One more event, or one lost.
LEMMA LatestPut ==
  ASSUME Texts, NEW b \in Inputs, NEW v \in BOOLEAN, Enqueue(b, v), told' = told, NEW a \in Inputs, NEW w
  PROVE  /\ a = b /\ a \notin untold' => Latest(a, v)'
         /\ a # b => (a \in untold' <=> a \in untold)
         /\ a # b /\ Latest(a, w) => Latest(a, w)'
<1> USE DEF Enqueue, Texts
<1>1. CASE Len(queue) < QueueSize
  <2> DEFINE e == [id |-> b, state |-> v]
  <2>1. queue' = Append(queue, e) /\ untold' = untold \ {b} BY <1>1
  <2>2. /\ Len(queue) \in Nat /\ Len(queue') = Len(queue) + 1 /\ queue'[Len(queue) + 1] = e
        /\ \A i \in 1 .. Len(queue) : queue'[i] = queue[i]
    BY <2>1
  <2>3. e.id = b /\ e.state = v OBVIOUS
  <2> HIDE DEF e
  <2>4. Latest(b, v)'
    <3>1. Len(queue) + 1 \in 1 .. Len(queue') BY <2>2
    <3>2. queue'[Len(queue) + 1].id = b /\ (queue'[Len(queue) + 1].state <=> v) BY <2>2, <2>3
    <3>3. \A j \in (Len(queue) + 1) + 1 .. Len(queue') : FALSE BY <2>2
    <3> QED BY <3>1, <3>2, <3>3 DEF Latest
  <2>5. ASSUME a # b, Latest(a, w) PROVE Latest(a, w)'
    <3>1. CASE \A i \in 1 .. Len(queue) : queue[i].id # a
      <4>1. told[a] <=> w BY <2>5, <3>1 DEF Latest
      <4>2. \A i \in 1 .. Len(queue') : queue'[i].id # a
        <5>1. \A i \in 1 .. Len(queue') : i \in 1 .. Len(queue) \/ i = Len(queue) + 1 BY <2>2
        <5> QED BY <2>2, <2>3, <2>5, <3>1, <5>1
      <4> QED BY <4>1, <4>2 DEF Latest
    <3>2. CASE ~(\A i \in 1 .. Len(queue) : queue[i].id # a)
      <4>1. PICK i \in 1 .. Len(queue) : /\ queue[i].id = a /\ (queue[i].state <=> w)
                                         /\ \A j \in i + 1 .. Len(queue) : queue[j].id # a
        BY <2>5, <3>2 DEF Latest
      <4>2. i \in 1 .. Len(queue') /\ queue'[i] = queue[i] BY <2>2
      <4>3. \A j \in i + 1 .. Len(queue') : queue'[j].id # a
        <5>1. \A j \in i + 1 .. Len(queue') : (j \in i + 1 .. Len(queue) /\ j \in 1 .. Len(queue)) \/ j = Len(queue) + 1
          BY <2>2
        <5> QED BY <2>2, <2>3, <2>5, <4>1, <5>1
      <4> QED BY <4>1, <4>2, <4>3 DEF Latest
    <3> QED BY <3>1, <3>2
  <2> QED BY <2>1, <2>4, <2>5
<1>2. CASE ~(Len(queue) < QueueSize)
  <2>1. queue' = queue /\ untold' = untold \cup {b} BY <1>2
  <2> QED BY <2>1 DEF Latest
<1> QED BY <1>1, <1>2

\* The callback hears of the first event.
LEMMA Delivers ==
  ASSUME Texts, Deliver
  PROVE  /\ queue # <<>> /\ queue' = Tail(queue) /\ Head(queue) \in Events
         /\ told' = [b \in Inputs |-> IF b = Head(queue).id THEN Head(queue).state ELSE told[b]]
<1>1. queue # <<>> /\ queue' = Tail(queue) /\ told' = [told EXCEPT ![Head(queue).id] = Head(queue).state]
  BY DEF Deliver
<1>2. told = [b \in Inputs |-> told[b]] BY DEF Texts
<1>3. told' = [b \in Inputs |-> IF b = Head(queue).id THEN Head(queue).state ELSE told[b]] BY <1>1, <1>2
<1>4. Head(queue) \in Events BY <1>1 DEF Texts
<1> QED BY <1>1, <1>3, <1>4

LEMMA LatestDeliver ==
  ASSUME Texts, Deliver, NEW a \in Inputs, NEW w, Latest(a, w) PROVE Latest(a, w)'
<1>1. /\ queue # <<>> /\ queue' = Tail(queue)
      /\ told' = [b \in Inputs |-> IF b = Head(queue).id THEN Head(queue).state ELSE told[b]]
  BY Delivers
<1>2. /\ Len(queue) \in Nat /\ Len(queue) >= 1 /\ Head(queue) = queue[1] /\ Len(queue') = Len(queue) - 1
      /\ \A i \in 1 .. Len(queue') : queue'[i] = queue[i + 1]
  BY <1>1 DEF Texts
<1>3. CASE \A i \in 1 .. Len(queue) : queue[i].id # a
  <2>1. told[a] <=> w BY <1>3 DEF Latest
  <2>2. queue[1].id # a BY <1>2, <1>3
  <2>3. told'[a] = told[a] BY <1>1, <1>2, <2>2
  <2>4. \A i \in 1 .. Len(queue') : i + 1 \in 1 .. Len(queue) BY <1>2
  <2>5. \A i \in 1 .. Len(queue') : queue'[i].id # a BY <1>2, <1>3, <2>4
  <2> QED BY <2>1, <2>3, <2>5 DEF Latest
<1>4. CASE ~(\A i \in 1 .. Len(queue) : queue[i].id # a)
  <2>1. PICK i \in 1 .. Len(queue) : /\ queue[i].id = a /\ (queue[i].state <=> w)
                                     /\ \A j \in i + 1 .. Len(queue) : queue[j].id # a
    BY <1>4 DEF Latest
  <2>2. CASE i = 1
    <3>1. told'[a] = queue[1].state BY <1>1, <1>2, <2>1, <2>2
    <3>2. \A j \in 1 .. Len(queue') : j + 1 \in i + 1 .. Len(queue) BY <1>2, <2>2
    <3>3. \A j \in 1 .. Len(queue') : queue'[j].id # a BY <1>2, <2>1, <3>2
    <3> QED BY <2>1, <2>2, <3>1, <3>3 DEF Latest
  <2>3. CASE i # 1
    <3>1. i - 1 \in 1 .. Len(queue') /\ (i - 1) + 1 = i BY <1>2, <2>3
    <3>2. queue'[i - 1] = queue[i] BY <1>2, <3>1
    <3>3. \A j \in (i - 1) + 1 .. Len(queue') : j \in 1 .. Len(queue') /\ j + 1 \in i + 1 .. Len(queue) BY <1>2
    <3>4. \A j \in (i - 1) + 1 .. Len(queue') : queue'[j].id # a BY <1>2, <2>1, <3>3
    <3> QED BY <2>1, <3>1, <3>2, <3>4 DEF Latest
  <2> QED BY <2>2, <2>3
<1> QED BY <1>3, <1>4

LEMMA EnqueueTexts ==
  ASSUME Texts, NEW b \in Inputs, NEW v \in BOOLEAN, Enqueue(b, v) PROVE queue' \in Seq(Events)
<1>1. [id |-> b, state |-> v] \in Events BY Zenon DEF Events
<1> QED BY <1>1 DEF Enqueue, Texts

LEMMA TextsStep == ASSUME Calls, Texts, [Next]_vars PROVE Texts'
<1> USE DEF Calls
<1>1. CASE UNCHANGED <<queue, told>> BY <1>1 DEF Texts
<1>2. ASSUME NEW i \in Rows, Expire(i), queue' # queue PROVE Texts'
  <2>1. Enqueue(Config[i], pending[i]) /\ told' = told BY <1>2 DEF Expire
  <2>2. Config[i] \in Inputs BY DEF Inputs
  <2>3. pending[i] \in BOOLEAN BY Zenon DEF Truths
  <2>4. queue' \in Seq(Events) BY <2>1, <2>2, <2>3, EnqueueTexts
  <2> QED BY <2>1, <2>4 DEF Texts
<1>3. ASSUME NEW t \in Threads, Put(t) PROVE Texts'
  <2>1. Enqueue(call[t].id, call[t].state) /\ told' = told /\ pc[t] = "put" BY <1>3 DEF Put
  <2>2. call[t].id \in Inputs /\ call[t].state \in BOOLEAN BY <2>1, CallHas
  <2>3. queue' \in Seq(Events) BY <2>1, <2>2, EnqueueTexts
  <2> QED BY <2>1, <2>3 DEF Texts
<1>4. ASSUME NEW t \in Threads, Flush(t) PROVE Texts' BY <1>4 DEF Flush, Texts
<1>5. CASE Deliver
  <2>1. /\ queue # <<>> /\ queue' = Tail(queue) /\ Head(queue) \in Events
        /\ told' = [b \in Inputs |-> IF b = Head(queue).id THEN Head(queue).state ELSE told[b]]
    BY <1>5, Delivers
  <2>2. queue' \in Seq(Events) BY <2>1 DEF Texts
  <2>3. ASSUME NEW b \in Inputs PROVE told'[b] \in BOOLEAN
    <3>1. CASE b = Head(queue).id
      <4>1. told'[b] = Head(queue).state BY <2>1, <3>1
      <4> QED BY <2>1, <4>1, Zenon DEF Events
    <3>2. CASE b # Head(queue).id
      <4>1. told'[b] = told[b] BY <2>1, <3>2
      <4> QED BY <4>1, Zenon DEF Texts
    <3> QED BY <3>1, <3>2
  <2>4. told' = [b \in Inputs |-> told'[b]] BY <2>1
  <2> QED BY <2>2, <2>3, <2>4, Zenon DEF Texts
<1>6. \/ UNCHANGED <<queue, told>> \/ Deliver
      \/ \E t \in Threads : Put(t) \/ Flush(t)
      \/ \E i \in Rows : Expire(i) /\ queue' # queue
  BY DEF Next, Step, Call, Return, Check, Stop, Restart, Pend, Arm, Load, Store, Submit, AssignStatus,
         AssignReported, Configure, Expire, WorkStarts, WorkEnds, vars, events
<1> QED BY <1>1, <1>2, <1>3, <1>4, <1>5, <1>6

\* The steps of a thread that neither begin nor end what it reports.
Aside(t) ==
  \/ Call(t) \/ Return(t) \/ Check(t) \/ Stop(t) \/ Restart(t) \/ Pend(t) \/ Arm(t) \/ Load(t) \/ Submit(t)
  \/ AssignReported(t) \/ Configure(t) \/ Flush(t)

LEMMA AsideKeeps ==
  ASSUME NEW t \in Threads, Aside(t)
  PROVE  /\ mixed \subseteq mixed' /\ damaged' = damaged /\ UNCHANGED <<status, told>>
         /\ Flush(t) \/ UNCHANGED <<queue, untold>>
BY DEF Aside, Call, Return, Check, Stop, Restart, Pend, Arm, Load, Submit, AssignReported, Configure, Flush, masks,
       events, history

LEMMA AsideMoves ==
  ASSUME Calls, NEW t \in Threads, Aside(t), NEW a, NEW u \in Threads
  PROVE  (Tells(u, a)' <=> Tells(u, a)) /\ (Tells(u, a) => call'[u] = call[u])
<1> USE DEF Calls
<1>0. pc \in [Threads -> Labels] /\ call = [v \in Threads |-> call[v]] BY DEF IInv, Owned
<1>1. CASE Call(t)
  <2>1. PICK c \in CallsOf[t] :
          /\ call' = [call EXCEPT ![t] = c]
          /\ pc' = [pc EXCEPT ![t] = CASE c.op = "update" -> "check" [] c.op = "setAll" -> "assign"
                                       [] c.op = "hysteresis" -> "configure" [] OTHER -> "flush"]
          /\ pc[t] = "idle"
    BY <1>1, CallEnters
  <2>2. pc'[t] # "put" BY <1>0, <2>1
  <2>3. u # t => pc'[u] = pc[u] /\ call'[u] = call[u] BY <1>0, <2>1
  <2> QED BY <2>1, <2>2, <2>3 DEF Tells
<1>2. CASE Return(t)
  <2>1. pc[t] = "return" /\ pc'[t] = "idle" BY <1>0, <1>2 DEF Return, Goto
  <2>2. u # t => pc'[u] = pc[u] /\ call'[u] = call[u] BY <1>0, <1>2 DEF Return, Goto
  <2> QED BY <2>1, <2>2 DEF Tells
<1>3. CASE Inner(t) /\ ~(Call(t) \/ Return(t))
  <2>1. call' = call /\ pc' = [pc EXCEPT ![t] = pc'[t]] BY <1>3, InnerGoes
  <2>2. u # t => pc'[u] = pc[u] BY <1>0, <2>1
  <2>3. pc[t] # "put"
    BY <1>3 DEF Aside, Check, Stop, Restart, Pend, Arm, Load, Submit, AssignReported, Configure, Flush
  <2>4. pc'[t] # "put"
    <3>1. PICK l \in Labels \ {"put"} : pc' = [pc EXCEPT ![t] = l]
      BY <1>3 DEF Aside, Check, Stop, Restart, Pend, Arm, Load, Submit, AssignReported, Configure, Flush, Onward,
                  Goto, Labels
    <3> QED BY <1>0, <3>1
  <2> QED BY <2>1, <2>2, <2>3, <2>4 DEF Tells
<1> QED BY <1>1, <1>2, <1>3 DEF Aside, Inner

LEMMA ToldAside ==
  ASSUME Calls, Texts, NEW t \in Threads, Aside(t), NEW a \in Inputs, ToldAt(a) PROVE ToldAt(a)'
<1>1. \A u \in Threads : (Tells(u, a)' <=> Tells(u, a)) /\ (Tells(u, a) => call'[u] = call[u]) BY AsideMoves
<1>2. UNCHANGED <<status, told>> BY AsideKeeps
<1>3. CASE UNCHANGED <<queue, untold>> BY <1>1, <1>2, <1>3 DEF ToldAt, Latest
<1>4. CASE Flush(t)
  <2>1. /\ queue' = <<>> /\ untold' = untold \cup {e.id : e \in ToSet(queue)}
        /\ ToSet(queue) = {queue[i] : i \in 1 .. Len(queue)}
    BY <1>4 DEF Flush, ToSet
  <2>2. ASSUME a \notin untold', Latest(a, a \in status) PROVE a \notin untold /\ Latest(a, a \in status)'
    <3>1. a \notin untold /\ \A i \in 1 .. Len(queue) : queue[i].id # a BY <2>1, <2>2
    <3>2. told[a] <=> a \in status BY <2>2, <3>1 DEF Latest
    <3>3. Len(queue') = 0 BY <2>1
    <3> QED BY <1>2, <3>1, <3>2, <3>3 DEF Latest
  <2>3. untold \subseteq untold' BY <2>1
  <2> QED BY <1>1, <1>2, <2>2, <2>3 DEF ToldAt
<1> QED BY <1>3, <1>4, AsideKeeps

LEMMA ToldPut ==
  ASSUME Calls, Texts, NEW a \in Inputs \ mixed, ToldAt(a), NEW t \in Threads, Put(t) PROVE ToldAt(a)'
<1> USE DEF Calls
<1>0. pc \in [Threads -> Labels] BY DEF IInv, Owned
<1>1. /\ pc[t] = "put" /\ Enqueue(call[t].id, call[t].state) /\ UNCHANGED <<status, call, told>>
  BY DEF Put, Onward, masks
<1>2. pc' = [pc EXCEPT ![t] = pc'[t]] /\ pc'[t] # "put"
  <2>1. PICK l \in {"submit", "return"} : pc' = [pc EXCEPT ![t] = l] BY DEF Put, Onward, Goto
  <2> QED BY <1>0, <2>1
<1>3. \A u \in Threads : u # t => (Tells(u, a)' <=> Tells(u, a)) BY <1>0, <1>1, <1>2 DEF Tells
<1>4. ~Tells(t, a)' /\ (Tells(t, a) <=> call[t].id = a) BY <1>1, <1>2 DEF Tells
<1>5. call[t].id \in Inputs /\ call[t].state \in BOOLEAN BY <1>1, CallHas
<1>6. CASE call[t].id = a
  <2>1. a \in status <=> call[t].state BY <1>4, <1>6 DEF ToldAt
  <2>2. ASSUME a \notin untold' PROVE Latest(a, a \in status)'
    <3>1. PICK v \in BOOLEAN : v = call[t].state BY <1>5, Zenon
    <3>2. Enqueue(a, v) BY <1>1, <1>6, <3>1
    <3>3. Latest(a, v)' BY <1>1, <2>2, <3>2, LatestPut
    <3>4. a \in status' <=> v BY <1>1, <2>1, <3>1, Zenon
    <3> QED BY <3>3, <3>4 DEF Latest
  <2>3. \A u \in Threads : Tells(u, a) => u = t
    <3>1. a \in Touches(call[t]) BY <1>4, <1>6, TellsTouches
    <3> QED BY <3>1, TellsTouches DEF Sole
  <2> QED BY <1>1, <1>3, <1>4, <2>2, <2>3 DEF ToldAt
<1>7. CASE call[t].id # a
  <2>1. /\ a \in untold' <=> a \in untold
        /\ \A w : Latest(a, w) => Latest(a, w)'
    BY <1>1, <1>5, <1>7, LatestPut
  <2>2. Latest(a, a \in status) => Latest(a, a \in status)' BY <1>1, <2>1 DEF Latest
  <2> QED BY <1>1, <1>3, <1>4, <1>7, <2>1, <2>2 DEF ToldAt
<1> QED BY <1>6, <1>7

\* It goes on to report only what is news.
LEMMA ToldStore ==
  ASSUME Calls, ~damaged, NEW a \in Inputs \ mixed, ToldAt(a), NEW t \in Threads, Store(t) PROVE ToldAt(a)'
<1> USE DEF Calls
<1>0. pc \in [Threads -> Labels] /\ Agree BY DEF IInv, Owned
<1>1. pc[t] = "store" /\ reg[t] = <<status, reported>> /\ reported = status
  <2>1. pc[t] = "store" BY DEF Store
  <2>2. \A u \in Threads : pc[u] # "assignReported" BY <2>1 DEF IInv, Owned
  <2> QED BY <1>0, <2>1, <2>2 DEF Agree
<1>2. /\ status' = With(status, call[t].id, call[t].state) /\ UNCHANGED <<call, queue, told, untold>>
      /\ pc' = [pc EXCEPT ![t] = IF (call[t].id \in status) # call[t].state THEN "put" ELSE "return"]
  BY <1>1 DEF Store, Onward, Goto, events, history
<1>3. \A u \in Threads : u # t => (Tells(u, a)' <=> Tells(u, a)) BY <1>0, <1>2 DEF Tells
<1>4. call[t].id \in Inputs /\ call[t].state \in BOOLEAN BY <1>1, CallHas
<1>5. ~Tells(t, a) BY <1>1 DEF Tells
<1>6. CASE call[t].id # a
  <2>1. a \in status' <=> a \in status BY <1>2, <1>6 DEF With
  <2>2. Latest(a, a \in status) => Latest(a, a \in status)' BY <1>2, <2>1 DEF Latest
  <2>3. ~Tells(t, a)' BY <1>2, <1>6 DEF Tells
  <2> QED BY <1>2, <1>3, <1>5, <2>1, <2>2, <2>3 DEF ToldAt
<1>7. CASE call[t].id = a
  <2>1. a \in status' <=> call[t].state BY <1>2, <1>7 DEF With
  <2>2. \A u \in Threads : u # t => ~Tells(u, a)
    <3>1. a \in Touches(call[t]) BY <1>1, <1>7, TellsTouches
    <3> QED BY <3>1, TellsTouches DEF Sole
  <2>3. CASE (call[t].id \in status) # call[t].state
    <3>1. pc'[t] = "put" BY <1>0, <1>2, <2>3
    <3>2. Tells(t, a)' BY <1>2, <1>7, <3>1 DEF Tells
    <3> QED BY <1>2, <1>3, <2>1, <2>2, <3>2 DEF ToldAt
  <2>4. CASE (call[t].id \in status) = call[t].state
    <3>1. pc'[t] = "return" BY <1>0, <1>2, <2>4
    <3>2. ~Tells(t, a)' BY <3>1 DEF Tells
    <3>3. a \in status <=> call[t].state BY <1>7, <2>4
    <3>4. Latest(a, a \in status) => Latest(a, a \in status)' BY <1>2, <2>1, <3>3 DEF Latest
    <3> QED BY <1>2, <1>3, <1>5, <2>2, <3>2, <3>4 DEF ToldAt
  <2> QED BY <2>3, <2>4
<1> QED BY <1>6, <1>7

\* What set_all_state changes is untold.
LEMMA ToldAssign ==
  ASSUME Calls, NEW a \in Inputs \ mixed, ToldAt(a), NEW t \in Threads, AssignStatus(t) PROVE ToldAt(a)'
<1> USE DEF Calls
<1>0. pc \in [Threads -> Labels] BY DEF IInv, Owned
<1>1. /\ pc[t] = "assign" /\ pc' = [pc EXCEPT ![t] = "assignReported"] /\ UNCHANGED <<call, queue, told>>
      /\ untold' = untold \cup {b \in Inputs : (b \in status) # (b \in status')}
  BY DEF AssignStatus, Onward, Goto, events
<1>2. \A u \in Threads : Tells(u, a)' <=> Tells(u, a) BY <1>0, <1>1 DEF Tells
<1>3. \A u \in Threads : ~Tells(u, a)
  <2>1. call[t] \in CallsOf[t] /\ call[t].op = "setAll" BY <1>1 DEF Called
  <2>2. a \in Touches(call[t]) BY <2>1, CallsAre
  <2>3. \A u \in Threads : Tells(u, a) => u = t BY <2>2, TellsTouches DEF Sole
  <2> QED BY <1>1, <2>3 DEF Tells
<1>4. a \notin untold' => a \notin untold /\ (a \in status' <=> a \in status) BY <1>1
<1>5. ASSUME a \notin untold' PROVE Latest(a, a \in status)'
  <2>1. Latest(a, a \in status) BY <1>3, <1>4, <1>5 DEF ToldAt
  <2> QED BY <1>1, <1>4, <1>5, <2>1 DEF Latest
<1> QED BY <1>2, <1>3, <1>5 DEF ToldAt

\* The timer reports what it did, unless a thread touches the input too.
LEMMA ToldExpire ==
  ASSUME Calls, Texts, ~damaged', NEW a \in Inputs \ mixed', ToldAt(a), NEW i \in Rows, Expire(i)
  PROVE  ToldAt(a)'
<1> USE DEF Calls
<1>1. /\ UNCHANGED <<pc, call, told>> /\ status' = With(status, Config[i], pending[i])
      /\ mixed' = IF \E t \in Threads : Config[i] \in Touches(call[t]) THEN mixed \cup {Config[i]} ELSE mixed
      /\ IF (Config[i] \in reported) # pending[i] THEN Enqueue(Config[i], pending[i]) ELSE UNCHANGED <<queue, untold>>
  BY DEF Expire
<1>2. \A u \in Threads : Tells(u, a)' <=> Tells(u, a) BY <1>1 DEF Tells
<1>3. pending[i] \in BOOLEAN BY Zenon DEF Truths
<1>4. Config[i] \in Inputs BY DEF Inputs
<1>5. reported = status
  <2>1. ~damaged /\ mutex = None BY Zenon DEF Expire
  <2>2. \A u \in Threads : pc[u] # "assignReported" BY <2>1, InputAssumption DEF IInv, Owned
  <2> QED BY <2>1, <2>2 DEF IInv, Agree
<1>6. CASE a = Config[i]
  <2>1. \A u \in Threads : ~Tells(u, a) BY <1>1, <1>6, TellsTouches
  <2>2. a \in status' <=> pending[i] BY <1>1, <1>6 DEF With
  <2>3. CASE (Config[i] \in reported) # pending[i]
    <3>1. ASSUME a \notin untold' PROVE Latest(a, a \in status)'
      <4>1. PICK v \in BOOLEAN : v = pending[i] BY <1>3, Zenon
      <4>2. Enqueue(a, v) BY <1>1, <1>6, <2>3, <4>1
      <4>3. Latest(a, v)' BY <1>1, <3>1, <4>2, LatestPut
      <4>4. a \in status' <=> v BY <2>2, <4>1, Zenon
      <4> QED BY <4>3, <4>4 DEF Latest
    <3> QED BY <1>2, <2>1, <3>1 DEF ToldAt
  <2>4. CASE (Config[i] \in reported) = pending[i]
    <3>1. UNCHANGED <<queue, untold>> BY <1>1, <2>4
    <3>2. a \in status' <=> a \in status BY <1>5, <1>6, <2>2, <2>4
    <3>3. Latest(a, a \in status) => Latest(a, a \in status)' BY <1>1, <3>1, <3>2 DEF Latest
    <3> QED BY <1>2, <2>1, <3>1, <3>3 DEF ToldAt
  <2> QED BY <2>3, <2>4
<1>7. CASE a # Config[i]
  <2>1. a \in status' <=> a \in status BY <1>1, <1>7 DEF With
  <2>2. /\ a \in untold' <=> a \in untold
        /\ \A w : Latest(a, w) => Latest(a, w)'
    <3>1. CASE Enqueue(Config[i], pending[i]) BY <1>1, <1>3, <1>4, <1>7, <3>1, LatestPut
    <3>2. CASE UNCHANGED <<queue, untold>> BY <1>1, <3>2 DEF Latest
    <3> QED BY <1>1, <3>1, <3>2
  <2>3. Latest(a, a \in status) => Latest(a, a \in status)' BY <2>1, <2>2 DEF Latest
  <2> QED BY <1>1, <1>2, <2>1, <2>2, <2>3 DEF ToldAt
<1> QED BY <1>6, <1>7

LEMMA ToldStep == ASSUME Calls, Texts, Told, [Next]_vars PROVE Told'
<1>1. SUFFICES ASSUME ~damaged', NEW a \in Inputs \ mixed' PROVE ToldAt(a)' BY DEF Told
<1>2. CASE UNCHANGED vars BY <1>1, <1>2 DEF vars, masks, events, history, Told, ToldAt, Latest, Tells
<1>3. CASE WorkStarts \/ WorkEnds
  BY <1>1, <1>3 DEF WorkStarts, WorkEnds, masks, history, Told, ToldAt, Latest, Tells
<1>4. CASE Deliver
  <2>1. UNCHANGED <<status, untold, pc, call, mixed, damaged>> BY <1>4 DEF Deliver, masks, history
  <2>2. ToldAt(a) BY <1>1, <2>1 DEF Told
  <2>3. Latest(a, a \in status) => Latest(a, a \in status)'
    <3>1. PICK w : w = (a \in status) OBVIOUS
    <3>2. Latest(a, w) => Latest(a, w)' BY <1>4, LatestDeliver
    <3> QED BY <2>1, <3>1, <3>2 DEF Latest
  <2>4. \A u \in Threads : Tells(u, a)' <=> Tells(u, a) BY <2>1 DEF Tells
  <2> QED BY <2>1, <2>2, <2>3, <2>4 DEF ToldAt
<1>5. ASSUME NEW i \in Rows, Expire(i) PROVE ToldAt(a)'
  <2>1. ~damaged BY <1>1, <1>5, Zenon DEF Expire
  <2>2. mixed \subseteq mixed' BY <1>5 DEF Expire
  <2>3. ToldAt(a) BY <1>1, <2>1, <2>2 DEF Told
  <2> QED BY <1>1, <1>5, <2>3, ToldExpire
<1>6. ASSUME NEW t \in Threads, Store(t) \/ Put(t) \/ AssignStatus(t) PROVE ToldAt(a)'
  <2>1. UNCHANGED <<mixed, damaged>> BY <1>6 DEF Store, Put, AssignStatus, history
  <2>2. ToldAt(a) BY <1>1, <2>1 DEF Told
  <2> QED BY <1>1, <1>6, <2>1, <2>2, ToldStore, ToldPut, ToldAssign
<1>7. ASSUME NEW t \in Threads, Aside(t) PROVE ToldAt(a)'
  <2>1. mixed \subseteq mixed' /\ damaged' = damaged BY <1>7, AsideKeeps
  <2>2. ToldAt(a) BY <1>1, <2>1 DEF Told
  <2> QED BY <1>1, <1>7, <2>2, ToldAside
<1> QED BY <1>2, <1>3, <1>4, <1>5, <1>6, <1>7 DEF Next, Step, Aside

LEMMA ToldInit == Init => Texts /\ Told
<1> SUFFICES ASSUME Init PROVE Texts /\ Told OBVIOUS
<1>1. queue = <<>> /\ told = [a \in Inputs |-> a \in status] /\ pc = [t \in Threads |-> "idle"] BY DEF Init
<1>2. \A a \in Inputs : told[a] = (a \in status) BY <1>1
<1>3. Texts
  <2>1. \A a \in Inputs : (a \in status) \in BOOLEAN OBVIOUS
  <2>2. \A a \in Inputs : told[a] \in BOOLEAN BY <1>2, <2>1, Zenon
  <2>3. queue \in Seq(Events) BY <1>1
  <2>4. told = [a \in Inputs |-> told[a]] BY <1>1
  <2> QED BY <2>2, <2>3, <2>4, Zenon DEF Texts
<1>4. ASSUME NEW a \in Inputs PROVE ToldAt(a)
  <2>1. Len(queue) = 0 BY <1>1
  <2>2. told[a] <=> a \in status BY <1>2
  <2>3. Latest(a, a \in status) BY <2>1, <2>2 DEF Latest
  <2>4. \A t \in Threads : ~Tells(t, a) BY <1>1 DEF Tells
  <2> QED BY <2>3, <2>4 DEF ToldAt
<1> QED BY <1>3, <1>4 DEF Told

LEMMA ToldInvariant == Spec => [](Texts /\ Told)
<1>1. Calls /\ Texts /\ Told /\ [Next]_vars => Texts' /\ Told' BY TextsStep, ToldStep
<1> QED BY <1>1, ToldInit, CallsInvariant, PTL DEF Spec

\* What the callback was last told of an input is its status, for any ids,
\* threads, calls and size of the queue: nobody reports what is not news, and
\* an event that nobody lost is in the queue or was delivered last
\* (digital_input.c:49-144, 332-406).
THEOREM CallbackIsRight == Spec => []CallbackToldTheTruth
<1>1. Calls /\ Texts /\ Told => CallbackToldTheTruth
  <2> SUFFICES ASSUME Calls, Texts, Told, NEW a \in Inputs \ (mixed \cup untold), Quiet(a), ~damaged,
                      \A e \in ToSet(queue) : e.id # a
               PROVE  told[a] = (a \in status)
    BY DEF CallbackToldTheTruth
  <2>1. \A t \in Threads : ~Tells(t, a) BY TellsTouches DEF Quiet, Calls
  <2>2. Latest(a, a \in status) BY <2>1 DEF Told, ToldAt
  <2>3. \A i \in 1 .. Len(queue) : queue[i].id # a
    <3>1. ToSet(queue) = {queue[i] : i \in 1 .. Len(queue)} BY DEF ToSet
    <3> QED BY <3>1
  <2>4. told[a] <=> a \in status BY <2>2, <2>3 DEF Latest
  <2>5. told[a] \in BOOLEAN BY Zenon DEF Texts
  <2>6. (a \in status) \in BOOLEAN OBVIOUS
  <2> QED BY <2>4, <2>5, <2>6, TruthsEqual, Zenon
<1> QED BY <1>1, CallsInvariant, ToldInvariant, PTL

-----------------------------------------------------------------------------
Subsets ==
  /\ {status, reported, mixed, stale, untold} \subseteq SUBSET Inputs
  /\ {hyst, timer} \subseteq SUBSET Rows
Loads == reg \in [Threads -> (SUBSET Inputs) \X (SUBSET Inputs)]
Entered == \A t \in Threads : pc[t] = "configure" => call[t].op = "hysteresis"
Flags == {submitted, running, damaged} \subseteq BOOLEAN
Typed == Subsets /\ Loads /\ Entered /\ Flags /\ Len(queue) <= QueueSize /\ asked = [a \in Inputs |-> asked[a]]

LEMMA RowIsRow == ASSUME NEW a \in Inputs PROVE RowOf(a) \in Rows
BY DEF RowOf, Inputs

LEMMA UpdateInputs ==
  ASSUME Called, NEW t \in Threads, pc[t] \in {"stop", "restart", "arm", "store"}
  PROVE  call[t].id \in Inputs /\ RowOf(call[t].id) \in Rows
<1>1. call[t] \in CallsOf[t] /\ call[t].op = "update" BY DEF Called, Busy
<1> QED BY <1>1, CallsAre, RowIsRow

LEMMA EnteredStep == ASSUME Calls, Entered, [Next]_vars PROVE Entered'
<1> USE DEF Calls, Entered
<1>0. pc \in [Threads -> Labels] /\ call = [t \in Threads |-> call[t]] BY DEF IInv, Owned
<1>1. CASE UNCHANGED <<pc, call>> BY <1>1
<1>2. ASSUME NEW t \in Threads, Call(t) PROVE Entered'
  <2>1. PICK c \in CallsOf[t] :
          /\ call' = [call EXCEPT ![t] = c]
          /\ pc' = [pc EXCEPT ![t] = CASE c.op = "update" -> "check" [] c.op = "setAll" -> "assign"
                                       [] c.op = "hysteresis" -> "configure" [] OTHER -> "flush"]
    BY <1>2, CallEnters
  <2>2. pc'[t] = "configure" => c.op = "hysteresis" BY <1>0, <2>1
  <2> QED BY <1>0, <2>1, <2>2
<1>3. ASSUME NEW t \in Threads, Return(t) PROVE Entered' BY <1>0, <1>3 DEF Return, Goto
<1>4. ASSUME NEW t \in Threads, Inner(t) PROVE Entered'
  <2>1. call' = call /\ pc' = [pc EXCEPT ![t] = pc'[t]] BY <1>4, InnerGoes
  <2>2. PICK l \in Labels \ {"configure"} : pc' = [pc EXCEPT ![t] = l]
    BY <1>4 DEF Inner, Check, Stop, Restart, Pend, Arm, Load, Store, Put, Submit, AssignStatus, AssignReported,
                Configure, Flush, Onward, Goto, Labels
  <2> QED BY <1>0, <2>1, <2>2
<1>5. \/ UNCHANGED <<pc, call>> \/ \E t \in Threads : Call(t) \/ Return(t) \/ Inner(t)
  BY DEF Next, Step, Inner, Expire, WorkStarts, Deliver, WorkEnds, vars
<1> QED BY <1>1, <1>2, <1>3, <1>4, <1>5

LEMMA SubsetsStep == ASSUME Calls, Texts, Typed, [Next]_vars PROVE Subsets' /\ Loads'
<1> USE DEF Calls, Typed, Subsets, Loads
<1>1. CASE UNCHANGED vars BY <1>1 DEF vars, masks, timers, history
<1>2. CASE WorkStarts \/ Deliver \/ WorkEnds BY <1>2 DEF WorkStarts, Deliver, WorkEnds, masks, timers, history
<1>3. ASSUME NEW i \in Rows, Expire(i) PROVE Subsets' /\ Loads'
  <2>1. Config[i] \in Inputs BY DEF Inputs
  <2>2. /\ timer' = timer \ {i} /\ mixed' \in {mixed, mixed \cup {Config[i]}} /\ UNCHANGED <<hyst, stale, reg>>
        /\ status' = With(status, Config[i], pending[i]) /\ reported' = With(reported, Config[i], pending[i])
        /\ untold' \in {untold, untold \ {Config[i]}, untold \cup {Config[i]}}
    BY <1>3 DEF Expire, Enqueue
  <2> QED BY <2>1, <2>2 DEF With
<1>4. ASSUME NEW t \in Threads, Call(t) PROVE Subsets' /\ Loads'
  <2>1. PICK c \in CallsOf[t] :
          /\ mixed' = mixed \cup (Touches(c) \cap UNION {Touches(call[u]) : u \in Threads \ {t}})
          /\ UNCHANGED <<masks, timers, stale, untold, reg>>
    BY <1>4, CallEnters
  <2>2. Touches(c) \subseteq Inputs BY CallsAre
  <2> QED BY <2>1, <2>2 DEF masks, timers
<1>5. ASSUME NEW t \in Threads, Stop(t) \/ Restart(t) \/ Arm(t) PROVE Subsets' /\ Loads'
  <2>1. pc[t] \in {"stop", "restart", "arm"} BY <1>5 DEF Stop, Restart, Arm
  <2>2. RowOf(call[t].id) \in Rows BY <2>1, UpdateInputs
  <2>3. /\ timer' \in {timer \ {call[t].id}, timer \ {RowOf(call[t].id)}, timer \cup {RowOf(call[t].id)}}
        /\ stale' \in {stale, stale \ {call[t].id}} /\ UNCHANGED <<status, reported, hyst, mixed, untold, reg>>
    BY <1>5 DEF Stop, Restart, Arm, masks, history
  <2> QED BY <2>2, <2>3
<1>6. ASSUME NEW t \in Threads, Load(t) PROVE Subsets' /\ Loads'
  BY <1>6 DEF Load, masks, timers, history
<1>7. ASSUME NEW t \in Threads, Store(t) PROVE Subsets' /\ Loads'
  <2>1. call[t].id \in Inputs BY <1>7, UpdateInputs DEF Store
  <2>2. /\ status' = With(reg[t][1], call[t].id, call[t].state)
        /\ reported' = With(reg[t][2], call[t].id, call[t].state)
        /\ reg' = [reg EXCEPT ![t] = <<{}, {}>>] /\ UNCHANGED <<hyst, timer, mixed, stale, untold>>
    BY <1>7 DEF Store, timers, history
  <2>3. reg[t][1] \subseteq Inputs /\ reg[t][2] \subseteq Inputs OBVIOUS
  <2> QED BY <2>1, <2>2, <2>3 DEF With
<1>8. ASSUME NEW t \in Threads, Put(t) PROVE Subsets' /\ Loads'
  <2>1. call[t].id \in Inputs BY <1>8, CallHas DEF Put
  <2>2. untold' \in {untold \ {call[t].id}, untold \cup {call[t].id}} BY <1>8 DEF Put, Enqueue
  <2>3. UNCHANGED <<masks, timers, mixed, stale, reg>> BY <1>8 DEF Put
  <2> QED BY <2>1, <2>2, <2>3 DEF masks, timers
<1>9. ASSUME NEW t \in Threads, AssignStatus(t) \/ AssignReported(t) PROVE Subsets' /\ Loads'
  <2>1. call[t] \in CallsOf[t] /\ call[t].op = "setAll" BY <1>9 DEF AssignStatus, AssignReported, Called
  <2>2. call[t].mask \subseteq Inputs BY <2>1, CallsAre
  <2>3. {Config[i] : i \in timer} \subseteq Inputs BY DEF Inputs
  <2>4. /\ status' \in {status, call[t].mask} /\ reported' \in {reported, call[t].mask}
        /\ untold' \in {untold, untold \cup {a \in Inputs : (a \in status) # (a \in status')}}
        /\ stale' \in {stale, stale \cup {Config[i] : i \in timer}} /\ UNCHANGED <<hyst, timer, mixed, reg>>
    BY <1>9 DEF AssignStatus, AssignReported, timers, history
  <2> QED BY <2>2, <2>3, <2>4
<1>10. ASSUME NEW t \in Threads, Configure(t) PROVE Subsets' /\ Loads'
  <2>1. pc[t] = "configure" /\ hyst' = With(hyst, RowOf(call[t].id), call[t].on)
        /\ UNCHANGED <<status, reported, timer, mixed, stale, untold, reg>>
    BY <1>10 DEF Configure, timers, history
  <2>2. call[t] \in CallsOf[t] /\ call[t].op = "hysteresis" BY <2>1 DEF Called, Entered
  <2>3. call[t].id \in Inputs BY <2>2, InputAssumption
  <2>4. RowOf(call[t].id) \in Rows BY <2>3, RowIsRow
  <2> QED BY <2>1, <2>4 DEF With
<1>11. ASSUME NEW t \in Threads, Flush(t) PROVE Subsets' /\ Loads'
  <2>1. {e.id : e \in ToSet(queue)} \subseteq Inputs
    <3>1. ToSet(queue) = {queue[i] : i \in 1 .. Len(queue)} BY DEF ToSet
    <3>2. \A i \in 1 .. Len(queue) : queue[i] \in Events BY DEF Texts
    <3> QED BY <3>1, <3>2 DEF Events
  <2> QED BY <1>11, <2>1 DEF Flush, masks, timers
<1>12. ASSUME NEW t \in Threads, Return(t) \/ Check(t) \/ Pend(t) \/ Submit(t) PROVE Subsets' /\ Loads'
  BY <1>12 DEF Return, Check, Pend, Submit, masks, timers, history
<1> QED BY <1>1, <1>2, <1>3, <1>4, <1>5, <1>6, <1>7, <1>8, <1>9, <1>10, <1>11, <1>12 DEF Next, Step

LEMMA TypedStep == ASSUME Calls, Texts, Typed, [Next]_vars PROVE Typed'
<1>1. Flags'
  <2>1. UNCHANGED submitted \/ submitted' \in BOOLEAN
    BY DEF Next, Step, Call, Return, Check, Stop, Restart, Pend, Arm, Load, Store, Put, Submit, AssignStatus,
           AssignReported, Configure, Flush, Expire, WorkStarts, Deliver, WorkEnds, vars, events
  <2>2. UNCHANGED running \/ running' \in BOOLEAN
    BY DEF Next, Step, Call, Return, Check, Stop, Restart, Pend, Arm, Load, Store, Put, Submit, AssignStatus,
           AssignReported, Configure, Flush, Expire, WorkStarts, Deliver, WorkEnds, vars, events
  <2>3. UNCHANGED damaged \/ damaged' \in BOOLEAN
    BY DEF Next, Step, Call, Return, Check, Stop, Restart, Pend, Arm, Load, Store, Put, Submit, AssignStatus,
           AssignReported, Configure, Flush, Expire, WorkStarts, Deliver, WorkEnds, vars, history
  <2> QED BY <2>1, <2>2, <2>3, Zenon DEF Typed, Flags
<1>2. Len(queue') <= QueueSize
  <2>1. Len(queue) <= QueueSize /\ Len(queue) \in Nat /\ QueueSize \in Nat BY InputAssumption DEF Typed, Texts
  <2>2. CASE queue' = queue BY <2>1, <2>2
  <2>3. CASE queue # <<>> /\ queue' = Tail(queue)
    <3>1. Len(queue') = Len(queue) - 1 BY <2>3 DEF Texts
    <3> QED BY <2>1, <3>1
  <2>4. ASSUME NEW a, NEW v, Enqueue(a, v) PROVE Len(queue') <= QueueSize
    BY <2>1, <2>4 DEF Enqueue, Texts
  <2>5. CASE queue' = <<>>
    <3>1. Len(queue') = 0 BY <2>5
    <3> QED BY <2>1, <3>1
  <2>6. \/ queue' = queue \/ (queue # <<>> /\ queue' = Tail(queue)) \/ queue' = <<>>
        \/ \E t \in Threads : Enqueue(call[t].id, call[t].state)
        \/ \E i \in Rows : Enqueue(Config[i], pending[i])
    BY DEF Next, Step, Call, Return, Check, Stop, Restart, Pend, Arm, Load, Store, Put, Submit, AssignStatus,
           AssignReported, Configure, Flush, Expire, WorkStarts, Deliver, WorkEnds, vars, events
  <2> QED BY <2>2, <2>3, <2>4, <2>5, <2>6
<1>3. asked' = [a \in Inputs |-> asked'[a]]
  <2>1. asked' = asked \/ \E t \in Threads : Call(t)
    BY DEF Next, Step, Return, Check, Stop, Restart, Pend, Arm, Load, Store, Put, Submit, AssignStatus,
           AssignReported, Configure, Flush, Expire, WorkStarts, Deliver, WorkEnds, vars, history
  <2>2. ASSUME NEW t \in Threads, Call(t) PROVE asked' = [a \in Inputs |-> asked'[a]]
    <3>1. \E c \in CallsOf[t] :
            asked' = [a \in Inputs |-> CASE a \notin Touches(c) -> asked[a]
                        [] a \in Touches(c) /\ c.op = "update" -> c.state
                        [] OTHER -> a \in c.mask]
      BY <2>2, CallEnters
    <3> QED BY <3>1
  <2> QED BY <2>1, <2>2 DEF Typed
<1>4. Subsets' /\ Loads' /\ Entered' BY SubsetsStep, EnteredStep DEF Typed
<1> QED BY <1>1, <1>2, <1>3, <1>4 DEF Typed

LEMMA TypedInit == Init => Typed
<1> SUFFICES ASSUME Init PROVE Typed OBVIOUS
<1>1. Subsets /\ Loads /\ Entered BY InputAssumption DEF Init, Subsets, Loads, Entered
<1>2. Flags BY Zenon DEF Init, Flags
<1>3. Len(queue) <= QueueSize BY InputAssumption DEF Init
<1>4. asked = [a \in Inputs |-> asked[a]] BY DEF Init
<1> QED BY <1>1, <1>2, <1>3, <1>4 DEF Typed

LEMMA TypedInvariant == Spec => []Typed
<1>1. Calls /\ Texts /\ Typed /\ [Next]_vars => Typed' BY TypedStep
<1> QED BY <1>1, TypedInit, CallsInvariant, ToldInvariant, PTL DEF Spec

\* Every variable keeps its type, for any ids: no input that is not
\* configured is ever in a mask or an event, and no timer runs past the table
\* (digital_input.c).
THEOREM TypeCorrect == Spec => []TypeOK
<1>1. Calls /\ Texts /\ Typed => TypeOK
  <2> SUFFICES ASSUME Calls, Texts, Typed PROVE TypeOK OBVIOUS
  <2>1. /\ status \subseteq Inputs /\ reported \subseteq Inputs /\ hyst \subseteq Rows /\ timer \subseteq Rows
        /\ mixed \subseteq Inputs /\ stale \subseteq Inputs /\ untold \subseteq Inputs
    BY DEF Typed, Subsets
  <2>2. pending \in [Rows -> BOOLEAN]
    <3>1. pending = [i \in Rows |-> pending[i]] BY DEF Calls, Called
    <3> QED BY <3>1, Zenon DEF Calls, Truths
  <2>3. /\ mutex \in Threads \cup {None} /\ pc \in [Threads -> Labels]
        /\ \A t \in Threads : mutex = t <=> pc[t] \in {"store", "assignReported"}
    BY DEF Calls, IInv, Owned
  <2>4. queue \in Seq([id : Inputs, state : BOOLEAN]) /\ Len(queue) <= QueueSize
    BY Zenon DEF Texts, Typed, Events
  <2>5. {submitted, running, damaged} \subseteq BOOLEAN BY Zenon DEF Typed, Flags
  <2>6. \A t \in Threads : call[t] \in CallsOf[t] \cup {None} /\ (call[t] = None <=> pc[t] = "idle")
    BY DEF Calls, Called
  <2>7. reg \in [Threads -> (SUBSET Inputs) \X (SUBSET Inputs)] BY DEF Typed, Loads
  <2>8. told \in [Inputs -> BOOLEAN] /\ asked \in [Inputs -> BOOLEAN]
    <3>1. told \in [Inputs -> BOOLEAN] BY Zenon DEF Texts
    <3>2. asked = [a \in Inputs |-> asked[a]] BY DEF Typed
    <3>3. asked \in [Inputs -> BOOLEAN] BY <3>2, Zenon DEF Calls, Truths
    <3> QED BY <3>1, <3>3
  <2> QED BY <2>1, <2>2, <2>3, <2>4, <2>5, <2>6, <2>7, <2>8, Zenon DEF TypeOK
<1> QED BY <1>1, TypedInvariant, CallsInvariant, ToldInvariant, PTL
=============================================================================
