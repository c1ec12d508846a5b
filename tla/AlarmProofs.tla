----------------------------- MODULE AlarmProofs -----------------------------
(***************************************************************************)
(* Proofs about Alarm, for any number of alarms and threads, any calls and *)
(* any size of the queue: the memory covers the active alarms and is       *)
(* exact, an event in the queue has somebody to deliver it, the debounce   *)
(* ends in what was last asked for, the callback was told the truth, and   *)
(* every variable has its type.                                            *)
(***************************************************************************)
EXTENDS Alarm, TLAPS

\* A thread owns the mutex from what it loads to what it stores.
Inside == {"store", "memstore", "keep"}
Owned ==
  /\ pc \in [Threads -> Labels]
  /\ id = [t \in Threads |-> id[t]] /\ reg = [t \in Threads |-> reg[t]]
  /\ \A t \in Threads : mutex = t <=> pc[t] \in Inside
  /\ mutex \in Threads \cup {None}

\* What a thread has loaded is still there when it stores.
Loaded ==
  \A t \in Threads :
    /\ pc[t] \in {"store", "keep"} => reg[t] = active
    /\ pc[t] = "memstore" => reg[t] = memory

\* A thread between the two sections of alarm_set still has a to remember.
Adding(a) == \E t \in Threads : pc[t] \in {"memload", "memstore"} /\ id[t] = a
Covered == \A a \in active \ memory : Adding(a)

\* Loaded and Covered are what no interrupt between a load and its store took
\* away.
IInv == Owned /\ (~damaged => Loaded /\ Covered)

-----------------------------------------------------------------------------
LEMMA InitInv == Init => IInv
BY AlarmAssumption DEF Init, IInv, Owned, Loaded, Covered, Inside, Labels

\* A step of a thread outside every critical section and outside the gap of
\* alarm_set that stays there.
LEMMA Outside ==
  ASSUME IInv, NEW t \in Threads, NEW l \in Labels \ (Inside \cup {"memload"}),
         pc[t] \notin Inside \cup {"memload"}, pc' = [pc EXCEPT ![t] = l],
         id' = id \/ \E a : id' = [id EXCEPT ![t] = a],
         UNCHANGED <<active, memory, mutex, reg, damaged>>
  PROVE  IInv'
<1> USE DEF IInv, Inside
<1>1. \A u \in Threads : pc'[u] = IF u = t THEN l ELSE pc[u] BY DEF Owned
<1>2. \A u \in Threads \ {t} : id'[u] = id[u] BY DEF Owned
<1>3. id' = [u \in Threads |-> id'[u]] BY DEF Owned
<1>4. pc' \in [Threads -> Labels] BY DEF Owned
<1>5. Owned' BY <1>1, <1>3, <1>4 DEF Owned
<1>6. Loaded => Loaded' BY <1>1 DEF Loaded
<1>7. Covered => Covered' BY <1>1, <1>2 DEF Covered, Adding
<1> QED BY <1>5, <1>6, <1>7

\* Everything a call does without the mutex or in a section of one access.
LEMMA OutsideSteps ==
  ASSUME IInv, NEW t \in Threads,
         \/ Return(t) \/ Check(t) \/ Stop(t) \/ Unpend(t) \/ Choose(t) \/ Pend(t) \/ Arm(t)
         \/ Put(t) \/ Submit(t) \/ NextAlarm(t) \/ Configure(t) \/ Flush(t)
  PROVE  IInv'
<1> USE DEF Goto, Onward, Section, masks, timers, events, history, place, Labels, Inside
<1>1. CASE Return(t)
  <2>1. /\ pc[t] \in {"return", "next"} /\ pc' = [pc EXCEPT ![t] = "idle"]
        /\ id' = [id EXCEPT ![t] = 0]
        /\ UNCHANGED <<active, memory, mutex, reg, damaged>>
    BY <1>1 DEF Return
  <2> QED BY <2>1, Outside
<1>2. CASE Check(t)
  <2>1. PICK l \in {"stop", "choose"} : pc' = [pc EXCEPT ![t] = l] BY <1>2 DEF Check
  <2>2. pc[t] = "check" /\ UNCHANGED <<active, memory, mutex, reg, damaged, id>>
    BY <1>2 DEF Check
  <2> QED BY <2>1, <2>2, Outside
<1>3. CASE Stop(t) \/ Pend(t)
  <2>1. PICK l \in {"unpend", "arm"} : pc' = [pc EXCEPT ![t] = l] BY <1>3 DEF Stop, Pend
  <2>2. pc[t] \in {"stop", "pend"} /\ UNCHANGED <<active, memory, mutex, reg, damaged, id>>
    BY <1>3 DEF Stop, Pend
  <2> QED BY <2>1, <2>2, Outside
<1>4. CASE Unpend(t) \/ Arm(t) \/ Configure(t) \/ Flush(t)
  <2>1. /\ pc[t] \in {"unpend", "arm", "configure", "flush"}
        /\ pc' = [pc EXCEPT ![t] = "return"]
        /\ UNCHANGED <<active, memory, mutex, reg, damaged, id>>
    BY <1>4 DEF Unpend, Arm, Configure, Flush
  <2> QED BY <2>1, Outside
<1>5. CASE Put(t)
  <2>1. PICK l \in {"submit", "next", "return"} : pc' = [pc EXCEPT ![t] = l]
    <3>1. CASE Len(queue) < QueueSize BY <1>5, <3>1 DEF Put
    <3>2. CASE ~(Len(queue) < QueueSize) BY <1>5, <3>2 DEF Put
    <3> QED BY <3>1, <3>2
  <2>2. pc[t] = "put" /\ UNCHANGED <<active, memory, mutex, reg, damaged, id>>
    BY <1>5 DEF Put
  <2> QED BY <2>1, <2>2, Outside
<1>6. CASE Submit(t)
  <2>1. PICK l \in {"next", "return"} : pc' = [pc EXCEPT ![t] = l] BY <1>6 DEF Submit
  <2>2. pc[t] = "submit" /\ UNCHANGED <<active, memory, mutex, reg, damaged, id>>
    BY <1>6 DEF Submit
  <2> QED BY <2>1, <2>2, Outside
<1>7. CASE Choose(t)
  <2>1. PICK l \in {"pend", "load"} : pc' = [pc EXCEPT ![t] = l] BY <1>7 DEF Choose
  <2>2. pc[t] = "choose" /\ UNCHANGED <<active, memory, mutex, reg, damaged, id>>
    BY <1>7 DEF Choose
  <2> QED BY <2>1, <2>2, Outside
<1>8. CASE NextAlarm(t)
  <2>1. /\ pc[t] = "next" /\ pc' = [pc EXCEPT ![t] = "load"]
        /\ id' = [id EXCEPT ![t] = Head(rest[t])]
        /\ UNCHANGED <<active, memory, mutex, reg, damaged>>
    BY <1>8 DEF NextAlarm
  <2> QED BY <2>1, Outside
<1> QED BY <1>1, <1>2, <1>3, <1>4, <1>5, <1>6, <1>7, <1>8

LEMMA CallInv == ASSUME IInv, NEW t \in Threads, Call(t) PROVE IInv'
<1>1. PICK c \in CallsOf[t] :
        /\ id' = IF c.op = "set" THEN [id EXCEPT ![t] = c.id] ELSE id
        /\ pc' = [pc EXCEPT ![t] = [set |-> "check", force |-> "next", clearMemory |-> "load",
                                   hysteresis |-> "configure", flush |-> "flush"][c.op]]
  BY DEF Call, Goto
<1>2. c.op \in {"set", "force", "clearMemory", "hysteresis", "flush"} BY AlarmAssumption
<1>3. PICK l \in {"check", "next", "load", "configure", "flush"} :
        l = [set |-> "check", force |-> "next", clearMemory |-> "load",
             hysteresis |-> "configure", flush |-> "flush"][c.op]
  BY <1>2
<1>4. pc[t] = "idle" /\ UNCHANGED <<active, memory, mutex, reg, damaged>>
  BY DEF Call, masks
<1> QED BY <1>1, <1>3, <1>4, Outside DEF Labels, Inside

\* A thread takes the mutex and loads a mask (alarm.c:75-121, 573-606).
LEMMA Loads == ASSUME IInv, NEW t \in Threads, Load(t) \/ LoadMemory(t) PROVE IInv'
<1> USE DEF IInv, Inside
<1>1. PICK l \in Inside :
        /\ pc' = [pc EXCEPT ![t] = l]
        /\ \/ pc[t] = "load" /\ l \in {"store", "keep"} /\ reg' = [reg EXCEPT ![t] = active]
           \/ pc[t] = "memload" /\ l = "memstore" /\ reg' = [reg EXCEPT ![t] = memory]
  BY DEF Load, LoadMemory, Onward, Goto
<1>2. mutex = None /\ mutex' = t /\ UNCHANGED <<active, memory, id, damaged>>
  BY DEF Load, LoadMemory, Onward, masks, place, history
<1>3. \A u \in Threads : pc[u] \notin Inside BY <1>2, AlarmAssumption DEF Owned
<1>4. \A u \in Threads : pc'[u] = IF u = t THEN l ELSE pc[u] BY <1>1 DEF Owned
<1>5. \A u \in Threads \ {t} : reg'[u] = reg[u] BY <1>1 DEF Owned
<1>6. reg' = [u \in Threads |-> reg'[u]] BY <1>1 DEF Owned
<1>7. Owned' BY <1>1, <1>2, <1>3, <1>4, <1>6 DEF Owned, Labels
<1>8. Loaded' BY <1>1, <1>2, <1>3, <1>4 DEF Loaded, Owned
<1>9. Covered => Covered' BY <1>1, <1>2, <1>4 DEF Covered, Adding
<1> QED BY <1>2, <1>7, <1>8, <1>9

\* A thread stores a mask and gives the mutex back.
LEMMA Stores ==
  ASSUME IInv, NEW t \in Threads, Store(t) \/ StoreMemory(t) \/ Keep(t) PROVE IInv'
<1> USE DEF IInv, Inside
<1>1. PICK l \in {"memload", "put", "return"} :
        /\ pc' = [pc EXCEPT ![t] = l]
        /\ Store(t) => l = IF want[t] /\ id[t] \notin reg[t] THEN "memload" ELSE "put"
  BY DEF Store, StoreMemory, Keep, Onward, Goto
<1>2. /\ pc[t] \in Inside /\ mutex' = None /\ reg' = [reg EXCEPT ![t] = {}]
      /\ UNCHANGED <<id, damaged>>
  BY DEF Store, StoreMemory, Keep, Onward, Forget, place, history
<1>3. \A u \in Threads \ {t} : pc[u] \notin Inside BY <1>2 DEF Owned
<1>4. \A u \in Threads : pc'[u] = IF u = t THEN l ELSE pc[u] BY <1>1 DEF Owned
<1>5. \A u \in Threads : pc'[u] \notin Inside BY <1>3, <1>4
<1>6. reg' = [u \in Threads |-> reg'[u]] BY <1>2 DEF Owned
<1>7. Owned' BY <1>1, <1>2, <1>5, <1>6, AlarmAssumption DEF Owned, Labels
<1>8. Loaded' BY <1>5 DEF Loaded
<1>9. ASSUME Loaded, Covered PROVE Covered'
  <2>1. CASE Store(t)
    <3>1. pc[t] = "store" /\ active' = With(active, id[t], want[t]) /\ memory' = memory
      BY <1>9, <2>1 DEF Store, Loaded
    <3>2. ASSUME NEW a \in active' \ memory', a \in active PROVE Adding(a)'
      <4>1. PICK u \in Threads : pc[u] \in {"memload", "memstore"} /\ id[u] = a
        BY <1>9, <3>1, <3>2 DEF Covered, Adding
      <4>2. pc'[u] = pc[u] BY <1>4, <3>1, <4>1
      <4> QED BY <1>2, <4>1, <4>2 DEF Adding
    <3>3. ASSUME NEW a \in active' \ memory', a \notin active PROVE Adding(a)'
      <4>1. a = id[t] /\ want[t] BY <3>1, <3>3 DEF With
      <4>2. id[t] \notin reg[t] BY <1>9, <3>1, <3>3, <4>1 DEF Loaded
      <4>3. pc'[t] = "memload" BY <1>1, <1>4, <2>1, <4>1, <4>2
      <4> QED BY <1>2, <4>1, <4>3 DEF Adding
    <3> QED BY <3>2, <3>3 DEF Covered
  <2>2. CASE StoreMemory(t)
    <3>1. pc[t] = "memstore" /\ memory' = memory \cup {id[t]} /\ active' = active
      BY <1>9, <2>2 DEF StoreMemory, Loaded
    <3>2. ASSUME NEW a \in active' \ memory' PROVE Adding(a)'
      <4>1. PICK u \in Threads : pc[u] \in {"memload", "memstore"} /\ id[u] = a
        BY <1>9, <3>1, <3>2 DEF Covered, Adding
      <4>2. u # t BY <3>1, <3>2, <4>1
      <4> QED BY <1>2, <1>4, <4>1, <4>2 DEF Adding
    <3> QED BY <3>2 DEF Covered
  <2>3. CASE Keep(t)
    <3>1. memory' = active /\ active' = active BY <1>9, <2>3 DEF Keep, Loaded
    <3> QED BY <3>1 DEF Covered
  <2> QED BY <2>1, <2>2, <2>3
<1> QED BY <1>2, <1>7, <1>8, <1>9

\* The timer adds to the memory what it sets; if it comes while a thread owns
\* the mutex, or without an alarm, the masks are damaged (alarm.c:124-176).
LEMMA ExpireInv == ASSUME IInv, NEW a \in Alarms, Expire(a) PROVE IInv'
<1> USE DEF IInv
<1>1. UNCHANGED <<pc, id, reg, mutex>> /\ (~damaged' => ~damaged /\ mutex = None /\ pending[a].id # -1)
  BY Zenon DEF Expire, place
<1>2. ~damaged' => memory' = memory \cup (active' \ active) BY <1>1 DEF Expire
<1>3. Owned' BY <1>1 DEF Owned
<1>4. ASSUME ~damaged' PROVE Loaded' /\ Covered'
  <2>1. \A t \in Threads : pc[t] \notin Inside BY <1>1, <1>4, AlarmAssumption DEF Owned
  <2>2. Loaded' BY <1>1, <2>1 DEF Loaded, Inside
  <2>3. Covered' BY <1>1, <1>2, <1>4 DEF Covered, Adding
  <2> QED BY <2>2, <2>3
<1> QED BY <1>3, <1>4

\* The work queue changes neither masks nor threads.
LEMMA Still ==
  ASSUME IInv, UNCHANGED <<active, memory, mutex, reg, damaged, pc, id>> PROVE IInv'
BY DEF IInv, Owned, Loaded, Covered, Adding

-----------------------------------------------------------------------------
LEMMA InvStep == ASSUME IInv, [Next]_vars PROVE IInv'
<1>1. CASE UNCHANGED vars BY <1>1, Still DEF vars, masks, history, place
<1>2. CASE WorkStarts \/ Deliver \/ WorkEnds
  BY <1>2, Still DEF WorkStarts, Deliver, WorkEnds, masks, history, place
<1>3. ASSUME NEW a \in Alarms, Expire(a) PROVE IInv' BY <1>3, ExpireInv
<1>4. ASSUME NEW t \in Threads, Step(t) PROVE IInv'
  BY <1>4, CallInv, OutsideSteps, Loads, Stores DEF Step
<1> QED BY <1>1, <1>2, <1>3, <1>4 DEF Next

\* IInv holds in every state.
THEOREM Invariance == Spec => []IInv
<1>1. IInv /\ [Next]_vars => IInv' BY InvStep
<1> QED BY <1>1, InitInv, PTL DEF Spec

\* No active alarm is missing from the memory but the one a thread is about
\* to add, for any alarms, threads and calls, clearings of the memory in
\* between included, until an interrupt damages a mask.
THEOREM MemoryCovers == Spec => []MemoryCoversActive
<1>1. IInv => MemoryCoversActive BY DEF IInv, Covered, Adding, MemoryCoversActive
<1> QED BY <1>1, Invariance, PTL

-----------------------------------------------------------------------------
\* Of IInv this needs only that every thread has one label.
LEMMA StrandedStep == ASSUME IInv, NoEventIsStranded, [Next]_vars PROVE NoEventIsStranded'
<1> USE DEF NoEventIsStranded
<1>0. pc \in [Threads -> Labels] BY DEF IInv, Owned
<1>1. CASE UNCHANGED vars BY <1>1 DEF vars, events
<1>2. CASE WorkStarts BY <1>2 DEF WorkStarts
<1>3. CASE Deliver BY <1>3 DEF Deliver
<1>4. CASE WorkEnds BY <1>4 DEF WorkEnds
<1>5. ASSUME NEW a \in Alarms, Expire(a) PROVE NoEventIsStranded'
  <2>1. queue' = queue \/ submitted' BY <1>5 DEF Expire, Enqueue
  <2>2. (submitted => submitted') /\ running' = running /\ pc' = pc BY <1>5 DEF Expire
  <2> QED BY <2>1, <2>2
<1>6. ASSUME NEW t \in Threads, Step(t) PROVE NoEventIsStranded'
  <2>1. CASE Submit(t) BY <2>1 DEF Submit
  <2>2. CASE Flush(t) BY <2>2 DEF Flush
  <2>3. CASE Put(t)
    <3>1. /\ pc[t] = "put" /\ UNCHANGED <<submitted, running>>
          /\ \E l : pc' = [pc EXCEPT ![t] = l]
      BY <2>3 DEF Put, Onward, Goto
    <3>2. CASE Len(queue) < QueueSize
      <4>1. pc' = [pc EXCEPT ![t] = "submit"] BY <2>3, <3>2 DEF Put, Onward, Goto
      <4> QED BY <1>0, <4>1
    <3>3. CASE ~(Len(queue) < QueueSize)
      <4>1. queue' = queue BY <2>3, <3>3 DEF Put, Enqueue
      <4> QED BY <1>0, <3>1, <4>1
    <3> QED BY <3>2, <3>3
  <2>4. ASSUME ~Submit(t), ~Flush(t), ~Put(t) PROVE NoEventIsStranded'
    <3>1. UNCHANGED <<queue, submitted, running>>
      BY <1>6, <2>4 DEF Step, Call, Return, Check, Stop, Unpend, Choose, Pend, Arm, Load, Store,
                    LoadMemory, StoreMemory, NextAlarm, Keep, Configure, events
    <3>2. pc[t] # "submit" /\ \E l : pc' = [pc EXCEPT ![t] = l]
      BY <1>6, <2>4 DEF Step, Call, Return, Check, Stop, Unpend, Choose, Pend, Arm, Load, Store,
                    LoadMemory, StoreMemory, NextAlarm, Keep, Configure, Onward, Goto
    <3> QED BY <1>0, <3>1, <3>2
  <2> QED BY <2>1, <2>2, <2>3, <2>4
<1> QED BY <1>1, <1>2, <1>3, <1>4, <1>5, <1>6 DEF Next

\* An event in the queue always has somebody to deliver it, for any size of
\* the queue and any calls: the handler leaves only an empty queue, and
\* whoever adds an event submits the work after it.
THEOREM EventsAreDelivered == Spec => []NoEventIsStranded
<1>1. Init => NoEventIsStranded BY DEF Init, NoEventIsStranded
<1>2. IInv /\ NoEventIsStranded /\ [Next]_vars => NoEventIsStranded' BY StrandedStep
<1> QED BY <1>1, <1>2, Invariance, PTL DEF Spec

-----------------------------------------------------------------------------
(* The debounce: it ends in what was last asked for.                       *)

\* The calls of the threads, by their labels.
Setting == {"check", "stop", "unpend", "choose", "pend", "arm"}
Changing == {"store", "memload", "memstore", "put", "submit"}

CalledIn(t) ==
  /\ call[t] \in CallsOf[t] \cup {None} /\ (call[t] = None <=> pc[t] = "idle")
  /\ pc[t] \in Setting => call[t].op = "set"
  /\ pc[t] \in Changing => call[t].op \in {"set", "force"}
  /\ pc[t] = "load" => call[t].op \in {"set", "force", "clearMemory"}
  /\ pc[t] = "next" => call[t].op = "force"
  /\ pc[t] \in {"keep", "configure", "flush", "return"} => call[t].op # "force"
  /\ pc[t] # "idle" /\ call[t].op = "set" => id[t] = call[t].id /\ (want[t] <=> call[t].state)
  /\ pc[t] \in Changing \cup {"load"} /\ call[t].op = "force"
       => id[t] \in Alarms /\ (want[t] <=> id[t] \in call[t].mask)
  /\ rest[t] \in Seq(Alarms)
  /\ rest[t] # <<>> => pc[t] # "idle" /\ call[t].op = "force"
Called ==
  /\ \A t \in Threads : CalledIn(t)
  /\ call = [t \in Threads |-> call[t]] /\ want = [t \in Threads |-> want[t]]
  /\ rest = [t \in Threads |-> rest[t]]

\* What a timer will do.
Pending ==
  /\ pending = [a \in Alarms |-> [id |-> pending[a].id, state |-> pending[a].state]]
  /\ \A a \in Alarms : pending[a].id \in {-1, a}

\* Calls that overlap on an alarm are mixed there.
Sole ==
  \A a \in Alarms \ mixed : \A t, u \in Threads :
    a \in Touches(call[t]) /\ a \in Touches(call[u]) => t = u

\* A thread that has not yet done to a what it was called for.
Left(t, a) == \E i \in 1 .. Len(rest[t]) : rest[t][i] = a
At(t, a) ==
  /\ id[t] = a
  /\ pc[t] \in Setting \cup {"store"} \/ (pc[t] = "load" /\ call[t].op # "clearMemory")
Open(t, a) == At(t, a) \/ Left(t, a)

Settled(a) ==
  IF a \in timer THEN pending[a].id = a /\ (pending[a].state <=> asked[a]) /\ ~(asked[a] <=> a \in active)
                 ELSE asked[a] <=> a \in active

\* What it has found out and done so far.
Pursues(t, a) ==
  /\ At(t, a) =>
       /\ asked[a] <=> want[t]
       /\ pc[t] \in {"stop", "unpend"} => (a \in active <=> want[t])
       /\ pc[t] = "unpend" => a \notin timer
       /\ pc[t] \in {"choose", "pend", "arm"} => ~(a \in active <=> want[t])
       /\ pc[t] = "arm" => pending[a].id = a /\ (pending[a].state <=> want[t])
  /\ Left(t, a) => (asked[a] <=> a \in call[t].mask)
Pursued(a) ==
  /\ \A t \in Threads : Pursues(t, a)
  /\ a \notin stale /\ (\A t \in Threads : ~Open(t, a)) => Settled(a)
Debounce == \A a \in Alarms \ mixed : ~damaged => Pursued(a)

DebounceInv == IInv /\ Called /\ Pending /\ Sole /\ Debounce

LEMMA CallsAre ==
  ASSUME NEW t \in Threads, NEW c \in CallsOf[t]
  PROVE  /\ c # None /\ c.op \in {"set", "force", "clearMemory", "hysteresis", "flush"}
         /\ c.op = "set" => c.id \in Alarms /\ c.state \in BOOLEAN /\ Touches(c) = {c.id}
         /\ c.op = "force" => c.mask \subseteq Alarms /\ Touches(c) = Alarms
         /\ c.op \notin {"set", "force"} => Touches(c) = {}
BY AlarmAssumption DEF Touches

\* The place a call starts at, and what it takes along.
LEMMA CallEnters ==
  ASSUME NEW t \in Threads, Call(t)
  PROVE  \E c \in CallsOf[t] :
           /\ call' = [call EXCEPT ![t] = c]
           /\ pc' = [pc EXCEPT ![t] = CASE c.op = "set" -> "check" [] c.op = "force" -> "next"
                       [] c.op = "clearMemory" -> "load" [] c.op = "hysteresis" -> "configure" [] OTHER -> "flush"]
           /\ mixed' = mixed \cup (Touches(c) \cap UNION {Touches(call[u]) : u \in Threads \ {t}})
           /\ asked' = [a \in Alarms |->
                CASE a \notin Touches(c) -> asked[a]
                  [] a \in Touches(c) /\ c.op = "set" -> c.state
                  [] OTHER -> a \in c.mask]
           /\ id' = IF c.op = "set" THEN [id EXCEPT ![t] = c.id] ELSE id
           /\ want' = IF c.op = "set" THEN [want EXCEPT ![t] = c.state] ELSE want
           /\ rest' = IF c.op = "force" THEN [rest EXCEPT ![t] = [i \in 1 .. AlarmCount |-> i - 1]] ELSE rest
           /\ pc[t] = "idle" /\ UNCHANGED <<masks, timers, events, mutex, reg, since, stale, damaged>>
<1>1. PICK c \in CallsOf[t] :
        /\ call' = [call EXCEPT ![t] = c]
        /\ Goto(t, [set |-> "check", force |-> "next", clearMemory |-> "load",
                    hysteresis |-> "configure", flush |-> "flush"][c.op])
        /\ mixed' = mixed \cup (Touches(c) \cap UNION {Touches(call[u]) : u \in Threads \ {t}})
        /\ asked' = [a \in Alarms |->
             CASE a \notin Touches(c) -> asked[a]
               [] a \in Touches(c) /\ c.op = "set" -> c.state
               [] OTHER -> a \in c.mask]
        /\ id' = IF c.op = "set" THEN [id EXCEPT ![t] = c.id] ELSE id
        /\ want' = IF c.op = "set" THEN [want EXCEPT ![t] = c.state] ELSE want
        /\ rest' = IF c.op = "force" THEN [rest EXCEPT ![t] = [i \in 1 .. AlarmCount |-> i - 1]] ELSE rest
  BY Zenon DEF Call
<1>2. c.op \in {"set", "force", "clearMemory", "hysteresis", "flush"} BY CallsAre
<1>3. [set |-> "check", force |-> "next", clearMemory |-> "load",
       hysteresis |-> "configure", flush |-> "flush"][c.op]
        = CASE c.op = "set" -> "check" [] c.op = "force" -> "next"
            [] c.op = "clearMemory" -> "load" [] c.op = "hysteresis" -> "configure" [] OTHER -> "flush"
  BY <1>2
<1>4. pc[t] = "idle" /\ UNCHANGED <<masks, timers, events, mutex, reg, since, stale, damaged>> BY DEF Call
<1> QED BY <1>1, <1>3, <1>4 DEF Goto

\* Every step of a call but its first and last, and the next alarm of a
\* force, stays in the call and at the alarm.
Inner(t) ==
  \/ Check(t) \/ Stop(t) \/ Unpend(t) \/ Choose(t) \/ Pend(t) \/ Arm(t) \/ Load(t) \/ Store(t)
  \/ LoadMemory(t) \/ StoreMemory(t) \/ Put(t) \/ Submit(t) \/ Keep(t) \/ Configure(t) \/ Flush(t)

\* The labels such a step leads to.
Goes(t, l) ==
  /\ l # "idle"
  /\ l \in Setting => pc[t] \in Setting
  /\ l = "load" => pc[t] = "choose"
  /\ l = "store" => pc[t] = "load" /\ call[t].op # "clearMemory"
  /\ l \in {"memload", "put"} => pc[t] \in {"store", "memstore"}
  /\ l = "memstore" => pc[t] = "memload"
  /\ l = "submit" => pc[t] = "put"
  /\ l = "next" => pc[t] \in {"put", "submit"} /\ call[t].op = "force"
  /\ l \in {"keep", "configure", "flush", "return"}
       => call[t].op # "force" \/ pc[t] \in {"unpend", "arm", "keep", "configure", "flush"}

LEMMA InnerGoes ==
  ASSUME IInv, NEW t \in Threads, Inner(t)
  PROVE  /\ UNCHANGED <<call, id, want, rest, asked, mixed, damaged>> /\ pc[t] # "idle"
         /\ pc' = [pc EXCEPT ![t] = pc'[t]] /\ Goes(t, pc'[t])
<1> USE DEF Inner, Onward, Goto, history, place, Section, Setting, Goes
<1>0. pc \in [Threads -> Labels] BY DEF IInv, Owned
<1>1. UNCHANGED <<call, id, want, rest, asked, mixed, damaged>>
  BY DEF Check, Stop, Unpend, Choose, Pend, Arm, Load, Store, LoadMemory, StoreMemory, Put, Submit, Keep,
         Configure, Flush
<1>2. pc[t] # "idle" /\ pc' = [pc EXCEPT ![t] = pc'[t]] /\ Goes(t, pc'[t])
  <2>1. CASE Check(t)
    <3>1. PICK l \in {"stop", "choose"} : pc' = [pc EXCEPT ![t] = l] BY <2>1 DEF Check
    <3> QED BY <1>0, <2>1, <3>1 DEF Check
  <2>2. CASE Unpend(t) \/ Arm(t) \/ Keep(t) \/ Configure(t) \/ Flush(t)
    <3>1. PICK l \in {"return"} : pc' = [pc EXCEPT ![t] = l] BY <2>2 DEF Unpend, Arm, Keep, Configure, Flush
    <3>2. pc[t] \in {"unpend", "arm", "keep", "configure", "flush"} BY <2>2 DEF Unpend, Arm, Keep, Configure, Flush
    <3> QED BY <1>0, <3>1, <3>2
  <2>3. CASE Stop(t) \/ Pend(t) \/ LoadMemory(t) \/ StoreMemory(t)
    BY <1>0, <2>3 DEF Stop, Pend, LoadMemory, StoreMemory
  <2>4. CASE Choose(t)
    <3>1. PICK l \in {"pend", "load"} : pc' = [pc EXCEPT ![t] = l] BY <2>4 DEF Choose
    <3> QED BY <1>0, <2>4, <3>1 DEF Choose
  <2>5. CASE Load(t)
    <3>1. CASE call[t].op = "clearMemory"
      <4>1. pc' = [pc EXCEPT ![t] = "keep"] /\ pc[t] = "load" BY <2>5, <3>1 DEF Load
      <4> QED BY <1>0, <3>1, <4>1
    <3>2. CASE call[t].op # "clearMemory"
      <4>1. pc' = [pc EXCEPT ![t] = "store"] /\ pc[t] = "load" BY <2>5, <3>2 DEF Load
      <4> QED BY <1>0, <3>2, <4>1
    <3> QED BY <1>0, <3>1, <3>2
  <2>6. CASE Store(t)
    <3>1. PICK l \in {"memload", "put"} : pc' = [pc EXCEPT ![t] = l] BY <2>6 DEF Store
    <3> QED BY <1>0, <2>6, <3>1 DEF Store
  <2>7. CASE Put(t)
    <3>0. pc[t] = "put" BY <2>7 DEF Put
    <3>1. CASE Len(queue) < QueueSize
      <4>1. pc' = [pc EXCEPT ![t] = "submit"] BY <2>7, <3>1 DEF Put
      <4> QED BY <1>0, <3>0, <4>1
    <3>2. CASE ~(Len(queue) < QueueSize) /\ call[t].op = "force"
      <4>1. pc' = [pc EXCEPT ![t] = "next"] BY <2>7, <3>2 DEF Put
      <4> QED BY <1>0, <3>0, <3>2, <4>1
    <3>3. CASE ~(Len(queue) < QueueSize) /\ call[t].op # "force"
      <4>1. pc' = [pc EXCEPT ![t] = "return"] BY <2>7, <3>3 DEF Put
      <4> QED BY <1>0, <3>0, <3>3, <4>1
    <3> QED BY <1>0, <3>1, <3>2, <3>3
  <2>8. CASE Submit(t)
    <3>0. pc[t] = "submit" BY <2>8 DEF Submit
    <3>1. CASE call[t].op = "force"
      <4>1. pc' = [pc EXCEPT ![t] = "next"] BY <2>8, <3>1 DEF Submit
      <4> QED BY <1>0, <3>0, <3>1, <4>1
    <3>2. CASE call[t].op # "force"
      <4>1. pc' = [pc EXCEPT ![t] = "return"] BY <2>8, <3>2 DEF Submit
      <4> QED BY <1>0, <3>0, <3>2, <4>1
    <3> QED BY <1>0, <3>1, <3>2
  <2> QED BY <2>1, <2>2, <2>3, <2>4, <2>5, <2>6, <2>7, <2>8
<1> QED BY <1>1, <1>2

-----------------------------------------------------------------------------
\* A step leaves the other threads where they are.
LEMMA CalledMoves ==
  ASSUME Called, NEW t \in Threads, CalledIn(t)',
         \A u \in Threads : u # t => /\ pc'[u] = pc[u] /\ call'[u] = call[u] /\ id'[u] = id[u]
                                     /\ want'[u] = want[u] /\ rest'[u] = rest[u],
         call' = [u \in Threads |-> call'[u]], want' = [u \in Threads |-> want'[u]],
         rest' = [u \in Threads |-> rest'[u]]
  PROVE  Called'
<1>1. ASSUME NEW u \in Threads, u # t PROVE CalledIn(u)'
  <2>1. CalledIn(u) BY DEF Called
  <2>2. /\ pc'[u] = pc[u] /\ call'[u] = call[u] /\ id'[u] = id[u]
        /\ want'[u] = want[u] /\ rest'[u] = rest[u]
    BY <1>1
  <2> QED BY <2>1, <2>2 DEF CalledIn
<1> QED BY <1>1 DEF Called

LEMMA AllAlarms ==
  ASSUME NEW q, q = [i \in 1 .. AlarmCount |-> i - 1]
  PROVE  q \in Seq(Alarms) /\ Len(q) = AlarmCount /\ \A a \in Alarms : \E i \in 1 .. Len(q) : q[i] = a
<1>1. AlarmCount \in Nat BY AlarmAssumption
<1>2. \A i \in 1 .. AlarmCount : i - 1 \in Alarms BY <1>1 DEF Alarms
<1>3. q \in Seq(Alarms) /\ Len(q) = AlarmCount BY <1>1, <1>2
<1>4. \A a \in Alarms : a + 1 \in 1 .. AlarmCount /\ q[a + 1] = a BY <1>1 DEF Alarms
<1> QED BY <1>3, <1>4

LEMMA CalledInv == ASSUME IInv, Called, [Next]_vars PROVE Called'
<1>0. /\ pc \in [Threads -> Labels] /\ call = [t \in Threads |-> call[t]] /\ id = [t \in Threads |-> id[t]]
      /\ want = [t \in Threads |-> want[t]] /\ rest = [t \in Threads |-> rest[t]]
  BY DEF IInv, Owned, Called
<1>1. CASE UNCHANGED vars BY <1>1 DEF vars, place, Called, CalledIn
<1>2. CASE WorkStarts \/ Deliver \/ WorkEnds BY <1>2 DEF WorkStarts, Deliver, WorkEnds, place, Called, CalledIn
<1>3. ASSUME NEW a \in Alarms, Expire(a) PROVE Called' BY <1>3 DEF Expire, place, Called, CalledIn
<1>4. ASSUME NEW t \in Threads, Call(t) PROVE Called'
  <2>1. PICK c \in CallsOf[t] :
          /\ call' = [call EXCEPT ![t] = c]
          /\ pc' = [pc EXCEPT ![t] = CASE c.op = "set" -> "check" [] c.op = "force" -> "next"
                      [] c.op = "clearMemory" -> "load" [] c.op = "hysteresis" -> "configure" [] OTHER -> "flush"]
          /\ id' = IF c.op = "set" THEN [id EXCEPT ![t] = c.id] ELSE id
          /\ want' = IF c.op = "set" THEN [want EXCEPT ![t] = c.state] ELSE want
          /\ rest' = IF c.op = "force" THEN [rest EXCEPT ![t] = [i \in 1 .. AlarmCount |-> i - 1]] ELSE rest
          /\ pc[t] = "idle"
    BY <1>4, CallEnters
  <2>2. \A u \in Threads : u # t => /\ pc'[u] = pc[u] /\ call'[u] = call[u] /\ id'[u] = id[u]
                                    /\ want'[u] = want[u] /\ rest'[u] = rest[u]
    BY <1>0, <2>1
  <2>3. /\ call' = [u \in Threads |-> call'[u]] /\ want' = [u \in Threads |-> want'[u]]
        /\ rest' = [u \in Threads |-> rest'[u]]
    BY <1>0, <2>1
  <2>4. call'[t] = c /\ c # None BY <1>0, <2>1, CallsAre
  <2>5. /\ pc'[t] \in {"check", "next", "load", "configure", "flush"}
        /\ pc'[t] = "check" <=> c.op = "set"
        /\ pc'[t] = "next" <=> c.op = "force"
        /\ pc'[t] = "load" => c.op = "clearMemory"
    BY <1>0, <2>1
  <2>6. c.op = "set" => id'[t] = c.id /\ (want'[t] <=> c.state) BY <1>0, <2>1
  <2>7. rest'[t] \in Seq(Alarms) /\ (rest'[t] # <<>> => c.op = "force")
    <3>1. CASE c.op = "force"
      <4>1. rest'[t] = [i \in 1 .. AlarmCount |-> i - 1] BY <1>0, <2>1, <3>1
      <4> QED BY <3>1, <4>1, AllAlarms
    <3>2. CASE c.op # "force" BY <2>1, <3>2 DEF Called, CalledIn
    <3> QED BY <3>1, <3>2
  <2>8. CalledIn(t)' BY <2>4, <2>5, <2>6, <2>7 DEF CalledIn, Setting, Changing
  <2> QED BY <2>2, <2>3, <2>8, CalledMoves
<1>5. ASSUME NEW t \in Threads, Return(t) PROVE Called'
  <2>1. /\ pc' = [pc EXCEPT ![t] = "idle"] /\ call' = [call EXCEPT ![t] = None] /\ rest' = rest
        /\ id' = [id EXCEPT ![t] = 0] /\ want' = [want EXCEPT ![t] = FALSE]
        /\ pc[t] = "return" \/ (pc[t] = "next" /\ rest[t] = <<>>)
    BY <1>5 DEF Return, Goto
  <2>2. \A u \in Threads : u # t => /\ pc'[u] = pc[u] /\ call'[u] = call[u] /\ id'[u] = id[u]
                                    /\ want'[u] = want[u] /\ rest'[u] = rest[u]
    BY <1>0, <2>1
  <2>3. call' = [u \in Threads |-> call'[u]] /\ want' = [u \in Threads |-> want'[u]] /\ rest' = [u \in Threads |-> rest'[u]]
    BY <1>0, <2>1
  <2>4. pc'[t] = "idle" /\ call'[t] = None BY <1>0, <2>1
  <2>5. CalledIn(t) BY DEF Called
  <2>6. rest[t] = <<>> BY <2>1, <2>5 DEF CalledIn
  <2>7. CalledIn(t)' BY <2>1, <2>4, <2>5, <2>6 DEF CalledIn, Setting, Changing
  <2> QED BY <2>2, <2>3, <2>7, CalledMoves
<1>6. ASSUME NEW t \in Threads, Inner(t) PROVE Called'
  <2>1. /\ UNCHANGED <<call, id, want, rest>> /\ pc[t] # "idle"
        /\ pc' = [pc EXCEPT ![t] = pc'[t]] /\ Goes(t, pc'[t])
    BY <1>6, InnerGoes
  <2>2. \A u \in Threads : u # t => pc'[u] = pc[u] BY <1>0, <2>1
  <2>3. CalledIn(t) BY DEF Called
  <2>4. CalledIn(t)' BY <2>1, <2>3 DEF CalledIn, Goes, Setting, Changing
  <2> QED BY <1>0, <2>1, <2>2, <2>4, CalledMoves
<1>7. ASSUME NEW t \in Threads, NextAlarm(t) PROVE Called'
  <2>1. /\ pc[t] = "next" /\ rest[t] # <<>> /\ pc' = [pc EXCEPT ![t] = "load"] /\ call' = call
        /\ id' = [id EXCEPT ![t] = Head(rest[t])] /\ want' = [want EXCEPT ![t] = Head(rest[t]) \in call[t].mask]
        /\ rest' = [rest EXCEPT ![t] = Tail(rest[t])]
    BY <1>7 DEF NextAlarm, Goto
  <2>2. \A u \in Threads : u # t => /\ pc'[u] = pc[u] /\ call'[u] = call[u] /\ id'[u] = id[u]
                                    /\ want'[u] = want[u] /\ rest'[u] = rest[u]
    BY <1>0, <2>1
  <2>3. call' = [u \in Threads |-> call'[u]] /\ want' = [u \in Threads |-> want'[u]] /\ rest' = [u \in Threads |-> rest'[u]]
    BY <1>0, <2>1
  <2>4. CalledIn(t) BY DEF Called
  <2>5. Head(rest[t]) \in Alarms /\ Tail(rest[t]) \in Seq(Alarms) BY <2>1, <2>4 DEF CalledIn
  <2>6. /\ pc'[t] = "load" /\ id'[t] = Head(rest[t]) /\ (want'[t] <=> Head(rest[t]) \in call[t].mask)
        /\ rest'[t] = Tail(rest[t])
    BY <1>0, <2>1
  <2>7. CalledIn(t)' BY <2>1, <2>4, <2>5, <2>6 DEF CalledIn, Setting, Changing
  <2> QED BY <2>2, <2>3, <2>7, CalledMoves
<1> QED BY <1>1, <1>2, <1>3, <1>4, <1>5, <1>6, <1>7 DEF Next, Step, Inner

LEMMA PendingInv == ASSUME IInv, Called, Pending, [Next]_vars PROVE Pending'
<1>1. CASE UNCHANGED pending BY <1>1 DEF Pending
<1>2. ASSUME NEW t \in Threads, Unpend(t) PROVE Pending'
  <2>1. pending' = [pending EXCEPT ![id[t]].id = -1] BY <1>2 DEF Unpend
  <2>2. \A a \in Alarms : /\ pending'[a].id = (IF a = id[t] THEN -1 ELSE pending[a].id)
                          /\ pending'[a].state = pending[a].state
    BY <2>1 DEF Pending
  <2>3. \A a \in Alarms : pending'[a] = [id |-> IF a = id[t] THEN -1 ELSE pending[a].id, state |-> pending[a].state]
    <3>1. \A x, y : [[id |-> x, state |-> y] EXCEPT !.id = -1] = [id |-> -1, state |-> y] OBVIOUS
    <3>2. ASSUME NEW a \in Alarms
          PROVE  pending'[a] = IF a = id[t] THEN [[id |-> pending[a].id, state |-> pending[a].state] EXCEPT !.id = -1]
                                            ELSE [id |-> pending[a].id, state |-> pending[a].state]
      <4>1. pending[a] = [id |-> pending[a].id, state |-> pending[a].state] BY DEF Pending
      <4>2. pending'[a] = IF a = id[t] THEN [pending[a] EXCEPT !.id = -1] ELSE pending[a] BY <2>1 DEF Pending
      <4> QED BY <4>1, <4>2
    <3> QED BY <3>1, <3>2
  <2>4. pending' = [a \in Alarms |-> pending'[a]] BY <2>1 DEF Pending
  <2> QED BY <2>2, <2>3, <2>4 DEF Pending
<1>3. ASSUME NEW t \in Threads, Pend(t) PROVE Pending'
  <2>1. pending' = [pending EXCEPT ![id[t]] = [id |-> id[t], state |-> want[t]]] BY <1>3 DEF Pend
  <2>2. \A a \in Alarms : pending'[a].id = (IF a = id[t] THEN a ELSE pending[a].id) BY <2>1 DEF Pending
  <2>3. pending' = [a \in Alarms |-> [id |-> pending'[a].id, state |-> pending'[a].state]]
    BY <2>1 DEF Pending
  <2> QED BY <2>2, <2>3 DEF Pending
<1>4. UNCHANGED pending \/ \E t \in Threads : Unpend(t) \/ Pend(t)
  BY DEF Next, Step, Call, Return, Check, Stop, Choose, Arm, Load, Store, LoadMemory, StoreMemory, Put, Submit,
         NextAlarm, Keep, Configure, Flush, Expire, WorkStarts, Deliver, WorkEnds, vars, timers
<1> QED BY <1>1, <1>2, <1>3, <1>4

LEMMA SoleInv == ASSUME IInv, Called, Sole, [Next]_vars PROVE Sole'
<1>0. call = [t \in Threads |-> call[t]] BY DEF Called
<1>1. ASSUME mixed \subseteq mixed', UNCHANGED call PROVE Sole' BY <1>1 DEF Sole, Touches
<1>2. CASE UNCHANGED vars BY <1>1, <1>2 DEF vars, history, place
<1>3. CASE WorkStarts \/ Deliver \/ WorkEnds BY <1>1, <1>3 DEF WorkStarts, Deliver, WorkEnds, history, place
<1>4. ASSUME NEW a \in Alarms, Expire(a) PROVE Sole' BY <1>1, <1>4 DEF Expire, place
<1>5. ASSUME NEW t \in Threads, Inner(t) PROVE Sole' BY <1>1, <1>5, InnerGoes
<1>6. ASSUME NEW t \in Threads, NextAlarm(t) PROVE Sole' BY <1>1, <1>6 DEF NextAlarm, history
<1>7. ASSUME NEW t \in Threads, Return(t) PROVE Sole'
  <2>1. call' = [call EXCEPT ![t] = None] /\ UNCHANGED mixed BY <1>7 DEF Return, history
  <2>2. \A u \in Threads : Touches(call[u])' = IF u = t THEN {} ELSE Touches(call[u])
    BY <1>0, <2>1 DEF Touches
  <2> QED BY <2>1, <2>2 DEF Sole
<1>8. ASSUME NEW t \in Threads, Call(t) PROVE Sole'
  <2>1. PICK c \in CallsOf[t] :
          /\ call' = [call EXCEPT ![t] = c]
          /\ mixed' = mixed \cup (Touches(c) \cap UNION {Touches(call[u]) : u \in Threads \ {t}})
    BY <1>8, CallEnters
  <2>2. \A u \in Threads : Touches(call[u])' = IF u = t THEN Touches(c) ELSE Touches(call[u])
    BY <1>0, <2>1 DEF Touches
  <2> QED BY <2>1, <2>2 DEF Sole
<1> QED BY <1>2, <1>3, <1>4, <1>5, <1>6, <1>7, <1>8 DEF Next, Step, Inner

\* Whoever is open on an alarm touches it.
LEMMA OpenTouches ==
  ASSUME Called, NEW t \in Threads, NEW a \in Alarms, Open(t, a) PROVE a \in Touches(call[t])
<1>0. CalledIn(t) BY DEF Called
<1>1. CASE Left(t, a)
  <2>1. rest[t] # <<>> BY <1>0, <1>1 DEF Left, CalledIn
  <2>2. call[t] \in CallsOf[t] /\ call[t].op = "force" BY <1>0, <2>1 DEF CalledIn
  <2> QED BY <2>2, CallsAre
<1>2. CASE At(t, a)
  <2>1. call[t] \in CallsOf[t] /\ call[t].op \in {"set", "force"} /\ (call[t].op = "set" => call[t].id = a)
    BY <1>0, <1>2 DEF CalledIn, At, Setting, Changing
  <2> QED BY <2>1, CallsAre
<1> QED BY <1>1, <1>2 DEF Open

\* The place of a thread is the one it was in.
Stays(u) ==
  pc'[u] = pc[u] /\ call'[u] = call[u] /\ id'[u] = id[u] /\ want'[u] = want[u] /\ rest'[u] = rest[u]

\* A step that leaves a alone.
LEMMA PursuedFrame ==
  ASSUME NEW a, Pursued(a),
         asked'[a] <=> asked[a], a \in active' <=> a \in active, a \in timer' <=> a \in timer,
         pending'[a] = pending[a], a \in stale => a \in stale',
         \A u \in Threads :
           \/ Stays(u)
           \/ ~Open(u, a) /\ ~Open(u, a)'
           \/ ~At(u, a) /\ ~At(u, a)' /\ call'[u] = call[u] /\ rest'[u] = rest[u]
  PROVE  Pursued(a)'
<1>1. ASSUME NEW u \in Threads PROVE Pursues(u, a)' /\ (Open(u, a)' <=> Open(u, a))
  <2>1. CASE Stays(u)
    <3>1. Pursues(u, a) BY DEF Pursued
    <3>2. /\ pc'[u] = pc[u] /\ call'[u] = call[u] /\ id'[u] = id[u]
          /\ want'[u] = want[u] /\ rest'[u] = rest[u]
      BY <2>1 DEF Stays
    <3>3. (At(u, a)' <=> At(u, a)) /\ (Left(u, a)' <=> Left(u, a)) BY <3>2 DEF At, Left
    <3> QED BY <3>1, <3>2, <3>3 DEF Pursues, Open
  <2>2. CASE ~Open(u, a) /\ ~Open(u, a)' BY <2>2 DEF Pursues, Open
  <2>3. CASE ~At(u, a) /\ ~At(u, a)' /\ call'[u] = call[u] /\ rest'[u] = rest[u]
    <3>1. Pursues(u, a) BY DEF Pursued
    <3>2. Left(u, a)' <=> Left(u, a) BY <2>3 DEF Left
    <3> QED BY <2>3, <3>1, <3>2 DEF Pursues, Open
  <2> QED BY <2>1, <2>2, <2>3
<1>2. Settled(a) => Settled(a)' BY DEF Settled
<1> QED BY <1>1, <1>2 DEF Pursued

\* A step of the one thread that touches a.
LEMMA PursuedSole ==
  ASSUME NEW a, NEW t \in Threads, Pursues(t, a)', \A u \in Threads : u # t => ~Open(u, a)',
         ~Open(t, a)' /\ a \notin stale' => Settled(a)'
  PROVE  Pursued(a)'
<1>1. \A u \in Threads : u # t => Pursues(u, a)' BY DEF Pursues, Open
<1> QED BY <1>1 DEF Pursued

LEMMA PursuedCall ==
  ASSUME IInv, Called, Sole, NEW a \in Alarms \ mixed', Pursued(a), NEW t \in Threads, Call(t)
  PROVE  Pursued(a)'
<1>0. /\ pc \in [Threads -> Labels] /\ call = [u \in Threads |-> call[u]] /\ id = [u \in Threads |-> id[u]]
      /\ want = [u \in Threads |-> want[u]] /\ rest = [u \in Threads |-> rest[u]] /\ CalledIn(t)
  BY DEF IInv, Owned, Called
<1>1. PICK c \in CallsOf[t] :
        /\ call' = [call EXCEPT ![t] = c]
        /\ pc' = [pc EXCEPT ![t] = CASE c.op = "set" -> "check" [] c.op = "force" -> "next"
                    [] c.op = "clearMemory" -> "load" [] c.op = "hysteresis" -> "configure" [] OTHER -> "flush"]
        /\ mixed' = mixed \cup (Touches(c) \cap UNION {Touches(call[u]) : u \in Threads \ {t}})
        /\ asked' = [b \in Alarms |->
             CASE b \notin Touches(c) -> asked[b]
               [] b \in Touches(c) /\ c.op = "set" -> c.state
               [] OTHER -> b \in c.mask]
        /\ id' = IF c.op = "set" THEN [id EXCEPT ![t] = c.id] ELSE id
        /\ want' = IF c.op = "set" THEN [want EXCEPT ![t] = c.state] ELSE want
        /\ rest' = IF c.op = "force" THEN [rest EXCEPT ![t] = [i \in 1 .. AlarmCount |-> i - 1]] ELSE rest
        /\ pc[t] = "idle" /\ UNCHANGED <<active, timer, pending, stale>>
  BY CallEnters DEF masks, timers
<1>2. \A u \in Threads : u # t => Stays(u) BY <1>0, <1>1 DEF Stays
<1>3. /\ call'[t] = c
      /\ pc'[t] = CASE c.op = "set" -> "check" [] c.op = "force" -> "next"
                    [] c.op = "clearMemory" -> "load" [] c.op = "hysteresis" -> "configure" [] OTHER -> "flush"
  BY <1>0, <1>1
<1>4. rest[t] = <<>> BY <1>0, <1>1 DEF CalledIn
<1>5. c.op \in {"set", "force", "clearMemory", "hysteresis", "flush"} BY CallsAre
<1>6. CASE a \notin Touches(c)
  <2>1. ~Open(t, a) BY <1>1, <1>4 DEF Open, At, Left, Setting
  <2>2. c.op # "force" /\ (c.op = "set" => c.id # a) BY <1>6, CallsAre
  <2>3. ~Left(t, a)' BY <1>1, <1>4, <2>2 DEF Left
  <2>4. ~At(t, a)'
    <3>1. CASE c.op = "set"
      <4>1. id'[t] = c.id BY <1>0, <1>1, <3>1
      <4> QED BY <2>2, <3>1, <4>1 DEF At
    <3>2. CASE c.op # "set"
      <4>1. pc'[t] \in {"load", "configure", "flush"} /\ (pc'[t] = "load" => c.op = "clearMemory")
        BY <1>3, <1>5, <2>2, <3>2
      <4> QED BY <1>3, <4>1 DEF At, Setting
    <3> QED BY <3>1, <3>2
  <2>5. asked'[a] = asked[a] BY <1>1, <1>6
  <2>6. ~Open(t, a)' BY <2>3, <2>4 DEF Open
  <2> QED BY <1>1, <1>2, <2>1, <2>5, <2>6, PursuedFrame
<1>7. CASE a \in Touches(c)
  <2>1. \A u \in Threads : u # t => a \notin Touches(call[u]) BY <1>1, <1>7
  <2>2. \A u \in Threads : u # t => ~Open(u, a)
    BY <2>1, OpenTouches
  <2>3. \A u \in Threads : u # t => ~Open(u, a)'
    BY <1>2, <2>2 DEF Open, At, Left, Stays
  <2>4. c.op \in {"set", "force"} BY <1>7, CallsAre
  <2>5. CASE c.op = "set"
    <3>1. c.id = a /\ pc'[t] = "check" /\ asked'[a] = c.state BY <1>1, <1>3, <1>7, <2>5, CallsAre
    <3>2. id'[t] = a /\ (want'[t] <=> c.state) BY <1>0, <1>1, <2>5, <3>1
    <3>3. ~Left(t, a)' BY <1>1, <1>4, <2>5 DEF Left
    <3>4. Pursues(t, a)' /\ Open(t, a)' BY <3>1, <3>2, <3>3 DEF Pursues, Open, At, Setting
    <3> QED BY <2>3, <3>4, PursuedSole
  <2>6. CASE c.op = "force"
    <3>1. pc'[t] = "next" /\ asked'[a] = (a \in c.mask) BY <1>1, <1>3, <1>7, <2>6
    <3>2. rest'[t] = [i \in 1 .. AlarmCount |-> i - 1] BY <1>0, <1>1, <2>6
    <3>3. Left(t, a)' BY <3>2, AllAlarms DEF Left
    <3>4. ~At(t, a)' BY <3>1 DEF At, Setting
    <3>5. Pursues(t, a)' /\ Open(t, a)' BY <1>3, <3>1, <3>3, <3>4 DEF Pursues, Open
    <3> QED BY <2>3, <3>5, PursuedSole
  <2> QED BY <2>4, <2>5, <2>6
<1> QED BY <1>6, <1>7

\* The next alarm of a force is one that is left.
LEMMA PursuedNext ==
  ASSUME IInv, Called, NEW a \in Alarms, Pursued(a), NEW t \in Threads, NextAlarm(t)
  PROVE  Pursued(a)'
<1>0. /\ pc \in [Threads -> Labels] /\ id = [u \in Threads |-> id[u]]
      /\ want = [u \in Threads |-> want[u]] /\ rest = [u \in Threads |-> rest[u]] /\ CalledIn(t)
  BY DEF IInv, Owned, Called
<1>1. /\ pc[t] = "next" /\ rest[t] # <<>> /\ pc' = [pc EXCEPT ![t] = "load"]
      /\ id' = [id EXCEPT ![t] = Head(rest[t])] /\ want' = [want EXCEPT ![t] = Head(rest[t]) \in call[t].mask]
      /\ rest' = [rest EXCEPT ![t] = Tail(rest[t])]
      /\ UNCHANGED <<call, active, timer, pending, asked, stale>>
  BY DEF NextAlarm, Goto, masks, timers, history
<1>2. \A u \in Threads : u # t => Stays(u) BY <1>0, <1>1 DEF Stays
<1>3. /\ pc'[t] = "load" /\ id'[t] = Head(rest[t]) /\ (want'[t] <=> Head(rest[t]) \in call[t].mask)
      /\ rest'[t] = Tail(rest[t])
  BY <1>0, <1>1
<1>4. rest[t] \in Seq(Alarms) /\ call[t].op = "force" BY <1>0, <1>1 DEF CalledIn
<1>5. /\ Left(t, a)' => Left(t, a)
      /\ Left(t, a) => Left(t, a)' \/ a = Head(rest[t])
      /\ Left(t, Head(rest[t]))
  <2>1. /\ Len(rest[t]) \in Nat /\ Len(rest[t]) >= 1 /\ Head(rest[t]) = rest[t][1]
        /\ Len(Tail(rest[t])) = Len(rest[t]) - 1
        /\ \A i \in 1 .. Len(Tail(rest[t])) : Tail(rest[t])[i] = rest[t][i + 1]
    BY <1>1, <1>4
  <2>2. ASSUME Left(t, a)' PROVE Left(t, a)
    <3>1. PICK i \in 1 .. Len(Tail(rest[t])) : Tail(rest[t])[i] = a BY <1>3, <2>2 DEF Left
    <3>2. i + 1 \in 1 .. Len(rest[t]) /\ rest[t][i + 1] = a BY <2>1, <3>1
    <3> QED BY <3>2 DEF Left
  <2>3. ASSUME Left(t, a), a # Head(rest[t]) PROVE Left(t, a)'
    <3>1. PICK i \in 1 .. Len(rest[t]) : rest[t][i] = a BY <2>3 DEF Left
    <3>2. i - 1 \in 1 .. Len(Tail(rest[t])) /\ Tail(rest[t])[i - 1] = rest[t][i - 1 + 1] BY <2>1, <2>3, <3>1
    <3>3. Tail(rest[t])[i - 1] = a BY <3>1, <3>2
    <3> QED BY <1>3, <3>2, <3>3 DEF Left
  <2>4. 1 \in 1 .. Len(rest[t]) BY <2>1
  <2> QED BY <2>1, <2>2, <2>3, <2>4 DEF Left
<1>6. \A u \in Threads : u # t => (At(u, a)' <=> At(u, a)) /\ (Left(u, a)' <=> Left(u, a))
  BY <1>2 DEF Stays, At, Left
<1>7. At(t, a)' <=> a = Head(rest[t]) BY <1>1, <1>3, <1>4 DEF At, Setting
<1>8. Pursues(t, a) BY DEF Pursued
<1>9. Pursues(t, a)'
  <2>1. Left(t, a)' => (asked'[a] <=> a \in call'[t].mask) BY <1>1, <1>5, <1>8 DEF Pursues
  <2>2. At(t, a)' => (asked'[a] <=> want'[t])
    <3> SUFFICES ASSUME a = Head(rest[t]) PROVE asked'[a] <=> want'[t] BY <1>7
    <3>1. asked[a] <=> a \in call[t].mask BY <1>5, <1>8 DEF Pursues
    <3> QED BY <1>1, <1>3, <3>1
  <2> QED BY <1>3, <2>1, <2>2 DEF Pursues
<1>10. \A u \in Threads : u # t => Pursues(u, a)'
  <2> SUFFICES ASSUME NEW u \in Threads, u # t PROVE Pursues(u, a)' OBVIOUS
  <2>1. Pursues(u, a) /\ Stays(u) BY <1>2 DEF Pursued
  <2> QED BY <1>1, <1>6, <2>1 DEF Pursues, Stays
<1>11. ~At(t, a) BY <1>1 DEF At, Setting
<1>12. (\A u \in Threads : ~Open(u, a)') => \A u \in Threads : ~Open(u, a)
  BY <1>5, <1>6, <1>7, <1>11 DEF Open
<1>13. Settled(a) => Settled(a)' BY <1>1 DEF Settled
<1> QED BY <1>1, <1>9, <1>10, <1>12, <1>13 DEF Pursued

\* What is pending, asked for and wanted are Booleans.
Truths ==
  /\ \A a \in Alarms : pending[a].state \in BOOLEAN
  /\ \A a \in Alarms : asked[a] \in BOOLEAN
  /\ \A t \in Threads : want[t] \in BOOLEAN

\* The steps of a call that is not at a.
LEMMA PursuedElsewhere ==
  ASSUME IInv, ~damaged, Called, Pending, NEW a \in Alarms, Pursued(a), NEW t \in Threads, Inner(t), ~At(t, a)
  PROVE  Pursued(a)'
<1> USE DEF Onward, Goto, Section, masks, timers, history
<1>0. /\ UNCHANGED <<call, id, want, rest, asked>> /\ pc' = [pc EXCEPT ![t] = pc'[t]] /\ Goes(t, pc'[t])
  BY InnerGoes
<1>1. pc \in [Threads -> Labels] BY DEF IInv, Owned
<1>2. \A u \in Threads : u # t => Stays(u) BY <1>0, <1>1 DEF Stays
<1>3. ~At(t, a)' BY <1>0 DEF At, Goes, Setting
<1>4. /\ a \in active' <=> a \in active
      /\ a \in timer' <=> a \in timer
      /\ pending'[a] = pending[a]
      /\ a \in stale => a \in stale'
  <2>1. CASE Stop(t) \/ Unpend(t) \/ Pend(t) \/ Arm(t)
    <3>1. id[t] # a BY <2>1 DEF Stop, Unpend, Pend, Arm, At, Setting
    <3>2. CASE Stop(t) BY <3>1, <3>2 DEF Stop
    <3>3. CASE Unpend(t) BY <3>1, <3>3 DEF Unpend, Pending
    <3>4. CASE Pend(t) BY <3>1, <3>4 DEF Pend, Pending
    <3>5. CASE Arm(t) BY <3>1, <3>5 DEF Arm
    <3> QED BY <2>1, <3>2, <3>3, <3>4, <3>5
  <2>2. CASE Store(t)
    <3>1. /\ pc[t] = "store" /\ active' = With(reg[t], id[t], want[t])
          /\ stale' = With(stale, id[t], id[t] \in timer) /\ UNCHANGED <<timer, pending>>
      BY <2>2 DEF Store
    <3>2. reg[t] = active BY <3>1 DEF IInv, Loaded
    <3>3. id[t] # a BY <3>1 DEF At
    <3> QED BY <3>1, <3>2, <3>3 DEF With
  <2>3. CASE \/ Check(t) \/ Choose(t) \/ Load(t) \/ LoadMemory(t) \/ StoreMemory(t) \/ Put(t) \/ Submit(t)
             \/ Keep(t) \/ Configure(t) \/ Flush(t)
    BY <2>3 DEF Check, Choose, Load, LoadMemory, StoreMemory, Put, Submit, Keep, Configure, Flush
  <2> QED BY <2>1, <2>2, <2>3 DEF Inner
<1> QED BY <1>0, <1>2, <1>3, <1>4, PursuedFrame

\* A step of the one call on a.
LEMMA PursuedAt ==
  ASSUME IInv, ~damaged, Called, Pending, Truths, Sole, NEW a \in Alarms \ mixed, Pursued(a),
         NEW t \in Threads, Inner(t), At(t, a)
  PROVE  Pursued(a)'
<1> USE DEF Onward, Goto, Section, masks, timers, history
<1>0. UNCHANGED <<call, id, want, rest, asked>> /\ pc' = [pc EXCEPT ![t] = pc'[t]] BY InnerGoes
<1>1. pc \in [Threads -> Labels] BY DEF IInv, Owned
<1>2. \A u \in Threads : u # t => Stays(u) BY <1>0, <1>1 DEF Stays
<1>3. \A u \in Threads : u # t => ~Open(u, a)
  <2>1. Open(t, a) BY DEF Open
  <2> QED BY <2>1, OpenTouches DEF Sole
<1>4. \A u \in Threads : u # t => ~Open(u, a)' BY <1>2, <1>3 DEF Open, At, Left, Stays
<1>5. Pursues(t, a) BY DEF Pursued
<1>6. id[t] = a /\ id'[t] = a BY <1>0 DEF At
<1>7. Left(t, a)' => (asked'[a] <=> a \in call'[t].mask) BY <1>0, <1>5 DEF Pursues, Left
<1>8. /\ asked'[a] <=> want'[t]
      /\ pc[t] \in {"stop", "unpend"} => (a \in active <=> want[t])
      /\ pc[t] = "unpend" => a \notin timer
      /\ pc[t] \in {"choose", "pend", "arm"} => ~(a \in active <=> want[t])
      /\ pc[t] = "arm" => pending[a].id = a /\ (pending[a].state <=> want[t])
  BY <1>0, <1>5 DEF Pursues
<1>9. SUFFICES /\ pc'[t] \in {"stop", "unpend"} => (a \in active' <=> want[t])
               /\ pc'[t] = "unpend" => a \notin timer'
               /\ pc'[t] \in {"choose", "pend", "arm"} => ~(a \in active' <=> want[t])
               /\ pc'[t] = "arm" => pending'[a].id = a /\ (pending'[a].state <=> want[t])
               /\ pc'[t] \notin Setting \cup {"load", "store"} /\ a \notin stale' => Settled(a)'
  <2>0. pc'[t] = "load" => call'[t].op # "clearMemory"
    <3>1. Goes(t, pc'[t]) /\ CalledIn(t) BY InnerGoes DEF Called
    <3> QED BY <1>0, <3>1 DEF Goes, CalledIn, Setting
  <2>1. At(t, a)' <=> pc'[t] \in Setting \cup {"load", "store"} BY <1>6, <2>0 DEF At
  <2>2. Pursues(t, a)' BY <1>0, <1>7, <1>8, <1>9 DEF Pursues
  <2> QED BY <1>4, <1>9, <2>1, <2>2, PursuedSole DEF Open
<1>10. CASE Check(t)
  <2>1. /\ pc[t] = "check" /\ UNCHANGED <<active, timer, pending>>
        /\ pc' = [pc EXCEPT ![t] = IF (id[t] \in active) = want[t] THEN "stop" ELSE "choose"]
    BY <1>10 DEF Check
  <2>2. CASE (a \in active) = want[t]
    <3>1. pc'[t] = "stop" BY <1>1, <1>6, <2>1, <2>2
    <3> QED BY <2>1, <2>2, <3>1 DEF Setting
  <2>3. CASE (a \in active) # want[t]
    <3>1. pc'[t] = "choose" BY <1>1, <1>6, <2>1, <2>3
    <3>2. want[t] \in BOOLEAN BY Zenon DEF Truths
    <3>3. ~(a \in active <=> want[t]) BY <2>3, <3>2
    <3> QED BY <2>1, <3>1, <3>3 DEF Setting
  <2> QED BY <2>2, <2>3
<1>11. CASE Stop(t)
  <2>1. /\ pc[t] = "stop" /\ UNCHANGED <<active, pending>> /\ timer' = timer \ {a}
        /\ pc' = [pc EXCEPT ![t] = "unpend"]
    BY <1>6, <1>11 DEF Stop
  <2>2. pc'[t] = "unpend" /\ a \notin timer' BY <1>1, <2>1
  <2> QED BY <1>8, <2>1, <2>2 DEF Setting
<1>12. CASE Unpend(t)
  <2>1. /\ pc[t] = "unpend" /\ UNCHANGED <<active, timer>> /\ pc' = [pc EXCEPT ![t] = "return"]
    BY <1>12 DEF Unpend
  <2>2. pc'[t] = "return" /\ a \notin timer' BY <1>1, <1>8, <2>1
  <2>3. asked'[a] <=> a \in active' BY <1>0, <1>8, <2>1
  <2> QED BY <2>2, <2>3 DEF Settled
<1>13. CASE Choose(t)
  <2>1. PICK l \in {"pend", "load"} : pc' = [pc EXCEPT ![t] = l] BY <1>13 DEF Choose
  <2>2. pc[t] = "choose" /\ UNCHANGED <<active, timer, pending>> BY <1>13 DEF Choose
  <2>3. pc'[t] \in {"pend", "load"} BY <1>1, <2>1
  <2> QED BY <1>8, <2>2, <2>3 DEF Setting
<1>14. CASE Pend(t)
  <2>1. /\ pc[t] = "pend" /\ UNCHANGED <<active, timer>> /\ pc' = [pc EXCEPT ![t] = "arm"]
        /\ pending' = [pending EXCEPT ![a] = [id |-> a, state |-> want[t]]]
    BY <1>6, <1>14 DEF Pend
  <2>2. pc'[t] = "arm" BY <1>1, <2>1
  <2>3. pending'[a] = [id |-> a, state |-> want[t]] BY <2>1 DEF Pending
  <2> QED BY <1>8, <2>1, <2>2, <2>3 DEF Setting
<1>15. CASE Arm(t)
  <2>1. /\ pc[t] = "arm" /\ UNCHANGED <<active, pending>> /\ timer' = timer \cup {a}
        /\ pc' = [pc EXCEPT ![t] = "return"]
    BY <1>6, <1>15 DEF Arm
  <2>2. pc'[t] = "return" /\ a \in timer' BY <1>1, <2>1
  <2>3. pending'[a].id = a /\ (pending'[a].state <=> asked'[a]) /\ ~(asked'[a] <=> a \in active')
    BY <1>0, <1>8, <2>1
  <2> QED BY <2>2, <2>3 DEF Settled
<1>16. CASE Load(t)
  <2>1. pc[t] = "load" BY <1>16 DEF Load
  <2>2. call[t].op # "clearMemory" BY <2>1 DEF At, Setting
  <2>3. pc' = [pc EXCEPT ![t] = "store"] BY <1>16, <2>2 DEF Load
  <2>4. pc'[t] = "store" BY <1>1, <2>3
  <2> QED BY <2>4 DEF Setting
<1>17. CASE Store(t)
  <2>1. /\ pc[t] = "store" /\ UNCHANGED <<timer, pending>>
        /\ active' = With(reg[t], a, want[t]) /\ stale' = With(stale, a, a \in timer)
        /\ \E l \in {"memload", "put"} : pc' = [pc EXCEPT ![t] = l]
    BY <1>6, <1>17 DEF Store
  <2>2. pc'[t] \in {"memload", "put"} BY <1>1, <2>1
  <2>3. a \in active' <=> want[t] BY <2>1 DEF With
  <2>4. a \notin stale' => a \notin timer' BY <2>1 DEF With
  <2>5. asked'[a] <=> a \in active' BY <1>0, <1>8, <2>3
  <2> QED BY <2>2, <2>4, <2>5 DEF Settled
<1> QED BY <1>10, <1>11, <1>12, <1>13, <1>14, <1>15, <1>16, <1>17
      DEF Inner, LoadMemory, StoreMemory, Put, Submit, Keep, Configure, Flush, At, Setting

\* A timer that expires in no call brings the alarm where it was asked to be.
LEMMA PursuedExpire ==
  ASSUME IInv, Called, Pending, NEW a \in Alarms \ mixed', Pursued(a), NEW b \in Alarms, Expire(b), ~damaged'
  PROVE  Pursued(a)'
<1>1. /\ b \in timer /\ timer' = timer \ {b} /\ pending[b].id # -1
      /\ UNCHANGED <<pending, pc, call, id, want, rest, asked, stale>>
  BY Zenon DEF Expire, place
<1>2. pending[b].id = b BY <1>1 DEF Pending
<1>3. active' = With(active, b, pending[b].state) BY <1>1, <1>2 DEF Expire
<1>4. \A u \in Threads : Stays(u) BY <1>1 DEF Stays
<1>5. CASE b # a
  <2>1. a \in active' <=> a \in active BY <1>3, <1>5 DEF With
  <2> QED BY <1>1, <1>4, <1>5, <2>1, PursuedFrame
<1>6. CASE b = a
  <2>1. \A u \in Threads : a \notin Touches(call[u]) BY <1>1, <1>6 DEF Expire
  <2>2. \A u \in Threads : ~Open(u, a) BY <2>1, OpenTouches
  <2>3. \A u \in Threads : ~Open(u, a)' BY <1>1, <2>2 DEF Open, At, Left
  <2>4. \A u \in Threads : Pursues(u, a)' BY <2>3 DEF Pursues, Open
  <2>5. a \notin stale' => Settled(a) BY <1>1, <2>2 DEF Pursued
  <2>6. a \in active' <=> pending[a].state BY <1>3, <1>6 DEF With
  <2>7. a \notin stale' => Settled(a)' BY <1>1, <1>6, <2>5, <2>6 DEF Settled
  <2> QED BY <2>4, <2>7 DEF Pursued
<1> QED BY <1>5, <1>6

\* A call that returns has done what it was called for.
LEMMA PursuedReturn ==
  ASSUME IInv, Called, NEW a \in Alarms, Pursued(a), NEW t \in Threads, Return(t) PROVE Pursued(a)'
<1>0. /\ pc \in [Threads -> Labels] /\ call = [u \in Threads |-> call[u]] /\ id = [u \in Threads |-> id[u]]
      /\ want = [u \in Threads |-> want[u]] /\ rest = [u \in Threads |-> rest[u]] /\ CalledIn(t)
  BY DEF IInv, Owned, Called
<1>1. /\ pc[t] = "return" \/ (pc[t] = "next" /\ rest[t] = <<>>)
      /\ pc' = [pc EXCEPT ![t] = "idle"] /\ call' = [call EXCEPT ![t] = None]
      /\ id' = [id EXCEPT ![t] = 0] /\ want' = [want EXCEPT ![t] = FALSE]
      /\ UNCHANGED <<rest, active, timer, pending, asked, stale>>
  BY DEF Return, Goto, masks, timers, history
<1>2. \A u \in Threads : u # t => Stays(u) BY <1>0, <1>1 DEF Stays
<1>3. pc'[t] = "idle" BY <1>0, <1>1
<1>4. rest[t] = <<>> BY <1>0, <1>1 DEF CalledIn
<1>5. ~Open(t, a) /\ ~Open(t, a)' BY <1>1, <1>3, <1>4 DEF Open, At, Left, Setting
<1> QED BY <1>1, <1>2, <1>5, PursuedFrame

LEMMA DebounceStep ==
  ASSUME DebounceInv, Truths, [Next]_vars PROVE Debounce'
<1> USE DEF DebounceInv
<1>1. ASSUME NEW a \in Alarms \ mixed', ~damaged', mixed \subseteq mixed', damaged => damaged',
             UNCHANGED <<active, timer, pending, asked, stale, pc, call, id, want, rest>>
      PROVE  Pursued(a)'
  BY <1>1, PursuedFrame DEF Debounce, Stays
<1>2. CASE UNCHANGED vars BY <1>1, <1>2 DEF vars, masks, timers, history, place, Debounce
<1>3. CASE WorkStarts \/ Deliver \/ WorkEnds
  BY <1>1, <1>3 DEF WorkStarts, Deliver, WorkEnds, masks, timers, history, place, Debounce
<1>4. ASSUME NEW a \in Alarms, Expire(a) PROVE Debounce'
  <2>1. mixed \subseteq mixed' BY <1>4 DEF Expire
  <2>2. damaged => damaged' BY Zenon, <1>4 DEF Expire
  <2> QED BY <1>4, <2>1, <2>2, PursuedExpire DEF Debounce
<1>5. ASSUME NEW t \in Threads, Call(t) PROVE Debounce'
  <2>1. mixed \subseteq mixed' /\ damaged' = damaged BY <1>5 DEF Call
  <2> QED BY <1>5, <2>1, PursuedCall DEF Debounce
<1>6. ASSUME NEW t \in Threads, Return(t) \/ NextAlarm(t) PROVE Debounce'
  <2>1. UNCHANGED <<mixed, damaged>> BY <1>6 DEF Return, NextAlarm, history
  <2> QED BY <1>6, <2>1, PursuedReturn, PursuedNext DEF Debounce
<1>7. ASSUME NEW t \in Threads, Inner(t) PROVE Debounce'
  <2>1. UNCHANGED <<mixed, damaged>> BY <1>7, InnerGoes
  <2>2. SUFFICES ASSUME NEW a \in Alarms \ mixed, ~damaged PROVE Pursued(a)' BY <2>1 DEF Debounce
  <2>3. Pursued(a) BY <2>2 DEF Debounce
  <2>4. CASE At(t, a) BY <1>7, <2>2, <2>3, <2>4, PursuedAt
  <2>5. CASE ~At(t, a) BY <1>7, <2>2, <2>3, <2>5, PursuedElsewhere
  <2> QED BY <2>4, <2>5
<1> QED BY <1>2, <1>3, <1>4, <1>5, <1>6, <1>7 DEF Next, Step, Inner

LEMMA TruthsStep == ASSUME DebounceInv, Truths, [Next]_vars PROVE Truths'
<1>0. /\ want = [t \in Threads |-> want[t]]
      /\ (asked' = asked) \/ (\E t \in Threads : Call(t))
      /\ (want' = want) \/ (\E t \in Threads : Call(t) \/ Return(t) \/ NextAlarm(t))
  BY ZenonT(40) DEF DebounceInv, Called, Next, Step, Return, Check, Stop, Unpend, Choose, Pend, Arm, Load, Store, LoadMemory,
         StoreMemory, Put, Submit, NextAlarm, Keep, Configure, Flush, Expire, WorkStarts, Deliver, WorkEnds,
         vars, timers, history, place, Onward
<1>1. \A a \in Alarms : pending'[a].state \in BOOLEAN
  <2>1. ASSUME NEW t \in Threads, Unpend(t), NEW a \in Alarms PROVE pending'[a].state \in BOOLEAN
    <3>1. pending' = [pending EXCEPT ![id[t]].id = -1] BY <2>1 DEF Unpend
    <3>2. pending'[a] = pending[a] \/ pending'[a] = [pending[a] EXCEPT !.id = -1] BY <3>1 DEF DebounceInv, Pending
    <3>3. pending[a] = [id |-> pending[a].id, state |-> pending[a].state] BY DEF DebounceInv, Pending
    <3>4. pending'[a].state = pending[a].state BY <3>2, <3>3
    <3> QED BY <3>4, Zenon DEF Truths
  <2>2. ASSUME NEW t \in Threads, Pend(t), NEW a \in Alarms PROVE pending'[a].state \in BOOLEAN
    <3>1. pending' = [pending EXCEPT ![id[t]] = [id |-> id[t], state |-> want[t]]] BY <2>2 DEF Pend
    <3>2. pending'[a].state = pending[a].state \/ pending'[a].state = want[t] BY <3>1 DEF DebounceInv, Pending
    <3> QED BY <3>2, Zenon DEF Truths
  <2>3. UNCHANGED pending \/ \E t \in Threads : Unpend(t) \/ Pend(t)
    BY DEF Next, Step, Call, Return, Check, Stop, Choose, Arm, Load, Store, LoadMemory, StoreMemory, Put, Submit,
           NextAlarm, Keep, Configure, Flush, Expire, WorkStarts, Deliver, WorkEnds, vars, timers
  <2>4. CASE UNCHANGED pending BY <2>4, Zenon DEF Truths
  <2> QED BY <2>1, <2>2, <2>3, <2>4
<1>2. ASSUME NEW t \in Threads, Call(t)
      PROVE  (\A a \in Alarms : asked'[a] \in BOOLEAN) /\ \A u \in Threads : want'[u] \in BOOLEAN
  <2>1. PICK c \in CallsOf[t] :
          /\ asked' = [a \in Alarms |->
               CASE a \notin Touches(c) -> asked[a]
                 [] a \in Touches(c) /\ c.op = "set" -> c.state
                 [] OTHER -> a \in c.mask]
          /\ want' = IF c.op = "set" THEN [want EXCEPT ![t] = c.state] ELSE want
    BY <1>2, CallEnters
  <2>2. c.op = "set" => c.state \in BOOLEAN BY CallsAre
  <2>3. ASSUME NEW a \in Alarms PROVE asked'[a] \in BOOLEAN
    <3>1. CASE a \notin Touches(c)
      <4>1. asked'[a] = asked[a] BY <2>1, <3>1
      <4> QED BY <4>1, Zenon DEF Truths
    <3>2. CASE a \in Touches(c) /\ c.op = "set"
      <4>1. asked'[a] = c.state BY <2>1, <3>2
      <4> QED BY <2>2, <3>2, <4>1, Zenon
    <3>3. CASE a \in Touches(c) /\ c.op # "set"
      <4>1. asked'[a] = (a \in c.mask) BY <2>1, <3>3
      <4>2. CASE a \in c.mask BY <4>1, <4>2
      <4>3. CASE a \notin c.mask BY <4>1, <4>3
      <4> QED BY <4>2, <4>3
    <3> QED BY <3>1, <3>2, <3>3
  <2>4. ASSUME NEW u \in Threads PROVE want'[u] \in BOOLEAN
    <3>1. want'[u] = want[u] \/ (want'[u] = c.state /\ c.op = "set") BY <1>0, <2>1
    <3> QED BY <2>2, <3>1, Zenon DEF Truths
  <2> QED BY <2>3, <2>4
<1>3. ASSUME NEW t \in Threads, Return(t) \/ NextAlarm(t) PROVE \A u \in Threads : want'[u] \in BOOLEAN
  <2> SUFFICES ASSUME NEW u \in Threads PROVE want'[u] \in BOOLEAN OBVIOUS
  <2>1. want'[u] = want[u] \/ want'[u] = FALSE \/ want'[u] = (Head(rest[t]) \in call[t].mask)
    <3>1. CASE Return(t)
      <4>1. want' = [want EXCEPT ![t] = FALSE] BY <3>1 DEF Return
      <4>2. CASE u = t
        <5>1. want'[u] = FALSE BY <1>0, <4>1, <4>2
        <5> QED BY <5>1, Zenon
      <4>3. CASE u # t
        <5>1. want'[u] = want[u] BY <1>0, <4>1, <4>3
        <5> QED BY <5>1, Zenon
      <4> QED BY <4>2, <4>3
    <3>2. CASE NextAlarm(t)
      <4>1. want' = [want EXCEPT ![t] = (Head(rest[t]) \in call[t].mask)] BY <3>2 DEF NextAlarm
      <4>2. CASE u = t
        <5>1. want'[u] = (Head(rest[t]) \in call[t].mask) BY <1>0, <4>1, <4>2, Zenon
        <5> QED BY <5>1, Zenon
      <4>3. CASE u # t
        <5>1. want'[u] = want[u] BY <1>0, <4>1, <4>3, Zenon
        <5> QED BY <5>1, Zenon
      <4> QED BY <4>2, <4>3
    <3> QED BY <1>3, <3>1, <3>2
  <2>2. (Head(rest[t]) \in call[t].mask) \in BOOLEAN OBVIOUS
  <2>3. want[u] \in BOOLEAN /\ FALSE \in BOOLEAN BY Zenon DEF Truths
  <2> QED BY <2>1, <2>2, <2>3, Zenon
<1>4. \A a \in Alarms : asked'[a] \in BOOLEAN
  <2>1. CASE asked' = asked BY <2>1, Zenon DEF Truths
  <2> QED BY <1>0, <1>2, <2>1
<1>5. \A u \in Threads : want'[u] \in BOOLEAN
  <2>1. CASE want' = want BY <2>1, Zenon DEF Truths
  <2> QED BY <1>0, <1>2, <1>3, <2>1
<1> QED BY <1>1, <1>4, <1>5, Zenon DEF Truths

LEMMA DebounceInit == Init => DebounceInv /\ Truths
<1> SUFFICES ASSUME Init PROVE DebounceInv /\ Truths OBVIOUS
<1>1. IInv BY InitInv
<1>2. \A t \in Threads : pc[t] = "idle" /\ call[t] = None /\ rest[t] = <<>> BY DEF Init
<1>3. ASSUME NEW t \in Threads PROVE CalledIn(t)
  <2>1. <<>> \in Seq(Alarms) OBVIOUS
  <2>2. pc[t] = "idle" /\ rest[t] = <<>> /\ call[t] = None BY <1>2
  <2>3. rest[t] \in Seq(Alarms) BY <2>1, <2>2
  <2> QED BY <2>2, <2>3 DEF CalledIn, Setting, Changing
<1>4. Called BY <1>3 DEF Called, Init
<1>5. Sole BY <1>2 DEF Sole, Touches
<1>6. \A a \in Alarms : pending[a].id = -1 /\ pending[a].state = FALSE /\ asked[a] = FALSE BY DEF Init
<1>7. pending = [a \in Alarms |-> [id |-> -1, state |-> FALSE]] BY DEF Init
<1>8. Pending BY <1>6, <1>7 DEF Pending
<1>9. ASSUME NEW a \in Alarms PROVE Settled(a) /\ \A t \in Threads : Pursues(t, a)
  <2>1. \A t \in Threads : ~At(t, a) /\ ~Left(t, a) BY <1>2 DEF At, Left, Setting
  <2> QED BY <1>6, <2>1 DEF Settled, Pursues, Init
<1>10. \A t \in Threads : want[t] = FALSE BY DEF Init
<1>11. Truths BY <1>6, <1>10 DEF Truths
<1> QED BY <1>1, <1>4, <1>5, <1>8, <1>9, <1>11 DEF DebounceInv, Debounce, Pursued

\* The inductive invariant of the debounce: what each thread and each timer
\* still has to do to an alarm (alarm.c:124-176, 252-347).
THEOREM DebounceInvariant == Spec => [](DebounceInv /\ Truths)
<1>1. DebounceInv /\ Truths /\ [Next]_vars => DebounceInv' /\ Truths'
  <2> SUFFICES ASSUME DebounceInv, Truths, [Next]_vars PROVE DebounceInv' /\ Truths' OBVIOUS
  <2>1. IInv' BY InvStep DEF DebounceInv
  <2>2. Called' BY CalledInv DEF DebounceInv
  <2>3. Pending' BY PendingInv DEF DebounceInv
  <2>4. Sole' BY SoleInv DEF DebounceInv
  <2>5. Debounce' BY DebounceStep
  <2>6. Truths' BY TruthsStep
  <2> QED BY <2>1, <2>2, <2>3, <2>4, <2>5, <2>6 DEF DebounceInv
<1> QED BY <1>1, DebounceInit, PTL DEF Spec

LEMMA TruthsEqual == ASSUME NEW p \in BOOLEAN, NEW q \in BOOLEAN, p <=> q PROVE p = q
OBVIOUS

\* The debounce ends in what was last asked for, for any alarms, calls,
\* threads and hystereses: an alarm that nobody sets is in that state, or its
\* timer runs to bring it there, unless calls, or a call and the timer,
\* overlapped on it or it was set directly while its timer ran
\* (alarm.c:124-176, 252-347).
THEOREM DebounceEnds == Spec => []LastRequestHolds
<1>1. DebounceInv /\ Truths => LastRequestHolds
  <2> SUFFICES ASSUME DebounceInv, Truths, NEW a \in Alarms, Quiet(a), a \notin mixed \cup stale, ~damaged
               PROVE  IF a \in timer THEN /\ pending[a] = [id |-> a, state |-> asked[a]]
                                          /\ asked[a] # (a \in active)
                                     ELSE asked[a] = (a \in active)
    BY DEF LastRequestHolds
  <2>1. \A t \in Threads : ~Open(t, a) BY OpenTouches DEF Quiet, DebounceInv
  <2>2. Settled(a) BY <2>1 DEF DebounceInv, Debounce, Pursued
  <2>3. pending[a].state \in BOOLEAN /\ asked[a] \in BOOLEAN BY Zenon DEF Truths
  <2>4. (pending[a].state <=> asked[a]) => pending[a].state = asked[a] BY <2>3, TruthsEqual
  <2>5. (asked[a] <=> a \in active) => asked[a] = (a \in active)
    <3>1. (a \in active) \in BOOLEAN OBVIOUS
    <3> QED BY <2>3, <3>1, TruthsEqual
  <2>6. ~(asked[a] <=> a \in active) => asked[a] # (a \in active) BY <2>3, Zenon
  <2>7. pending[a] = [id |-> pending[a].id, state |-> pending[a].state] BY DEF DebounceInv, Pending
  <2>8. CASE a \in timer
    <3>1. /\ pending[a].id = a /\ (pending[a].state <=> asked[a]) /\ ~(asked[a] <=> a \in active)
      BY <2>2, <2>8 DEF Settled
    <3>2. pending[a] = [id |-> a, state |-> asked[a]] BY <2>4, <2>7, <3>1, Zenon
    <3>3. asked[a] # (a \in active) BY <2>6, <3>1, Zenon
    <3> QED BY <2>8, <3>2, <3>3, Zenon
  <2>9. CASE a \notin timer
    <3>1. asked[a] <=> a \in active BY <2>2, <2>9, Zenon DEF Settled
    <3> QED BY <2>5, <2>9, <3>1, Zenon
  <2> QED BY <2>8, <2>9
<1> QED BY <1>1, DebounceInvariant, PTL

-----------------------------------------------------------------------------
(* The memory, and what the callback is told.                              *)

\* A thread between the two sections of alarm_set, and one that has still to
\* report what it did.
InGap(t, a) == pc[t] \in {"memload", "memstore"} /\ id[t] = a
Tells(t, a) == pc[t] \in {"memload", "memstore", "put"} /\ id[t] = a

KeptAt(a) ==
  /\ a \in active => a \in since
  /\ a \in since => a \in memory \/ \E t \in Threads : InGap(t, a)
  /\ a \notin mixed => /\ a \in memory => a \in since
                       /\ (\E t \in Threads : InGap(t, a)) => a \in active
Kept == ~damaged => \A a \in Alarms : KeptAt(a)

\* The last event of a, or else what the callback was told, says v.
Latest(a, v) ==
  \/ \E i \in 1 .. Len(queue) : /\ queue[i].id = a /\ (queue[i].state <=> v)
                                /\ \A j \in i + 1 .. Len(queue) : queue[j].id # a
  \/ (\A i \in 1 .. Len(queue) : queue[i].id # a) /\ (told[a] <=> v)

ToldAt(a) ==
  /\ \A t \in Threads : Tells(t, a) => (a \in active <=> want[t])
  /\ a \notin dropped /\ (\A t \in Threads : ~Tells(t, a)) => Latest(a, a \in active)
Told == ~damaged => \A a \in Alarms \ mixed : ToldAt(a)

\* The steps of a thread that neither begin nor end what it reports.
Aside(t) ==
  \/ Call(t) \/ Return(t) \/ NextAlarm(t)
  \/ Check(t) \/ Stop(t) \/ Unpend(t) \/ Choose(t) \/ Pend(t) \/ Arm(t) \/ Load(t) \/ LoadMemory(t)
  \/ Submit(t) \/ Keep(t) \/ Configure(t) \/ Flush(t)

LEMMA AsideMoves ==
  ASSUME IInv, NEW t \in Threads, Aside(t), NEW a, NEW u \in Threads
  PROVE  (InGap(u, a)' <=> InGap(u, a)) /\ (Tells(u, a)' <=> Tells(u, a))
<1>0. pc \in [Threads -> Labels] /\ id = [v \in Threads |-> id[v]] BY DEF IInv, Owned
<1>1. CASE Call(t)
  <2>1. PICK c \in CallsOf[t] :
          /\ pc' = [pc EXCEPT ![t] = CASE c.op = "set" -> "check" [] c.op = "force" -> "next"
                      [] c.op = "clearMemory" -> "load" [] c.op = "hysteresis" -> "configure" [] OTHER -> "flush"]
          /\ id' = IF c.op = "set" THEN [id EXCEPT ![t] = c.id] ELSE id
          /\ pc[t] = "idle"
    BY <1>1, CallEnters
  <2>2. pc'[t] \in {"check", "next", "load", "configure", "flush"} BY <1>0, <2>1
  <2>3. u # t => pc'[u] = pc[u] /\ id'[u] = id[u] BY <1>0, <2>1
  <2> QED BY <2>1, <2>2, <2>3 DEF InGap, Tells
<1>2. CASE Return(t) \/ NextAlarm(t)
  <2>1. pc[t] \in {"return", "next"} /\ pc'[t] \in {"idle", "load"}
    BY <1>0, <1>2 DEF Return, NextAlarm, Goto
  <2>2. u # t => pc'[u] = pc[u] /\ id'[u] = id[u] BY <1>0, <1>2 DEF Return, NextAlarm, Goto
  <2> QED BY <2>1, <2>2 DEF InGap, Tells
<1>3. CASE Inner(t) /\ ~(Call(t) \/ Return(t) \/ NextAlarm(t))
  <2>1. id' = id /\ pc' = [pc EXCEPT ![t] = pc'[t]] /\ Goes(t, pc'[t]) BY <1>3, InnerGoes
  <2>2. u # t => pc'[u] = pc[u] BY <1>0, <2>1
  <2>3. pc[t] \notin {"store", "memstore", "put"}
    BY <1>3 DEF Aside, Check, Stop, Unpend, Choose, Pend, Arm, Load, LoadMemory, Submit, Keep, Configure, Flush
  <2>4. pc[t] = "memload" => LoadMemory(t)
    BY <1>3 DEF Aside, Check, Stop, Unpend, Choose, Pend, Arm, Load, Submit, Keep, Configure, Flush
  <2>5. pc[t] = "memload" => pc'[t] = "memstore" BY <1>0, <2>4 DEF LoadMemory, Onward, Goto
  <2>6. pc[t] = "memload" <=> pc'[t] \in {"memload", "memstore", "put"} BY <2>1, <2>3, <2>5 DEF Goes
  <2> QED BY <2>1, <2>2, <2>3, <2>5, <2>6 DEF InGap, Tells
<1> QED BY <1>1, <1>2, <1>3 DEF Aside, Inner

\* Sets and forces touch what they report.
LEMMA TellsTouches ==
  ASSUME Called, NEW t \in Threads, NEW a \in Alarms, Tells(t, a) \/ (pc[t] = "store" /\ id[t] = a)
  PROVE  a \in Touches(call[t])
<1>1. CalledIn(t) BY DEF Called
<1>2. call[t] \in CallsOf[t] /\ call[t].op \in {"set", "force"} /\ (call[t].op = "set" => call[t].id = a)
  BY <1>1 DEF CalledIn, Tells, Changing
<1> QED BY <1>2, CallsAre

LEMMA KeptFrame ==
  ASSUME NEW a, KeptAt(a), mixed \subseteq mixed', UNCHANGED <<active, memory, since>>,
         \A u \in Threads : InGap(u, a)' <=> InGap(u, a)
  PROVE  KeptAt(a)'
BY DEF KeptAt

LEMMA KeptStore ==
  ASSUME IInv, Called, Sole, ~damaged, NEW a \in Alarms, KeptAt(a), NEW t \in Threads,
         Store(t) \/ StoreMemory(t) \/ Keep(t)
  PROVE  KeptAt(a)'
<1> USE DEF KeptAt
<1>0. pc \in [Threads -> Labels] /\ Loaded BY DEF IInv, Owned
<1>1. CASE Store(t)
  <2>1. /\ pc[t] = "store" /\ reg[t] = active /\ active' = With(active, id[t], want[t])
        /\ memory' = memory /\ since' = since \cup active' /\ UNCHANGED <<mixed, id>>
        /\ pc' = [pc EXCEPT ![t] = IF want[t] /\ id[t] \notin active THEN "memload" ELSE "put"]
    BY <1>0, <1>1 DEF Store, Loaded, Onward, Goto, place
  <2>2. \A u \in Threads : u # t => (InGap(u, a)' <=> InGap(u, a)) BY <1>0, <2>1 DEF InGap
  <2>3. ~InGap(t, a) /\ (InGap(t, a)' <=> want[t] /\ id[t] \notin active /\ id[t] = a)
    <3>1. CASE want[t] /\ id[t] \notin active
      <4>1. pc'[t] = "memload" BY <1>0, <2>1, <3>1
      <4> QED BY <2>1, <3>1, <4>1 DEF InGap
    <3>2. CASE ~(want[t] /\ id[t] \notin active)
      <4>1. pc'[t] = "put" BY <1>0, <2>1, <3>2
      <4> QED BY <2>1, <3>2, <4>1 DEF InGap
    <3> QED BY <3>1, <3>2
  <2>4. CASE id[t] = a
    <3>1. a \in active' <=> want[t] BY <2>1, <2>4 DEF With
    <3>2. a \notin mixed => \A u \in Threads : InGap(u, a) => u = t
      <4> SUFFICES ASSUME a \notin mixed, NEW u \in Threads, InGap(u, a) PROVE u = t OBVIOUS
      <4>1. a \in Touches(call[t]) BY <2>1, <2>4, TellsTouches
      <4>2. Tells(u, a) BY DEF InGap, Tells
      <4>3. a \in Touches(call[u]) BY <4>2, TellsTouches
      <4> QED BY <4>1, <4>3 DEF Sole
    <3> QED BY <2>1, <2>2, <2>3, <2>4, <3>1, <3>2
  <2>5. CASE id[t] # a
    <3>1. a \in active' <=> a \in active BY <2>1, <2>5 DEF With
    <3> QED BY <2>1, <2>2, <2>3, <2>5, <3>1
  <2> QED BY <2>4, <2>5
<1>2. CASE StoreMemory(t)
  <2>1. /\ pc[t] = "memstore" /\ reg[t] = memory /\ memory' = memory \cup {id[t]}
        /\ UNCHANGED <<active, since, mixed, id>> /\ pc' = [pc EXCEPT ![t] = "put"]
    BY <1>0, <1>2 DEF StoreMemory, Loaded, Onward, Goto, place, history
  <2>2. \A u \in Threads : u # t => (InGap(u, a)' <=> InGap(u, a)) BY <1>0, <2>1 DEF InGap
  <2>3. ~InGap(t, a)' /\ (InGap(t, a) <=> id[t] = a) BY <1>0, <2>1 DEF InGap
  <2> QED BY <2>1, <2>2, <2>3
<1>3. CASE Keep(t)
  <2>1. /\ pc[t] = "keep" /\ reg[t] = active /\ memory' = active /\ since' = active
        /\ UNCHANGED <<active, mixed, id>> /\ pc' = [pc EXCEPT ![t] = "return"]
    BY <1>0, <1>3 DEF Keep, Loaded, Onward, Goto, place
  <2>2. \A u \in Threads : InGap(u, a)' <=> InGap(u, a) BY <1>0, <2>1 DEF InGap
  <2> QED BY <2>1, <2>2
<1> QED BY <1>1, <1>2, <1>3

LEMMA KeptExpire ==
  ASSUME IInv, Called, Pending, ~damaged, NEW a \in Alarms, KeptAt(a), NEW b \in Alarms, Expire(b), ~damaged'
  PROVE  KeptAt(a)'
<1> USE DEF KeptAt
<1>1. /\ UNCHANGED <<pc, id>> /\ since' = since \cup active'
      /\ mixed' = IF \E t \in Threads : b \in Touches(call[t]) THEN mixed \cup {b} ELSE mixed
      /\ pending[b].id # -1 /\ active' = With(active, b, pending[b].state)
      /\ memory' = memory \cup (active' \ active)
  <2>1. pending[b].id # -1 BY DEF Expire
  <2>2. pending[b].id = b BY <2>1 DEF Pending
  <2> QED BY <2>1, <2>2 DEF Expire, place
<1>2. \A u \in Threads : InGap(u, a)' <=> InGap(u, a) BY <1>1 DEF InGap
<1>3. ASSUME a \notin mixed', NEW u \in Threads, InGap(u, a) PROVE a # b
  <2>1. Tells(u, a) BY <1>3 DEF InGap, Tells
  <2>2. a \in Touches(call[u]) BY <2>1, TellsTouches
  <2> QED BY <1>1, <1>3, <2>2
<1>4. a # b => (a \in active' <=> a \in active) BY <1>1 DEF With
<1> QED BY <1>1, <1>2, <1>3, <1>4

\* What each step changes.
LEMMA AsideKeeps ==
  ASSUME NEW t \in Threads, Aside(t)
  PROVE  mixed \subseteq mixed' /\ damaged' = damaged /\ (Keep(t) \/ UNCHANGED <<active, memory, since>>)
BY DEF Aside, Call, Return, NextAlarm, Check, Stop, Unpend, Choose, Pend, Arm, Load, LoadMemory, Submit, Keep,
       Configure, Flush, masks, history

LEMMA KeptStep == ASSUME DebounceInv, Kept, [Next]_vars PROVE Kept'
<1> USE DEF DebounceInv
<1>1. SUFFICES ASSUME ~damaged', NEW a \in Alarms PROVE KeptAt(a)' BY DEF Kept
<1>2. CASE UNCHANGED vars BY <1>1, <1>2 DEF vars, masks, history, place, Kept, KeptAt, InGap
<1>3. CASE WorkStarts \/ Deliver \/ WorkEnds
  BY <1>1, <1>3 DEF WorkStarts, Deliver, WorkEnds, masks, history, place, Kept, KeptAt, InGap
<1>4. ASSUME NEW b \in Alarms, Expire(b) PROVE KeptAt(a)'
  <2>1. ~damaged BY <1>1, <1>4, Zenon DEF Expire
  <2>2. KeptAt(a) BY <2>1 DEF Kept
  <2> QED BY <1>1, <1>4, <2>1, <2>2, KeptExpire
<1>5. ASSUME NEW t \in Threads, Store(t) \/ StoreMemory(t) \/ Keep(t) PROVE KeptAt(a)'
  <2>1. ~damaged BY <1>1, <1>5 DEF Store, StoreMemory, Keep, history
  <2>2. KeptAt(a) BY <2>1 DEF Kept
  <2> QED BY <1>5, <2>1, <2>2, KeptStore
<1>6. ASSUME NEW t \in Threads, Put(t) PROVE KeptAt(a)'
  <2>0. pc \in [Threads -> Labels] BY DEF IInv, Owned
  <2>1. UNCHANGED <<active, memory, since, mixed, damaged, id>> /\ pc[t] = "put"
    BY <1>6 DEF Put, Onward, masks, history, place
  <2>2. pc' = [pc EXCEPT ![t] = pc'[t]] /\ Goes(t, pc'[t]) BY <1>6, InnerGoes DEF Inner
  <2>3. \A u \in Threads : u # t => pc'[u] = pc[u] BY <2>0, <2>2
  <2>4. \A u \in Threads : InGap(u, a)' <=> InGap(u, a) BY <2>1, <2>2, <2>3 DEF InGap, Goes
  <2> QED BY <1>1, <2>1, <2>4, KeptFrame DEF Kept
<1>7. ASSUME NEW t \in Threads, Aside(t), ~Keep(t) PROVE KeptAt(a)'
  <2>1. mixed \subseteq mixed' /\ damaged' = damaged /\ UNCHANGED <<active, memory, since>> BY <1>7, AsideKeeps
  <2>2. \A u \in Threads : InGap(u, a)' <=> InGap(u, a) BY <1>7, AsideMoves
  <2> QED BY <1>1, <2>1, <2>2, KeptFrame DEF Kept
<1> QED BY <1>2, <1>3, <1>4, <1>5, <1>6, <1>7 DEF Next, Step, Aside

LEMMA KeptInit == Init => Kept
BY DEF Init, Kept, KeptAt, InGap

-----------------------------------------------------------------------------
Events == [id : Alarms \cup {-1}, state : BOOLEAN]
Texts == queue \in Seq(Events) /\ told = [a \in Alarms |-> told[a]] /\ \A a \in Alarms : told[a] \in BOOLEAN

\* One more event, or one lost.
LEMMA LatestPut ==
  ASSUME Texts, NEW b \in Alarms, NEW v \in BOOLEAN, Enqueue(b, v), told' = told, NEW a \in Alarms, NEW w
  PROVE  /\ a = b /\ a \notin dropped' => Latest(a, v)'
         /\ a # b => (a \in dropped' <=> a \in dropped)
         /\ a # b /\ Latest(a, w) => Latest(a, w)'
<1> USE DEF Enqueue, Texts
<1>1. CASE Len(queue) < QueueSize
  <2> DEFINE e == [id |-> b, state |-> v]
  <2>1. queue' = Append(queue, e) /\ dropped' = dropped \ {b} BY <1>1
  <2>2. /\ Len(queue) \in Nat /\ Len(queue') = Len(queue) + 1 /\ queue'[Len(queue) + 1] = e
        /\ \A i \in 1 .. Len(queue) : queue'[i] = queue[i]
    BY <2>1
  <2>3. e.id = b /\ e.state = v OBVIOUS
  <2> HIDE DEF e
  <2>4. Latest(b, v)'
    <3>1. Len(queue) + 1 \in 1 .. Len(queue') BY <2>2
    <3>2. queue'[Len(queue) + 1].id = b /\ (queue'[Len(queue) + 1].state <=> v) BY <2>2, <2>3
    <3>3. \A j \in (Len(queue) + 1) + 1 .. Len(queue') : FALSE BY <2>2
    <3> QED BY <3>1, <3>2, <3>3 DEF Latest
  <2>5. ASSUME a # b, Latest(a, w) PROVE Latest(a, w)'
    <3>1. CASE \A i \in 1 .. Len(queue) : queue[i].id # a
      <4>1. told[a] <=> w BY <2>5, <3>1 DEF Latest
      <4>2. \A i \in 1 .. Len(queue') : queue'[i].id # a
        <5>1. \A i \in 1 .. Len(queue') : i \in 1 .. Len(queue) \/ i = Len(queue) + 1 BY <2>2
        <5> QED BY <2>2, <2>3, <2>5, <3>1, <5>1
      <4> QED BY <4>1, <4>2 DEF Latest
    <3>2. CASE ~(\A i \in 1 .. Len(queue) : queue[i].id # a)
      <4>1. PICK i \in 1 .. Len(queue) : /\ queue[i].id = a /\ (queue[i].state <=> w)
                                         /\ \A j \in i + 1 .. Len(queue) : queue[j].id # a
        BY <2>5, <3>2 DEF Latest
      <4>2. i \in 1 .. Len(queue') /\ queue'[i] = queue[i] BY <2>2
      <4>3. \A j \in i + 1 .. Len(queue') : queue'[j].id # a
        <5>1. \A j \in i + 1 .. Len(queue') : (j \in i + 1 .. Len(queue) /\ j \in 1 .. Len(queue)) \/ j = Len(queue) + 1
          BY <2>2
        <5> QED BY <2>2, <2>3, <2>5, <4>1, <5>1
      <4> QED BY <4>1, <4>2, <4>3 DEF Latest
    <3> QED BY <3>1, <3>2
  <2> QED BY <2>1, <2>4, <2>5
<1>2. CASE ~(Len(queue) < QueueSize)
  <2>1. queue' = queue /\ dropped' = dropped \cup {b} BY <1>2
  <2> QED BY <2>1 DEF Latest
<1> QED BY <1>1, <1>2

\* The callback hears of the first event.
LEMMA LatestDeliver ==
  ASSUME Texts, Deliver, NEW a \in Alarms, NEW w, Latest(a, w) PROVE Latest(a, w)'
<1> USE DEF Texts
<1>1. /\ queue # <<>> /\ queue' = Tail(queue)
      /\ told' = [b \in Alarms |-> IF b = Head(queue).id THEN Head(queue).state ELSE told[b]]
  BY DEF Deliver
<1>2. /\ Len(queue) \in Nat /\ Len(queue) >= 1 /\ Head(queue) = queue[1] /\ Len(queue') = Len(queue) - 1
      /\ \A i \in 1 .. Len(queue') : queue'[i] = queue[i + 1]
  BY <1>1
<1>3. CASE \A i \in 1 .. Len(queue) : queue[i].id # a
  <2>1. told[a] <=> w BY <1>3 DEF Latest
  <2>2. queue[1].id # a BY <1>2, <1>3
  <2>3. told'[a] = told[a] BY <1>1, <1>2, <2>2
  <2>4. \A i \in 1 .. Len(queue') : i + 1 \in 1 .. Len(queue) BY <1>2
  <2>5. \A i \in 1 .. Len(queue') : queue'[i].id # a BY <1>2, <1>3, <2>4
  <2> QED BY <2>1, <2>3, <2>5 DEF Latest
<1>4. CASE ~(\A i \in 1 .. Len(queue) : queue[i].id # a)
  <2>1. PICK i \in 1 .. Len(queue) : /\ queue[i].id = a /\ (queue[i].state <=> w)
                                     /\ \A j \in i + 1 .. Len(queue) : queue[j].id # a
    BY <1>4 DEF Latest
  <2>2. CASE i = 1
    <3>1. told'[a] = queue[1].state BY <1>1, <1>2, <2>1, <2>2
    <3>2. \A j \in 1 .. Len(queue') : j + 1 \in i + 1 .. Len(queue) BY <1>2, <2>2
    <3>3. \A j \in 1 .. Len(queue') : queue'[j].id # a BY <1>2, <2>1, <3>2
    <3> QED BY <2>1, <2>2, <3>1, <3>3 DEF Latest
  <2>3. CASE i # 1
    <3>1. i - 1 \in 1 .. Len(queue') /\ (i - 1) + 1 = i BY <1>2, <2>3
    <3>2. queue'[i - 1] = queue[i] BY <1>2, <3>1
    <3>3. \A j \in (i - 1) + 1 .. Len(queue') : j \in 1 .. Len(queue') /\ j + 1 \in i + 1 .. Len(queue) BY <1>2
    <3>4. \A j \in (i - 1) + 1 .. Len(queue') : queue'[j].id # a BY <1>2, <2>1, <3>3
    <3> QED BY <2>1, <3>1, <3>2, <3>4 DEF Latest
  <2> QED BY <2>2, <2>3
<1> QED BY <1>3, <1>4

\* Whoever empties the queue loses what is in it.
LEMMA LatestFlush ==
  ASSUME Texts, NEW t \in Threads, Flush(t), NEW a \in Alarms, a \notin dropped', NEW w, Latest(a, w)
  PROVE  a \notin dropped /\ Latest(a, w)'
<1> USE DEF Texts
<1>1. queue' = <<>> /\ told' = told /\ dropped' = dropped \cup {e.id : e \in ToSet(queue)} BY DEF Flush
<1>2. \A i \in 1 .. Len(queue) : queue[i].id # a
  <2>1. ToSet(queue) = {queue[i] : i \in 1 .. Len(queue)} BY DEF ToSet
  <2> QED BY <1>1, <2>1
<1>3. told[a] <=> w BY <1>2 DEF Latest
<1>4. Len(queue') = 0 BY <1>1
<1> QED BY <1>1, <1>3, <1>4 DEF Latest

LEMMA ToldFrame ==
  ASSUME NEW a, ToldAt(a), UNCHANGED <<active, queue, told, dropped>>,
         \A u \in Threads : (Tells(u, a)' <=> Tells(u, a)) /\ (Tells(u, a) => want'[u] = want[u])
  PROVE  ToldAt(a)'
BY DEF ToldAt, Latest

\* A thread keeps what it has to report.
LEMMA AsideWants ==
  ASSUME IInv, Called, NEW t \in Threads, Aside(t), NEW a, NEW u \in Threads, Tells(u, a)
  PROVE  want'[u] = want[u]
<1>0. want = [v \in Threads |-> want[v]] BY DEF Called
<1>1. CASE Call(t)
  <2>1. PICK c \in CallsOf[t] :
          /\ want' = IF c.op = "set" THEN [want EXCEPT ![t] = c.state] ELSE want
          /\ pc[t] = "idle"
    BY <1>1, CallEnters
  <2>2. u # t BY <2>1 DEF Tells
  <2> QED BY <1>0, <2>1, <2>2
<1>2. CASE Return(t) \/ NextAlarm(t)
  <2>1. u # t BY <1>2 DEF Return, NextAlarm, Tells
  <2> QED BY <1>0, <1>2, <2>1 DEF Return, NextAlarm
<1>3. CASE Inner(t) BY <1>3, InnerGoes
<1> QED BY <1>1, <1>2, <1>3 DEF Aside, Inner

LEMMA AsideQueue ==
  ASSUME NEW t \in Threads, Aside(t)
  PROVE  UNCHANGED <<active, told>> /\ (Flush(t) \/ UNCHANGED <<queue, dropped>>)
BY DEF Aside, Call, Return, NextAlarm, Check, Stop, Unpend, Choose, Pend, Arm, Load, LoadMemory, Submit, Keep,
       Configure, Flush, masks, events

LEMMA ToldAside ==
  ASSUME DebounceInv, Texts, NEW t \in Threads, Aside(t), NEW a \in Alarms, ToldAt(a) PROVE ToldAt(a)'
<1> USE DEF DebounceInv
<1>1. \A u \in Threads : (Tells(u, a)' <=> Tells(u, a)) /\ (Tells(u, a) => want'[u] = want[u])
  BY AsideMoves, AsideWants
<1>2. CASE UNCHANGED <<queue, dropped>> BY <1>1, <1>2, AsideQueue, ToldFrame
<1>3. CASE Flush(t)
  <2>1. active' = active BY AsideQueue
  <2>2. a \notin dropped' /\ Latest(a, a \in active) => a \notin dropped /\ Latest(a, a \in active)'
    <3> SUFFICES ASSUME a \notin dropped', Latest(a, a \in active) PROVE a \notin dropped /\ Latest(a, a \in active)'
      OBVIOUS
    <3>1. a \notin dropped /\ \A i \in 1 .. Len(queue) : queue[i].id # a
      <4>1. dropped' = dropped \cup {e.id : e \in ToSet(queue)} BY <1>3 DEF Flush
      <4>2. ToSet(queue) = {queue[i] : i \in 1 .. Len(queue)} BY DEF ToSet, Texts
      <4> QED BY <4>1, <4>2
    <3>2. told[a] <=> a \in active BY <3>1 DEF Latest
    <3>3. Len(queue') = 0 /\ told' = told BY <1>3 DEF Flush
    <3> QED BY <2>1, <3>1, <3>2, <3>3 DEF Latest
  <2>3. dropped \subseteq dropped' BY <1>3 DEF Flush
  <2> QED BY <1>1, <2>1, <2>2, <2>3 DEF ToldAt
<1> QED BY <1>2, <1>3, AsideQueue

LEMMA ToldStore ==
  ASSUME DebounceInv, ~damaged, NEW a \in Alarms \ mixed, ToldAt(a), NEW t \in Threads, Store(t) PROVE ToldAt(a)'
<1> USE DEF DebounceInv
<1>1. /\ pc[t] = "store" /\ reg[t] = active /\ active' = With(active, id[t], want[t])
      /\ pc' = [pc EXCEPT ![t] = pc'[t]] /\ pc'[t] \in {"memload", "put"}
      /\ UNCHANGED <<id, want, queue, told, dropped>>
  <2>0. pc \in [Threads -> Labels] /\ Loaded BY DEF IInv, Owned
  <2>1. PICK l \in {"memload", "put"} : pc' = [pc EXCEPT ![t] = l] BY DEF Store, Onward, Goto
  <2> QED BY <2>0, <2>1 DEF Store, Loaded, Onward, Goto, place, events
<1>2. \A u \in Threads : u # t => (Tells(u, a)' <=> Tells(u, a))
  <2>1. pc \in [Threads -> Labels] BY DEF IInv, Owned
  <2> QED BY <1>1, <2>1 DEF Tells
<1>3. ~Tells(t, a) /\ (Tells(t, a)' <=> id[t] = a) BY <1>1 DEF Tells
<1>4. CASE id[t] = a
  <2>1. a \in active' <=> want[t] BY <1>1, <1>4 DEF With
  <2>2. \A u \in Threads : Tells(u, a) => u = t
    <3>1. a \in Touches(call[t]) BY <1>1, <1>4, TellsTouches
    <3> QED BY <3>1, TellsTouches DEF Sole
  <2> QED BY <1>1, <1>2, <1>3, <1>4, <2>1, <2>2 DEF ToldAt
<1>5. CASE id[t] # a
  <2>1. a \in active' <=> a \in active BY <1>1, <1>5 DEF With
  <2>2. Latest(a, a \in active) => Latest(a, a \in active)' BY <1>1, <2>1 DEF Latest
  <2> QED BY <1>1, <1>2, <1>3, <1>5, <2>1, <2>2 DEF ToldAt
<1> QED BY <1>4, <1>5

LEMMA ToldStoreMemory ==
  ASSUME DebounceInv, NEW a \in Alarms, ToldAt(a), NEW t \in Threads, StoreMemory(t) PROVE ToldAt(a)'
<1>0. pc \in [Threads -> Labels] BY DEF DebounceInv, IInv, Owned
<1>1. /\ pc[t] = "memstore" /\ pc' = [pc EXCEPT ![t] = "put"]
      /\ UNCHANGED <<active, id, want, queue, told, dropped>>
  BY DEF StoreMemory, Onward, Goto, place, events
<1>2. \A u \in Threads : Tells(u, a)' <=> Tells(u, a) BY <1>0, <1>1 DEF Tells
<1> QED BY <1>1, <1>2, ToldFrame

\* The thread reports what it did.
LEMMA ToldPut ==
  ASSUME DebounceInv, Truths, Texts, NEW a \in Alarms \ mixed, ToldAt(a), NEW t \in Threads, Put(t)
  PROVE  ToldAt(a)'
<1> USE DEF DebounceInv
<1>0. pc \in [Threads -> Labels] BY DEF IInv, Owned
<1>1. /\ pc[t] = "put" /\ Enqueue(id[t], want[t]) /\ UNCHANGED <<active, id, want, told>>
  BY DEF Put, Onward, masks, place
<1>2. pc' = [pc EXCEPT ![t] = pc'[t]] /\ Goes(t, pc'[t]) BY InnerGoes DEF Inner
<1>3. \A u \in Threads : u # t => (Tells(u, a)' <=> Tells(u, a)) BY <1>0, <1>1, <1>2 DEF Tells
<1>4. ~Tells(t, a)' /\ (Tells(t, a) <=> id[t] = a) BY <1>1, <1>2 DEF Tells, Goes
<1>5. id[t] \in Alarms
  <2>1. CalledIn(t) BY DEF Called
  <2> QED BY <1>1, <2>1, CallsAre DEF CalledIn, Changing
<1>6. want[t] \in BOOLEAN BY Zenon DEF Truths
<1>7. CASE id[t] = a
  <2>1. a \in active <=> want[t] BY <1>4, <1>7 DEF ToldAt
  <2>2. a \notin dropped' => Latest(a, want[t])' BY <1>1, <1>5, <1>6, <1>7, LatestPut
  <2>3. Latest(a, want[t])' => Latest(a, a \in active)' BY <1>1, <2>1 DEF Latest
  <2>4. \A u \in Threads : Tells(u, a) => u = t
    <3>1. a \in Touches(call[t]) BY <1>4, <1>7, TellsTouches
    <3> QED BY <3>1, TellsTouches DEF Sole
  <2> QED BY <1>1, <1>3, <1>4, <2>2, <2>3, <2>4 DEF ToldAt
<1>8. CASE id[t] # a
  <2>1. /\ a \in dropped' <=> a \in dropped
        /\ \A w : Latest(a, w) => Latest(a, w)'
    BY <1>1, <1>5, <1>6, <1>8, LatestPut
  <2>2. Latest(a, a \in active) => Latest(a, a \in active)' BY <1>1, <2>1 DEF Latest
  <2> QED BY <1>1, <1>3, <1>4, <1>8, <2>1, <2>2 DEF ToldAt
<1> QED BY <1>7, <1>8

\* The timer reports what it did, unless a thread touches the alarm too.
LEMMA ToldExpire ==
  ASSUME DebounceInv, Truths, Texts, ~damaged', NEW a \in Alarms \ mixed', ToldAt(a), NEW b \in Alarms, Expire(b)
  PROVE  ToldAt(a)'
<1> USE DEF DebounceInv
<1>1. /\ UNCHANGED <<pc, id, want, told>> /\ pending[b].id = b /\ Enqueue(b, pending[b].state)
      /\ mixed' = IF \E t \in Threads : b \in Touches(call[t]) THEN mixed \cup {b} ELSE mixed
      /\ active' = With(active, b, pending[b].state)
  <2>1. pending[b].id # -1 BY Zenon DEF Expire
  <2>2. pending[b].id = b BY <2>1 DEF Pending
  <2> QED BY <2>1, <2>2 DEF Expire, place
<1>2. \A u \in Threads : Tells(u, a)' <=> Tells(u, a) BY <1>1 DEF Tells
<1>3. pending[b].state \in BOOLEAN BY Zenon DEF Truths
<1>4. CASE a = b
  <2>1. \A u \in Threads : ~Tells(u, a) BY <1>1, <1>4, TellsTouches
  <2>2. a \in active' <=> pending[b].state BY <1>1, <1>4 DEF With
  <2>3. ASSUME a \notin dropped' PROVE Latest(a, a \in active)'
    <3>1. PICK v \in BOOLEAN : v = pending[b].state BY <1>3, Zenon
    <3>2. Enqueue(b, v) BY <1>1, <3>1
    <3>3. Latest(a, v)' BY <1>1, <1>4, <2>3, <3>2, LatestPut
    <3>4. a \in active' <=> v BY <2>2, <3>1, Zenon
    <3> QED BY <3>3, <3>4 DEF Latest
  <2> QED BY <1>2, <2>1, <2>3 DEF ToldAt
<1>5. CASE a # b
  <2>1. a \in active' <=> a \in active BY <1>1, <1>5 DEF With
  <2>2. /\ a \in dropped' <=> a \in dropped
        /\ \A w : Latest(a, w) => Latest(a, w)'
    BY <1>1, <1>3, <1>5, LatestPut
  <2>3. Latest(a, a \in active) => Latest(a, a \in active)' BY <2>1, <2>2 DEF Latest
  <2> QED BY <1>1, <1>2, <2>1, <2>2, <2>3 DEF ToldAt
<1> QED BY <1>4, <1>5

LEMMA EnqueueTexts ==
  ASSUME Texts, NEW b \in Alarms \cup {-1}, NEW v \in BOOLEAN, Enqueue(b, v) PROVE queue' \in Seq(Events)
<1>1. [id |-> b, state |-> v] \in Events BY Zenon DEF Events
<1> QED BY <1>1 DEF Enqueue, Texts

LEMMA TextsStep == ASSUME DebounceInv, Truths, Texts, [Next]_vars PROVE Texts'
<1> USE DEF DebounceInv
<1>1. CASE UNCHANGED <<queue, told>> BY <1>1 DEF Texts
<1>2. ASSUME NEW b \in Alarms, Expire(b) PROVE Texts'
  <2>1. Enqueue(pending[b].id, pending[b].state) /\ told' = told BY <1>2 DEF Expire
  <2>2. pending[b].id \in Alarms \cup {-1} BY DEF Pending
  <2>3. pending[b].state \in BOOLEAN BY Zenon DEF Truths
  <2>4. queue' \in Seq(Events) BY <2>1, <2>2, <2>3, EnqueueTexts
  <2> QED BY <2>1, <2>4 DEF Texts
<1>3. ASSUME NEW t \in Threads, Put(t) PROVE Texts'
  <2>1. Enqueue(id[t], want[t]) /\ told' = told /\ pc[t] = "put" BY <1>3 DEF Put
  <2>2. CalledIn(t) BY DEF Called
  <2>3. id[t] \in Alarms BY <2>1, <2>2, CallsAre DEF CalledIn, Changing
  <2>4. want[t] \in BOOLEAN BY Zenon DEF Truths
  <2>5. queue' \in Seq(Events) BY <2>1, <2>3, <2>4, EnqueueTexts
  <2> QED BY <2>1, <2>5 DEF Texts
<1>4. ASSUME NEW t \in Threads, Flush(t) PROVE Texts' BY <1>4 DEF Flush, Texts
<1>5. CASE Deliver
  <2>1. /\ queue # <<>> /\ queue' = Tail(queue)
        /\ told' = [b \in Alarms |-> IF b = Head(queue).id THEN Head(queue).state ELSE told[b]]
    BY <1>5 DEF Deliver
  <2>2. queue' \in Seq(Events) /\ Head(queue) \in Events BY <2>1 DEF Texts
  <2>3. ASSUME NEW b \in Alarms PROVE told'[b] \in BOOLEAN
    <3>1. CASE b = Head(queue).id
      <4>1. told'[b] = Head(queue).state BY <2>1, <3>1
      <4> QED BY <2>2, <4>1, Zenon DEF Events
    <3>2. CASE b # Head(queue).id
      <4>1. told'[b] = told[b] BY <2>1, <3>2
      <4> QED BY <4>1, Zenon DEF Texts
    <3> QED BY <3>1, <3>2
  <2>4. told' = [b \in Alarms |-> told'[b]] BY <2>1
  <2> QED BY <2>2, <2>3, <2>4, Zenon DEF Texts
<1>6. \/ UNCHANGED <<queue, told>> \/ Deliver
      \/ \E t \in Threads : Put(t) \/ Flush(t)
      \/ \E b \in Alarms : Expire(b)
  BY ZenonT(40) DEF Next, Step, Call, Return, Check, Stop, Unpend, Choose, Pend, Arm, Load, Store, LoadMemory, StoreMemory,
         Submit, NextAlarm, Keep, Configure, WorkStarts, WorkEnds, vars, events
<1> QED BY <1>1, <1>2, <1>3, <1>4, <1>5, <1>6

LEMMA ToldStep == ASSUME DebounceInv, Truths, Texts, Told, [Next]_vars PROVE Told'
<1>1. SUFFICES ASSUME ~damaged', NEW a \in Alarms \ mixed' PROVE ToldAt(a)' BY DEF Told
<1>2. CASE UNCHANGED vars BY <1>1, <1>2 DEF vars, masks, events, history, place, Told, ToldAt, Latest, Tells
<1>3. CASE WorkStarts \/ WorkEnds
  BY <1>1, <1>3 DEF WorkStarts, WorkEnds, masks, history, place, Told, ToldAt, Latest, Tells
<1>4. CASE Deliver
  <2>1. UNCHANGED <<active, dropped, pc, id, want, mixed, damaged>>
    BY <1>4 DEF Deliver, masks, history, place
  <2>2. ToldAt(a) BY <1>1, <2>1 DEF Told
  <2>3. Latest(a, a \in active) => Latest(a, a \in active)'
    <3>1. PICK w : w = (a \in active) OBVIOUS
    <3>2. Latest(a, w) => Latest(a, w)' BY <1>4, LatestDeliver
    <3> QED BY <2>1, <3>1, <3>2 DEF Latest
  <2>4. \A u \in Threads : Tells(u, a)' <=> Tells(u, a) BY <2>1 DEF Tells
  <2> QED BY <2>1, <2>2, <2>3, <2>4 DEF ToldAt
<1>5. ASSUME NEW b \in Alarms, Expire(b) PROVE ToldAt(a)'
  <2>1. ~damaged BY <1>1, <1>5, Zenon DEF Expire
  <2>2. mixed \subseteq mixed' BY <1>5 DEF Expire
  <2>3. ToldAt(a) BY <1>1, <2>1, <2>2 DEF Told
  <2> QED BY <1>1, <1>5, <2>3, ToldExpire
<1>6. ASSUME NEW t \in Threads, Store(t) \/ StoreMemory(t) \/ Put(t) PROVE ToldAt(a)'
  <2>1. UNCHANGED <<mixed, damaged>> BY <1>6 DEF Store, StoreMemory, Put, history
  <2>2. ToldAt(a) BY <1>1, <2>1 DEF Told
  <2> QED BY <1>1, <1>6, <2>1, <2>2, ToldStore, ToldStoreMemory, ToldPut
<1>7. ASSUME NEW t \in Threads, Aside(t) PROVE ToldAt(a)'
  <2>1. mixed \subseteq mixed' /\ damaged' = damaged BY <1>7, AsideKeeps
  <2>2. ToldAt(a) BY <1>1, <2>1 DEF Told
  <2> QED BY <1>1, <1>7, <2>2, ToldAside
<1> QED BY <1>2, <1>3, <1>4, <1>5, <1>6, <1>7 DEF Next, Step, Aside

LEMMA MemoryInit == Init => Texts /\ Told
<1> SUFFICES ASSUME Init PROVE Texts /\ Told OBVIOUS
<1>1. queue = <<>> /\ told = [a \in Alarms |-> FALSE] /\ active = {} /\ pc = [t \in Threads |-> "idle"]
  BY DEF Init
<1>2. \A a \in Alarms : told[a] = FALSE /\ ~(a \in active) BY <1>1
<1>3. Texts
  <2>1. \A a \in Alarms : told[a] \in BOOLEAN BY <1>2, Zenon
  <2>2. queue \in Seq(Events) BY <1>1
  <2>3. told = [a \in Alarms |-> told[a]] BY <1>1
  <2> QED BY <2>1, <2>2, <2>3, Zenon DEF Texts
<1>4. ASSUME NEW a \in Alarms PROVE ToldAt(a)
  <2>1. Len(queue) = 0 BY <1>1
  <2>2. ~told[a] BY <1>2, Zenon
  <2>3. Latest(a, a \in active) BY <1>2, <2>1, <2>2 DEF Latest
  <2>4. \A t \in Threads : ~Tells(t, a) BY <1>1 DEF Tells
  <2> QED BY <2>3, <2>4 DEF ToldAt
<1> QED BY <1>3, <1>4 DEF Told

\* What the memory and the callback know, on top of the debounce
\* (alarm.c:29-121, 573-606).
THEOREM MemoryInvariant == Spec => [](Kept /\ Texts /\ Told)
<1>1. DebounceInv /\ Truths /\ Kept /\ Texts /\ Told /\ [Next]_vars => Kept' /\ Texts' /\ Told'
  BY KeptStep, TextsStep, ToldStep
<1> QED BY <1>1, KeptInit, MemoryInit, DebounceInvariant, PTL DEF Spec

\* The memory is exact, for any alarms, threads and calls, clearings of the
\* memory in the gap of alarm_set included: of an alarm that no calls
\* overlapped on and that nobody sets, it says whether it was active since
\* the memory was cleared (alarm.c:75-121, 573-606).
THEOREM MemoryIsRight == Spec => []MemoryIsExact
<1>1. DebounceInv /\ Kept => MemoryIsExact
  <2> SUFFICES ASSUME DebounceInv, Kept, NEW a \in Alarms \ mixed, Quiet(a), ~damaged
               PROVE  a \in memory <=> a \in since
    BY DEF MemoryIsExact
  <2>1. KeptAt(a) BY DEF Kept
  <2>2. ASSUME NEW t \in Threads, InGap(t, a) PROVE FALSE
    <3>1. Tells(t, a) BY <2>2 DEF InGap, Tells
    <3> QED BY <3>1, TellsTouches DEF Quiet, DebounceInv
  <2> QED BY <2>1, <2>2 DEF KeptAt
<1> QED BY <1>1, DebounceInvariant, MemoryInvariant, PTL

\* What the callback was last told of an alarm is its state, for any size of
\* the queue: an event of it that nobody lost is in the queue or was
\* delivered last, once nobody sets the alarm (alarm.c:29-63).
THEOREM CallbackIsRight == Spec => []CallbackToldTheTruth
<1>1. DebounceInv /\ Texts /\ Told => CallbackToldTheTruth
  <2> SUFFICES ASSUME DebounceInv, Texts, Told, NEW a \in Alarms \ (mixed \cup dropped), Quiet(a), ~damaged,
                      \A e \in ToSet(queue) : e.id # a
               PROVE  told[a] = (a \in active)
    BY DEF CallbackToldTheTruth
  <2>1. \A t \in Threads : ~Tells(t, a) BY TellsTouches DEF Quiet, DebounceInv
  <2>2. Latest(a, a \in active) BY <2>1 DEF Told, ToldAt
  <2>3. \A i \in 1 .. Len(queue) : queue[i].id # a
    <3>1. ToSet(queue) = {queue[i] : i \in 1 .. Len(queue)} BY DEF ToSet
    <3> QED BY <3>1
  <2>4. told[a] <=> a \in active BY <2>2, <2>3 DEF Latest
  <2>5. told[a] \in BOOLEAN BY Zenon DEF Texts
  <2>6. (a \in active) \in BOOLEAN OBVIOUS
  <2> QED BY <2>4, <2>5, <2>6, TruthsEqual, Zenon
<1> QED BY <1>1, DebounceInvariant, MemoryInvariant, PTL

-----------------------------------------------------------------------------
(* What every variable is.                                                 *)

Subsets == {active, memory, hyst, timer, since, mixed, stale} \subseteq SUBSET Alarms
Threaded ==
  /\ id \in [Threads -> Alarms] /\ reg \in [Threads -> SUBSET Alarms]
  /\ \A t \in Threads : pc[t] = "configure" => call[t].op = "hysteresis"
Flags == {submitted, running, damaged} \subseteq BOOLEAN
Typed == Subsets /\ Threaded /\ Flags /\ Len(queue) <= QueueSize /\ asked = [a \in Alarms |-> asked[a]]

LEMMA FirstAlarm == 0 \in Alarms
<1>1. AlarmCount \in 1 .. 32 BY AlarmAssumption
<1> QED BY <1>1 DEF Alarms

LEMMA ThreadedStep == ASSUME DebounceInv, Typed, [Next]_vars PROVE Threaded'
<1> USE DEF DebounceInv, Typed, Threaded, Subsets
<1>0. /\ pc \in [Threads -> Labels] /\ call = [t \in Threads |-> call[t]] /\ \A t \in Threads : CalledIn(t)
      /\ 0 \in Alarms
  BY FirstAlarm, Zenon DEF IInv, Owned, Called
<1>1. CASE UNCHANGED vars BY <1>1 DEF vars, place
<1>2. CASE WorkStarts \/ Deliver \/ WorkEnds BY <1>2 DEF WorkStarts, Deliver, WorkEnds, place
<1>3. ASSUME NEW a \in Alarms, Expire(a) PROVE Threaded' BY <1>3 DEF Expire, place
<1>4. ASSUME NEW t \in Threads, Call(t) PROVE Threaded'
  <2>1. PICK c \in CallsOf[t] :
          /\ call' = [call EXCEPT ![t] = c]
          /\ pc' = [pc EXCEPT ![t] = CASE c.op = "set" -> "check" [] c.op = "force" -> "next"
                      [] c.op = "clearMemory" -> "load" [] c.op = "hysteresis" -> "configure" [] OTHER -> "flush"]
          /\ id' = (IF c.op = "set" THEN [id EXCEPT ![t] = c.id] ELSE id) /\ reg' = reg
    BY <1>4, CallEnters
  <2>2. c.op = "set" => c.id \in Alarms BY CallsAre
  <2>3. id' \in [Threads -> Alarms] BY <2>1, <2>2
  <2>4. pc'[t] = "configure" => c.op = "hysteresis" BY <1>0, <2>1
  <2>5. \A u \in Threads : pc'[u] = "configure" => call'[u].op = "hysteresis" BY <1>0, <2>1, <2>4
  <2> QED BY <2>1, <2>3, <2>5
<1>5. ASSUME NEW t \in Threads, Return(t) PROVE Threaded' BY <1>0, <1>5 DEF Return, Goto
<1>6. ASSUME NEW t \in Threads, NextAlarm(t) PROVE Threaded'
  <2>1. Head(rest[t]) \in Alarms BY <1>0, <1>6 DEF NextAlarm, CalledIn
  <2> QED BY <1>0, <1>6, <2>1 DEF NextAlarm, Goto
<1>7. ASSUME NEW t \in Threads, Inner(t) PROVE Threaded'
  <2>1. /\ UNCHANGED <<call, id>> /\ pc' = [pc EXCEPT ![t] = pc'[t]] BY <1>7, InnerGoes
  <2>2. pc'[t] # "configure"
    <3>1. PICK l \in Labels \ {"configure"} : pc' = [pc EXCEPT ![t] = l]
      <4>1. CASE Put(t)
        <5>1. CASE Len(queue) < QueueSize BY <4>1, <5>1 DEF Put, Onward, Goto, Labels
        <5>2. CASE ~(Len(queue) < QueueSize) BY <4>1, <5>2 DEF Put, Onward, Goto, Labels
        <5> QED BY <5>1, <5>2
      <4>2. CASE ~Put(t)
        BY <1>7, <4>2 DEF Inner, Check, Stop, Unpend, Choose, Pend, Arm, Load, Store, LoadMemory, StoreMemory, Submit,
                        Keep, Configure, Flush, Onward, Goto, Labels
      <4> QED BY <4>1, <4>2
    <3> QED BY <1>0, <3>1
  <2>3. reg' \in [Threads -> SUBSET Alarms]
    <3>1. CASE Load(t) \/ LoadMemory(t) BY <3>1 DEF Load, LoadMemory
    <3>2. CASE Store(t) \/ StoreMemory(t) \/ Keep(t) BY <3>2 DEF Store, StoreMemory, Keep, Forget
    <3>3. CASE ~(Load(t) \/ LoadMemory(t) \/ Store(t) \/ StoreMemory(t) \/ Keep(t))
      BY <1>7, <3>3 DEF Inner, Check, Stop, Unpend, Choose, Pend, Arm, Put, Submit, Configure, Flush
    <3> QED BY <3>1, <3>2, <3>3
  <2> QED BY <1>0, <2>1, <2>2, <2>3
<1> QED BY <1>1, <1>2, <1>3, <1>4, <1>5, <1>6, <1>7 DEF Next, Step, Inner

LEMMA SubsetsStep == ASSUME DebounceInv, Typed, [Next]_vars PROVE Subsets'
<1> USE DEF DebounceInv, Typed, Threaded, Subsets
<1>1. CASE UNCHANGED vars BY <1>1 DEF vars, masks, timers, history
<1>2. CASE WorkStarts \/ Deliver \/ WorkEnds BY <1>2 DEF WorkStarts, Deliver, WorkEnds, masks, timers, history
<1>3. ASSUME NEW a \in Alarms, Expire(a) PROVE Subsets'
  <2>1. /\ timer' = timer \ {a} /\ mixed' \in {mixed, mixed \cup {a}} /\ since' = since \cup active'
        /\ UNCHANGED <<hyst, stale>>
    BY <1>3 DEF Expire
  <2>2. active' \in SUBSET Alarms /\ memory' \in SUBSET Alarms
    <3>1. CASE pending[a].id # -1
      <4>1. pending[a].id = a BY <3>1 DEF Pending
      <4> QED BY <1>3, <3>1, <4>1 DEF Expire, With
    <3>2. CASE pending[a].id = -1 BY <1>3, <3>2 DEF Expire
    <3> QED BY <3>1, <3>2
  <2> QED BY <2>1, <2>2
<1>4. ASSUME NEW t \in Threads, Call(t) PROVE Subsets'
  <2>1. PICK c \in CallsOf[t] :
          /\ mixed' = mixed \cup (Touches(c) \cap UNION {Touches(call[u]) : u \in Threads \ {t}})
          /\ UNCHANGED <<masks, timers, since, stale>>
    BY <1>4, CallEnters
  <2>2. Touches(c) \subseteq Alarms BY CallsAre
  <2> QED BY <2>1, <2>2 DEF masks, timers
<1>5. ASSUME NEW t \in Threads, Store(t) PROVE Subsets'
  <2>1. /\ active' = With(reg[t], id[t], want[t]) /\ since' = since \cup active'
        /\ stale' = With(stale, id[t], id[t] \in timer) /\ UNCHANGED <<memory, hyst, timer, mixed>>
    BY <1>5 DEF Store, timers
  <2>2. active' \in SUBSET Alarms /\ stale' \in SUBSET Alarms BY <2>1 DEF With
  <2> QED BY <2>1, <2>2
<1>6. ASSUME NEW t \in Threads, StoreMemory(t) \/ Keep(t) PROVE Subsets'
  <2>1. memory' \in SUBSET Alarms /\ since' \in SUBSET Alarms /\ UNCHANGED <<active, hyst, timer, mixed, stale>>
    BY <1>6 DEF StoreMemory, Keep, timers, history
  <2> QED BY <2>1
<1>7. ASSUME NEW t \in Threads, Configure(t) PROVE Subsets'
  <2>1. CalledIn(t) /\ pc[t] = "configure" BY <1>7 DEF Called, Configure
  <2>2. call[t] \in CallsOf[t] /\ call[t].op = "hysteresis" BY <2>1 DEF CalledIn
  <2>3. call[t].id \in Alarms BY <2>2, AlarmAssumption
  <2>4. hyst' = With(hyst, call[t].id, call[t].on) /\ UNCHANGED <<active, memory, timer, since, mixed, stale>>
    BY <1>7 DEF Configure, timers, history
  <2> QED BY <2>3, <2>4 DEF With
<1>8. ASSUME NEW t \in Threads, Stop(t) \/ Arm(t) PROVE Subsets' BY <1>8 DEF Stop, Arm, masks
<1>9. ASSUME NEW t \in Threads,
             \/ Return(t) \/ Check(t) \/ Unpend(t) \/ Choose(t) \/ Pend(t) \/ Load(t) \/ LoadMemory(t) \/ Put(t)
             \/ Submit(t) \/ NextAlarm(t) \/ Flush(t)
      PROVE  Subsets'
  BY <1>9 DEF Return, Check, Unpend, Choose, Pend, Load, LoadMemory, Put, Submit, NextAlarm, Flush, masks, timers,
              history
<1> QED BY <1>1, <1>2, <1>3, <1>4, <1>5, <1>6, <1>7, <1>8, <1>9 DEF Next, Step

LEMMA TypedStep == ASSUME DebounceInv, Texts, Typed, [Next]_vars PROVE Typed'
<1>1. Flags'
  <2>1. UNCHANGED submitted \/ submitted' \in BOOLEAN
    BY ZenonT(40) DEF Next, Step, Call, Return, Check, Stop, Unpend, Choose, Pend, Arm, Load, Store, LoadMemory, StoreMemory,
           Put, Submit, NextAlarm, Keep, Configure, Flush, Expire, WorkStarts, Deliver, WorkEnds, vars, events
  <2>2. UNCHANGED running \/ running' \in BOOLEAN
    BY ZenonT(40) DEF Next, Step, Call, Return, Check, Stop, Unpend, Choose, Pend, Arm, Load, Store, LoadMemory, StoreMemory,
           Put, Submit, NextAlarm, Keep, Configure, Flush, Expire, WorkStarts, Deliver, WorkEnds, vars, events
  <2>3. UNCHANGED damaged \/ damaged' \in BOOLEAN
    BY ZenonT(40) DEF Next, Step, Call, Return, Check, Stop, Unpend, Choose, Pend, Arm, Load, Store, LoadMemory, StoreMemory,
           Put, Submit, NextAlarm, Keep, Configure, Flush, Expire, WorkStarts, Deliver, WorkEnds, vars, history
  <2> QED BY <2>1, <2>2, <2>3, Zenon DEF Typed, Flags
<1>2. Len(queue') <= QueueSize
  <2>1. Len(queue) <= QueueSize /\ Len(queue) \in Nat /\ QueueSize \in Nat BY AlarmAssumption DEF Typed, Texts
  <2>2. CASE queue' = queue BY <2>1, <2>2
  <2>3. CASE queue # <<>> /\ queue' = Tail(queue)
    <3>1. Len(queue') = Len(queue) - 1 BY <2>3 DEF Texts
    <3> QED BY <2>1, <3>1
  <2>4. ASSUME NEW a, NEW v, Enqueue(a, v) PROVE Len(queue') <= QueueSize
    BY <2>1, <2>4 DEF Enqueue, Texts
  <2>5. CASE queue' = <<>>
    <3>1. Len(queue') = 0 BY <2>5
    <3> QED BY <2>1, <3>1
  <2>6. \/ queue' = queue \/ (queue # <<>> /\ queue' = Tail(queue)) \/ queue' = <<>>
        \/ \E t \in Threads : Enqueue(id[t], want[t])
        \/ \E a \in Alarms : Enqueue(pending[a].id, pending[a].state)
    BY ZenonT(40) DEF Next, Step, Call, Return, Check, Stop, Unpend, Choose, Pend, Arm, Load, Store, LoadMemory, StoreMemory,
           Put, Submit, NextAlarm, Keep, Configure, Flush, Expire, WorkStarts, Deliver, WorkEnds, vars, events
  <2> QED BY <2>2, <2>3, <2>4, <2>5, <2>6
<1>3. asked' = [a \in Alarms |-> asked'[a]]
  <2>1. asked' = asked \/ \E t \in Threads : Call(t)
    BY ZenonT(40) DEF DebounceInv, Called, Next, Step, Return, Check, Stop, Unpend, Choose, Pend, Arm, Load, Store, LoadMemory,
           StoreMemory, Put, Submit, NextAlarm, Keep, Configure, Flush, Expire, WorkStarts, Deliver, WorkEnds,
           vars, timers, history, place, Onward
  <2>2. ASSUME NEW t \in Threads, Call(t) PROVE asked' = [a \in Alarms |-> asked'[a]]
    <3>1. \E c \in CallsOf[t] :
            asked' = [a \in Alarms |-> CASE a \notin Touches(c) -> asked[a]
                        [] a \in Touches(c) /\ c.op = "set" -> c.state
                        [] OTHER -> a \in c.mask]
      BY <2>2, CallEnters
    <3> QED BY <3>1
  <2> QED BY <2>1, <2>2 DEF Typed
<1> QED BY <1>1, <1>2, <1>3, ThreadedStep, SubsetsStep DEF Typed

LEMMA TypedInit == Init => Typed
<1> SUFFICES ASSUME Init PROVE Typed OBVIOUS
<1>1. Subsets /\ Threaded BY AlarmAssumption DEF Init, Subsets, Threaded, Alarms
<1>2. Flags BY Zenon DEF Init, Flags
<1>3. Len(queue) <= QueueSize BY AlarmAssumption DEF Init
<1>4. asked = [a \in Alarms |-> asked[a]] BY DEF Init
<1> QED BY <1>1, <1>2, <1>3, <1>4 DEF Typed

\* Every variable keeps its type: no alarm outside the configured ones is
\* ever in a mask, a timer or an event, however calls and timers interleave
\* (alarm.c).
THEOREM TypeCorrect == Spec => []TypeOK
<1>1. DebounceInv /\ Truths /\ Texts /\ Typed /\ [Next]_vars => Typed' BY TypedStep
<1>2. DebounceInv /\ Truths /\ Texts /\ Typed => TypeOK
  <2> SUFFICES ASSUME DebounceInv, Truths, Texts, Typed PROVE TypeOK OBVIOUS
  <2>1. /\ active \subseteq Alarms /\ memory \subseteq Alarms /\ hyst \subseteq Alarms /\ timer \subseteq Alarms
        /\ since \subseteq Alarms /\ mixed \subseteq Alarms /\ stale \subseteq Alarms
    BY DEF Typed, Subsets
  <2>2. pending \in [Alarms -> [id : {-1} \cup Alarms, state : BOOLEAN]]
    <3>1. ASSUME NEW a \in Alarms PROVE pending[a] \in [id : {-1} \cup Alarms, state : BOOLEAN]
      <4>1. pending[a] = [id |-> pending[a].id, state |-> pending[a].state] BY DEF DebounceInv, Pending
      <4>2. pending[a].id \in {-1} \cup Alarms BY DEF DebounceInv, Pending
      <4>3. pending[a].state \in BOOLEAN BY Zenon DEF Truths
      <4> QED BY <4>1, <4>2, <4>3, Zenon
    <3>2. pending = [a \in Alarms |-> pending[a]] BY DEF DebounceInv, Pending
    <3> QED BY <3>1, <3>2, Zenon
  <2>3. /\ mutex \in Threads \cup {None} /\ pc \in [Threads -> Labels]
        /\ \A t \in Threads : mutex = t <=> pc[t] \in {"store", "memstore", "keep"}
    BY DEF DebounceInv, IInv, Owned, Inside
  <2>4. queue \in Seq([id : {-1} \cup Alarms, state : BOOLEAN]) /\ Len(queue) <= QueueSize
    <3>1. {-1} \cup Alarms = Alarms \cup {-1} OBVIOUS
    <3> QED BY <3>1, Zenon DEF Texts, Typed, Events
  <2>5. {submitted, running, damaged} \subseteq BOOLEAN BY Zenon DEF Typed, Flags
  <2>6. \A t \in Threads : call[t] \in CallsOf[t] \cup {None} /\ (call[t] = None <=> pc[t] = "idle")
    BY DEF DebounceInv, Called, CalledIn
  <2>7. id \in [Threads -> Alarms] /\ reg \in [Threads -> SUBSET Alarms] BY DEF Typed, Threaded
  <2>8. want \in [Threads -> BOOLEAN]
    <3>1. want = [t \in Threads |-> want[t]] BY DEF DebounceInv, Called
    <3> QED BY <3>1, Zenon DEF Truths
  <2>9. rest \in [Threads -> Seq(Alarms)] BY DEF DebounceInv, Called, CalledIn
  <2>10. told \in [Alarms -> BOOLEAN] /\ asked \in [Alarms -> BOOLEAN]
    <3>1. told \in [Alarms -> BOOLEAN] BY Zenon DEF Texts
    <3>2. asked = [a \in Alarms |-> asked[a]] BY DEF Typed
    <3>3. asked \in [Alarms -> BOOLEAN] BY <3>2, Zenon DEF Truths
    <3> QED BY <3>1, <3>3
  <2> QED BY <2>1, <2>2, <2>3, <2>4, <2>5, <2>6, <2>7, <2>8, <2>9, <2>10, Zenon DEF TypeOK
<1> QED BY <1>1, <1>2, TypedInit, DebounceInvariant, MemoryInvariant, PTL DEF Spec
=============================================================================
