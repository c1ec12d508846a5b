------------------------ MODULE DigitalOutputProofs ------------------------
(***************************************************************************)
(* Proofs about DigitalOutput, for any number of threads and valves: on a  *)
(* valve that no two calls overlapped on, the mask and the pin agree and   *)
(* the callback was told the truth whenever nobody operates on it; a force *)
(* that nothing disturbed is exact; and every variable has its type.       *)
(***************************************************************************)
EXTENDS DigitalOutput, TLAPS

\* Inside an operation the valve is one the call touches.
AtWork == {"mark", "drive", "rollback", "notify", "read", "sync"}
Placed ==
  /\ pc \in [Threads -> Labels] /\ mask \subseteq Valves
  /\ pin \in [Valves -> {0, 1}]
  /\ want \in [Threads -> BOOLEAN] /\ seen \in [Threads -> BOOLEAN]
  /\ call \in [Threads -> (UNION {CallsOf[t] : t \in Threads}) \cup {None}]
  /\ \A t \in Threads :
       /\ call[t] \in CallsOf[t] \cup {None}
       /\ call[t] = None <=> pc[t] = "idle"
       /\ pc[t] \in AtWork => valve[t] \in Touches(call[t])
       /\ pc[t] \in {"read", "sync"} => call[t].op # "force"
       /\ pc[t] \in {"snapshot", "next"} => call[t].op = "force"
       /\ Touches(call[t]) \subseteq Valves
  /\ valve \in [Threads -> Valves \cup {None}]
  /\ shared \subseteq Valves
  /\ alone \in [Threads -> BOOLEAN]
  /\ rest \in [Threads -> Seq(Valves)]

\* A valve not shared has one thread on it at most, and so has every valve of
\* a call that is alone.
Owned ==
  \A t, u \in Threads : \A v \in Valves :
    v \in Touches(call[t]) /\ v \in Touches(call[u]) /\ (v \notin shared \/ alone[t]) => t = u

\* Between the mark and the pin the two differ; otherwise they agree.
InBetween(t, v) == valve[t] = v /\ pc[t] \in {"drive", "rollback"}
AgreeOn(v) ==
  /\ (\A t \in Threads : ~InBetween(t, v)) => (v \in mask <=> IsOpen(v))
  /\ \A t \in Threads : InBetween(t, v) =>
       /\ v \in mask <=> want[t]
       /\ IsOpen(v) <=> ~want[t]
Agree == \A v \in Valves \ shared : AgreeOn(v)

\* What a status call saw still holds while it has the valve to itself.
SeenHolds ==
  \A t \in Threads :
    pc[t] = "sync" /\ (alone[t] \/ valve[t] \notin shared) => (seen[t] <=> IsOpen(valve[t]))

IInv == Placed /\ Owned /\ Agree /\ SeenHolds

-----------------------------------------------------------------------------
(* Levels, marks and the valves of a call.                                 *)

LEMMA LevelOpens ==
  ASSUME NEW v, NEW b \in BOOLEAN
  PROVE  /\ Level(v, b) \in {0, 1}
         /\ Level(v, b) = Level(v, TRUE) <=> b
  BY DEF Level

\* The calls a thread may make touch valves of the table only.
LEMMA CallTouches ==
  ASSUME NEW t \in Threads, NEW c \in CallsOf[t]
  PROVE  /\ c # None
         /\ Touches(c) \subseteq Valves
         /\ c.op # "force" => c.id \in Valves /\ Touches(c) = {c.id}
         /\ c.op = "force" => Touches(c) = Valves
         /\ c.op \in {"open", "close", "status", "force"}
  BY ValvesAssumption DEF ValvesAssumption, Touches

\* Two threads at work on a valve that is not shared are the same thread.
LEMMA Sole ==
  ASSUME Placed, Owned,
         NEW t \in Threads, NEW u \in Threads,
         pc[t] \in AtWork, pc[u] \in AtWork, valve[t] = valve[u],
         valve[t] \notin shared \/ alone[t]
  PROVE  t = u
  <1>1. /\ valve[t] \in Touches(call[t]) /\ valve[t] \in Touches(call[u])
        /\ valve[t] \in Valves
    BY DEF Placed
  <1>2. QED
    BY <1>1 DEF Owned

-----------------------------------------------------------------------------
(* Placed.                                                                 *)

LEMMA InitPlaced == Init => Placed
  <1> SUFFICES ASSUME Init PROVE Placed
    OBVIOUS
  <1>1. pin \in [Valves -> {0, 1}]
    BY LevelOpens DEF Init
  <1>2. /\ want \in [Threads -> BOOLEAN] /\ seen \in [Threads -> BOOLEAN]
        /\ alone \in [Threads -> BOOLEAN]
    BY ZenonT(10) DEF Init
  <1>3. rest \in [Threads -> Seq(Valves)]
    BY DEF Init
  <1>4. \A t \in Threads : call[t] = None /\ pc[t] = "idle" /\ Touches(call[t]) = {}
    BY DEF Init, Touches
  <1>5. call \in [Threads -> (UNION {CallsOf[t] : t \in Threads}) \cup {None}]
    BY DEF Init
  <1>6. pc \in [Threads -> Labels] /\ mask \subseteq Valves /\ shared \subseteq Valves
    BY DEF Init, Labels
  <1>7. valve \in [Threads -> Valves \cup {None}]
    BY DEF Init
  <1>8. ASSUME NEW t \in Threads
        PROVE  /\ call[t] \in CallsOf[t] \cup {None}
               /\ call[t] = None <=> pc[t] = "idle"
               /\ pc[t] \notin AtWork
               /\ pc[t] \notin {"read", "sync", "snapshot", "next"}
               /\ Touches(call[t]) \subseteq Valves
    BY <1>4 DEF AtWork
  <1>9. QED
    BY <1>1, <1>2, <1>3, <1>5, <1>6, <1>7, <1>8 DEF Placed

\* The steps of a call leave alone which calls are open.
LEMMA InnerPlaced ==
  ASSUME Placed, NEW t \in Threads, call[t] # None,
         NEW l \in Labels, l # "idle", pc' = [pc EXCEPT ![t] = l],
         UNCHANGED <<call, valve>>,
         l \in AtWork => pc[t] \in AtWork, l \in {"read", "sync"} => call[t].op # "force",
         l \in {"snapshot", "next"} => call[t].op = "force",
         mask' \subseteq Valves, pin' \in [Valves -> {0, 1}],
         want' \in [Threads -> BOOLEAN], seen' \in [Threads -> BOOLEAN],
         shared' \subseteq Valves, alone' \in [Threads -> BOOLEAN],
         rest' \in [Threads -> Seq(Valves)]
  PROVE  Placed'
  BY DEF Placed

\* Finish leads to a label of Labels and is no step into a critical section.
LEMMA FinishStep ==
  ASSUME NEW t \in Threads, NEW r, Finish(t, r), call[t] # None
  PROVE  \E l \in {"next", "return"} :
           pc' = [pc EXCEPT ![t] = l] /\ (l = "next" => call[t].op = "force")
  BY DEF Finish, Goto

LEMMA PlacedCall ==
  ASSUME Placed, NEW t \in Threads, Call(t)
  PROVE  Placed'
  <1>1. PICK c \in CallsOf[t] :
          /\ call' = [call EXCEPT ![t] = c]
          /\ Meet(t, c)
          /\ \/ /\ c.op \in {"open", "close"} /\ Goto(t, "mark")
                /\ valve' = [valve EXCEPT ![t] = c.id]
                /\ want' = [want EXCEPT ![t] = c.op = "open"]
             \/ /\ c.op = "status" /\ Goto(t, "read")
                /\ valve' = [valve EXCEPT ![t] = c.id]
                /\ UNCHANGED want
             \/ /\ c.op = "force" /\ Goto(t, "snapshot")
                /\ UNCHANGED <<valve, want>>
    BY Zenon DEF Call
  <1>2. /\ c # None /\ Touches(c) \subseteq Valves
        /\ c.op # "force" => c.id \in Valves /\ Touches(c) = {c.id}
    BY CallTouches
  <1>3. UNCHANGED <<mask, pin, seen, rest>>
    BY DEF Call
  <1>4. /\ shared' \subseteq Valves
        /\ alone' \in [Threads -> BOOLEAN]
    <2>1. shared' \subseteq Valves
      BY <1>1, <1>2 DEF Meet, Placed
    <2>2. ASSUME NEW u \in Threads PROVE alone[u] \in BOOLEAN
      BY DEF Placed
    <2>3. alone' \in [Threads -> BOOLEAN]
      BY <1>1, <2>2, ZenonT(10) DEF Meet
    <2>4. QED
      BY <2>1, <2>3
  <1>5. want' \in [Threads -> BOOLEAN]
    <2>1. want \in [Threads -> BOOLEAN]
      BY DEF Placed
    <2>2. (c.op = "open") \in BOOLEAN
      OBVIOUS
    <2>3. UNCHANGED want \/ want' = [want EXCEPT ![t] = c.op = "open"]
      BY <1>1, Zenon
    <2>4. QED
      BY <2>1, <2>2, <2>3, ZenonT(10)
  <1>6. PICK l \in {"mark", "read", "snapshot"} :
          /\ pc' = [pc EXCEPT ![t] = l]
          /\ l # "snapshot" => valve' = [valve EXCEPT ![t] = c.id] /\ c.op # "force"
          /\ l = "snapshot" => UNCHANGED valve /\ c.op = "force"
    BY <1>1 DEF Goto
  <1>7. pc' \in [Threads -> Labels]
    BY <1>6 DEF Placed, Labels
  <1>8. call' \in [Threads -> (UNION {CallsOf[u] : u \in Threads}) \cup {None}]
    BY <1>1 DEF Placed
  <1>9. valve' \in [Threads -> Valves \cup {None}]
    BY <1>2, <1>6 DEF Placed
  <1>10. ASSUME NEW u \in Threads
         PROVE  /\ call'[u] \in CallsOf[u] \cup {None}
                /\ call'[u] = None <=> pc'[u] = "idle"
                /\ pc'[u] \in AtWork => valve'[u] \in Touches(call'[u])
                /\ pc'[u] \in {"read", "sync"} => call'[u].op # "force"
                /\ pc'[u] \in {"snapshot", "next"} => call'[u].op = "force"
                /\ Touches(call'[u]) \subseteq Valves
    <2>1. CASE u = t
      BY <1>1, <1>2, <1>6, <2>1 DEF Placed, AtWork
    <2>2. CASE u # t
      <3>1. call'[u] = call[u] /\ pc'[u] = pc[u] /\ valve'[u] = valve[u]
        BY <1>1, <1>6, <2>2 DEF Placed
      <3>2. QED
        BY <3>1 DEF Placed
    <2>3. QED
      BY <2>1, <2>2
  <1>11. \A u \in Threads :
           /\ call'[u] \in CallsOf[u] \cup {None}
           /\ call'[u] = None <=> pc'[u] = "idle"
           /\ pc'[u] \in AtWork => valve'[u] \in Touches(call[u])'
           /\ pc'[u] \in {"read", "sync"} => call'[u].op # "force"
           /\ pc'[u] \in {"snapshot", "next"} => call'[u].op = "force"
           /\ Touches(call[u])' \subseteq Valves
    BY <1>10 DEF Touches
  <1>12. QED
    BY <1>3, <1>4, <1>5, <1>7, <1>8, <1>9, <1>11 DEF Placed

LEMMA PlacedReturn ==
  ASSUME Placed, NEW t \in Threads, Return(t)
  PROVE  Placed'
  <1>1. /\ want' \in [Threads -> BOOLEAN] /\ seen' \in [Threads -> BOOLEAN]
        /\ alone' \in [Threads -> BOOLEAN]
    BY ZenonT(10) DEF Placed, Return
  <1>2. /\ pc' = [pc EXCEPT ![t] = "idle"] /\ call' = [call EXCEPT ![t] = None]
        /\ valve' = [valve EXCEPT ![t] = None]
        /\ UNCHANGED <<mask, pin, rest, shared>>
    BY DEF Return, Goto
  <1>3. /\ pc' \in [Threads -> Labels]
        /\ call' \in [Threads -> (UNION {CallsOf[u] : u \in Threads}) \cup {None}]
        /\ valve' \in [Threads -> Valves \cup {None}]
    BY <1>2 DEF Placed, Labels
  <1>4. ASSUME NEW u \in Threads
        PROVE  /\ call'[u] \in CallsOf[u] \cup {None}
               /\ call'[u] = None <=> pc'[u] = "idle"
               /\ pc'[u] \in AtWork => valve'[u] \in Touches(call[u])'
               /\ pc'[u] \in {"read", "sync"} => call'[u].op # "force"
               /\ pc'[u] \in {"snapshot", "next"} => call'[u].op = "force"
               /\ Touches(call[u])' \subseteq Valves
    <2>1. CASE u = t
      BY <1>2, <2>1 DEF Placed, AtWork, Touches
    <2>2. CASE u # t
      <3>1. call'[u] = call[u] /\ pc'[u] = pc[u] /\ valve'[u] = valve[u]
        BY <1>2, <2>2 DEF Placed
      <3>2. Touches(call[u])' = Touches(call[u])
        BY <3>1 DEF Touches
      <3>3. QED
        BY <3>1, <3>2 DEF Placed
    <2>3. QED
      BY <2>1, <2>2
  <1>5. QED
    BY <1>1, <1>2, <1>3, <1>4 DEF Placed

\* The steps of open, close and status: the valve stays.
Inner(t) == \/ Mark(t) \/ Drive(t) \/ DriveFails(t) \/ Rollback(t) \/ Notify(t)
            \/ ReadPin(t) \/ ReadFails(t) \/ Sync(t)

\* Marking the valve of an operation keeps the mask among the valves.
LEMMA MarkedValves ==
  ASSUME Placed, NEW t \in Threads, pc[t] \in AtWork, NEW b
  PROVE  Marked(valve[t], b) \subseteq Valves /\ valve[t] \in Valves
  BY DEF Placed, Marked

LEMMA PlacedInner ==
  ASSUME Placed, NEW t \in Threads, Inner(t)
  PROVE  Placed'
  <1>1. /\ call[t] # None /\ pc[t] \in AtWork
    BY DEF Inner, Mark, Drive, DriveFails, Rollback, Notify, ReadPin, ReadFails, Sync, AtWork, Placed
  <1>2. PICK l \in Labels : /\ l # "idle" /\ pc' = [pc EXCEPT ![t] = l]
                            /\ l \in {"read", "sync"} => pc[t] = "read"
                            /\ l \in {"snapshot", "next"} => call[t].op = "force"
    BY <1>1, FinishStep DEF Inner, Mark, Drive, DriveFails, Rollback, Notify, ReadPin, ReadFails, Sync, Labels, Goto
  <1>3. UNCHANGED <<call, valve, want, rest>>
    BY DEF Inner, Mark, Drive, DriveFails, Rollback, Notify, ReadPin, ReadFails, Sync
  <1>4. mask' \subseteq Valves
    BY <1>1, MarkedValves DEF Inner, Mark, Drive, DriveFails, Rollback, Notify, ReadPin, ReadFails, Sync, Placed
  <1>5. pin' \in [Valves -> {0, 1}]
    <2>1. Level(valve[t], want[t]) \in {0, 1}
      BY LevelOpens DEF Placed
    <2>2. UNCHANGED pin \/ pin' = [pin EXCEPT ![valve[t]] = Level(valve[t], want[t])]
      BY DEF Inner, Mark, Drive, DriveFails, Rollback, Notify, ReadPin, ReadFails, Sync
    <2>3. QED
      BY <2>1, <2>2 DEF Placed
  <1>6. shared' \subseteq Valves
    BY DEF Inner, Mark, Drive, DriveFails, Rollback, Notify, ReadPin, ReadFails, Sync, Placed, history
  <1>7. UNCHANGED alone
    BY DEF Inner, Mark, Drive, DriveFails, Rollback, Notify, ReadPin, ReadFails, Sync, history
  <1>8. seen' \in [Threads -> BOOLEAN]
    BY DEF Inner, Mark, Drive, DriveFails, Rollback, Notify, ReadPin, ReadFails, Sync, Placed, IsOpen
  <1>9. l \in {"read", "sync"} => call[t].op # "force"
    BY <1>2 DEF Placed
  <1>10. want' \in [Threads -> BOOLEAN] /\ alone' \in [Threads -> BOOLEAN] /\ rest' \in [Threads -> Seq(Valves)]
    BY <1>3, <1>7 DEF Placed
  <1>11. QED
    BY <1>1, <1>2, <1>3, <1>4, <1>5, <1>6, <1>8, <1>9, <1>10, InnerPlaced

LEMMA PlacedLoop ==
  ASSUME Placed, NEW t \in Threads, Snapshot(t) \/ NextValve(t) \/ EndForce(t)
  PROVE  Placed'
  <1>1. /\ pc[t] \in {"snapshot", "next"} /\ call[t] # None
        /\ call[t].op = "force" /\ Touches(call[t]) = Valves
    BY DEF Placed, Snapshot, NextValve, EndForce, Touches
  <1>2. UNCHANGED <<mask, pin, call, seen, shared, alone>>
    BY DEF Snapshot, NextValve, EndForce, history
  <1>3. CASE Snapshot(t) \/ EndForce(t)
    <2>1. rest' \in [Threads -> Seq(Valves)]
      BY <1>3, ValvesAssumption DEF Placed, Snapshot, EndForce, ValvesAssumption, history
    <2>2. PICK l \in {"next", "return"} : pc' = [pc EXCEPT ![t] = l]
      BY <1>3 DEF Snapshot, EndForce, Goto
    <2>3. UNCHANGED <<want, valve>>
      BY <1>3 DEF Snapshot, EndForce
    <2>4. want' \in [Threads -> BOOLEAN] /\ seen' \in [Threads -> BOOLEAN]
          /\ alone' \in [Threads -> BOOLEAN] /\ mask' \subseteq Valves
          /\ pin' \in [Valves -> {0, 1}] /\ shared' \subseteq Valves
      BY <1>2, <2>3 DEF Placed
    <2>5. l \in Labels /\ l # "idle" /\ l \notin AtWork /\ l \notin {"read", "sync"}
      BY DEF Labels, AtWork
    <2>6. QED
      BY <1>1, <1>2, <2>1, <2>2, <2>3, <2>4, <2>5, InnerPlaced
  <1>4. CASE NextValve(t)
    <2>1. rest[t] \in Seq(Valves) /\ rest[t] # <<>>
      BY <1>4 DEF NextValve, Placed
    <2>2. Head(rest[t]) \in Valves /\ Tail(rest[t]) \in Seq(Valves)
      BY <2>1
    <2>3. rest' = [rest EXCEPT ![t] = Tail(rest[t])]
      BY <1>4 DEF NextValve
    <2>4. rest' \in [Threads -> Seq(Valves)]
      BY <2>2, <2>3 DEF Placed
    <2>5. \/ UNCHANGED <<valve, want, pc>>
          \/ /\ valve' = [valve EXCEPT ![t] = Head(rest[t])]
             /\ want' = [want EXCEPT ![t] = Head(rest[t]) \in call[t].mask]
             /\ pc' = [pc EXCEPT ![t] = "mark"]
      BY <1>4, Zenon DEF NextValve, Goto
    <2>6. want' \in [Threads -> BOOLEAN]
      <3>1. want \in [Threads -> BOOLEAN] /\ (Head(rest[t]) \in call[t].mask) \in BOOLEAN
        BY DEF Placed
      <3>2. UNCHANGED want \/ want' = [want EXCEPT ![t] = Head(rest[t]) \in call[t].mask]
        BY <2>5, Zenon
      <3>3. QED
        BY <3>1, <3>2, ZenonT(10)
    <2>7. CASE UNCHANGED <<valve, want, pc>>
      BY <1>2, <2>4, <2>6, <2>7 DEF Placed, Touches
    <2>8. CASE /\ valve' = [valve EXCEPT ![t] = Head(rest[t])]
               /\ pc' = [pc EXCEPT ![t] = "mark"]
      <3>1. valve' \in [Threads -> Valves \cup {None}] /\ pc' \in [Threads -> Labels]
        BY <2>2, <2>8 DEF Placed, Labels
      <3>2. ASSUME NEW u \in Threads
            PROVE  /\ call[u] = None <=> pc'[u] = "idle"
                   /\ pc'[u] \in AtWork => valve'[u] \in Touches(call[u])
                   /\ pc'[u] \in {"read", "sync"} => call[u].op # "force"
                   /\ pc'[u] \in {"snapshot", "next"} => call[u].op = "force"
        BY <1>1, <2>2, <2>8 DEF Placed
      <3>3. QED
        BY <1>2, <2>4, <2>6, <3>1, <3>2 DEF Placed, Touches
    <2>9. QED
      BY <2>5, <2>7, <2>8
  <1>5. QED
    BY <1>3, <1>4

LEMMA PlacedInv == Placed /\ [Next]_vars => Placed'
  <1> SUFFICES ASSUME Placed, [Next]_vars PROVE Placed'
    OBVIOUS
  <1>1. CASE UNCHANGED vars
    BY <1>1 DEF vars, history, Placed, Touches
  <1>2. CASE Next
    <2>1. PICK t \in Threads : Step(t)
      BY <1>2 DEF Next
    <2>2. Call(t) \/ Inner(t) \/ Return(t) \/ Snapshot(t) \/ NextValve(t) \/ EndForce(t)
      BY <2>1 DEF Step, Inner
    <2>3. QED
      BY <2>2, PlacedCall, PlacedInner, PlacedReturn, PlacedLoop
  <1>3. QED
    BY <1>1, <1>2

-----------------------------------------------------------------------------
(* Owned.                                                                  *)

LEMMA OwnedCall ==
  ASSUME Placed, Owned, NEW t \in Threads, Call(t)
  PROVE  Owned'
  <1>1. PICK c \in CallsOf[t] : call' = [call EXCEPT ![t] = c] /\ Meet(t, c)
    BY Zenon DEF Call
  <1> DEFINE met == {u \in Threads \ {t} : Touches(call[u]) \cap Touches(c) # {}}
             on == Touches(c) \cap UNION {Touches(call[u]) : u \in met}
  <1>2. /\ shared' = shared \cup on
        /\ alone' = [u \in Threads |-> IF u = t THEN met = {} ELSE alone[u] /\ u \notin met]
    BY <1>1, Zenon DEF Meet
  <1>3. ASSUME NEW u \in Threads
        PROVE  Touches(call[u])' = IF u = t THEN Touches(c) ELSE Touches(call[u])
    BY <1>1 DEF Touches, Placed
  <1>4. ASSUME NEW u \in Threads \ {t}, NEW v \in Touches(c), v \in Touches(call[u])
        PROVE  u \in met /\ v \in on
    BY <1>4
  <1>5. ASSUME NEW u \in Threads, NEW w \in Threads, NEW v \in Valves,
               v \in Touches(call[u])', v \in Touches(call[w])', v \notin shared' \/ alone'[u],
               u # w
        PROVE  FALSE
    <2>1. CASE u = t
      <3>1. w \in met /\ v \in shared'
        BY <1>2, <1>3, <1>4, <1>5, <2>1
      <3>2. ~alone'[u]
        BY <1>2, <2>1, <3>1
      <3>3. QED
        BY <1>5, <3>1, <3>2
    <2>2. CASE w = t
      <3>1. u \in met /\ v \in shared'
        BY <1>2, <1>3, <1>4, <1>5, <2>2
      <3>2. ~alone'[u]
        BY <1>2, <1>5, <2>2, <3>1
      <3>3. QED
        BY <1>5, <3>1, <3>2
    <2>3. CASE u # t /\ w # t
      <3>1. v \notin shared \/ alone[u]
        BY <1>2, <1>5, <2>3
      <3>2. v \in Touches(call[u]) /\ v \in Touches(call[w])
        BY <1>3, <1>5, <2>3
      <3>3. QED
        BY <1>5, <3>1, <3>2 DEF Owned
    <2>4. QED
      BY <2>1, <2>2, <2>3
  <1>6. QED
    BY <1>5 DEF Owned

LEMMA OwnedReturn ==
  ASSUME Placed, Owned, NEW t \in Threads, Return(t)
  PROVE  Owned'
  <1>1. /\ call' = [call EXCEPT ![t] = None] /\ UNCHANGED shared
        /\ alone' = [alone EXCEPT ![t] = TRUE]
    BY DEF Return
  <1>2. ASSUME NEW u \in Threads
        PROVE  Touches(call[u])' = IF u = t THEN {} ELSE Touches(call[u])
    BY <1>1 DEF Touches, Placed
  <1>3. ASSUME NEW u \in Threads, u # t PROVE alone'[u] = alone[u]
    BY <1>1, <1>3 DEF Placed
  <1>4. QED
    BY <1>1, <1>2, <1>3 DEF Owned

LEMMA OwnedSync ==
  ASSUME Placed, Owned, NEW t \in Threads, Sync(t)
  PROVE  Owned'
  <1>1. /\ UNCHANGED <<call, alone>> /\ pc[t] \in AtWork
        /\ shared' = IF alone[t] THEN shared \ {valve[t]} ELSE shared
    BY DEF Sync, AtWork
  <1>2. \A u \in Threads : Touches(call[u])' = Touches(call[u])
    BY <1>1 DEF Touches
  <1>3. ASSUME NEW u \in Threads, NEW v \in Valves, alone[t], v = valve[t], v \in Touches(call[u])
        PROVE  u = t
    BY <1>1, <1>3 DEF Owned, Placed
  <1>4. QED
    BY <1>1, <1>2, <1>3 DEF Owned

LEMMA OwnedInv == Placed /\ Owned /\ [Next]_vars => Owned'
  <1> SUFFICES ASSUME Placed, Owned, [Next]_vars PROVE Owned'
    OBVIOUS
  <1>1. CASE UNCHANGED <<call, shared, alone>>
    BY <1>1 DEF Owned, Touches
  <1>2. CASE UNCHANGED vars
    BY <1>1, <1>2 DEF vars, history
  <1>3. CASE Next
    <2>1. PICK t \in Threads : Step(t)
      BY <1>3 DEF Next
    <2>2. Call(t) \/ Return(t) \/ Sync(t) \/ UNCHANGED <<call, shared, alone>>
      BY <2>1 DEF Step, Mark, Drive, DriveFails, Rollback, Notify, ReadPin, ReadFails,
                  Snapshot, NextValve, EndForce, history
    <2>3. QED
      BY <1>1, <2>2, OwnedCall, OwnedReturn, OwnedSync
  <1>4. QED
    BY <1>2, <1>3

-----------------------------------------------------------------------------
(* Agree: a step of t disturbs at most the valve t works on.               *)

\* A step that leaves alone the mark and the pin of v and who is between
\* them keeps what is known of v.
LEMMA AgreeFrame ==
  ASSUME NEW v \in Valves, AgreeOn(v),
         v \in mask' <=> v \in mask, pin'[v] = pin[v],
         \A u \in Threads : InBetween(u, v)' <=> InBetween(u, v),
         \A u \in Threads : InBetween(u, v) => (want'[u] <=> want[u])
  PROVE  AgreeOn(v)'
  <1>1. IsOpen(v)' <=> IsOpen(v)
    BY DEF IsOpen, Level
  <1>2. QED
    BY <1>1, Zenon DEF AgreeOn

\* Steps that operate on no pin and no mark.
LEMMA AgreeOutside ==
  ASSUME Placed, Agree, NEW t \in Threads, Call(t) \/ Return(t) \/ Snapshot(t) \/ NextValve(t) \/ EndForce(t)
  PROVE  Agree'
  <1>1. /\ UNCHANGED <<mask, pin>> /\ shared \subseteq shared'
        /\ pc[t] \notin {"drive", "rollback"} /\ pc'[t] \notin {"drive", "rollback"}
    BY DEF Call, Meet, Return, Snapshot, NextValve, EndForce, Goto, history, Placed
  <1>2. ASSUME NEW u \in Threads, u # t
        PROVE  pc'[u] = pc[u] /\ valve'[u] = valve[u] /\ want'[u] = want[u]
    BY <1>2 DEF Call, Return, Snapshot, NextValve, EndForce, Goto, Placed
  <1>3. ASSUME NEW v \in Valves, v \notin shared'
        PROVE  AgreeOn(v)'
    <2>1. AgreeOn(v)
      BY <1>1, <1>3 DEF Agree
    <2>2. ASSUME NEW u \in Threads
          PROVE  /\ InBetween(u, v)' <=> InBetween(u, v)
                 /\ InBetween(u, v) => (want'[u] <=> want[u])
      BY <1>1, <1>2 DEF InBetween
    <2>3. QED
      BY <1>1, <2>1, <2>2, AgreeFrame
  <1>4. QED
    BY <1>3 DEF Agree

\* Whoever else is between mark and pin of the valve t works on: nobody,
\* if the valve is t's own.
LEMMA NobodyElse ==
  ASSUME Placed, Owned, NEW t \in Threads, pc[t] \in AtWork, valve[t] \notin shared \/ alone[t],
         NEW u \in Threads, u # t
  PROVE  ~InBetween(u, valve[t])
  BY Sole DEF InBetween, AtWork

LEMMA AgreeInner ==
  ASSUME Placed, Owned, Agree, SeenHolds, NEW t \in Threads, Inner(t)
  PROVE  Agree'
  <1>1. /\ UNCHANGED <<call, valve, want>> /\ pc[t] \in AtWork /\ valve[t] \in Valves
        /\ \A u \in Threads : u # t => pc'[u] = pc[u]
    <2>1. pc[t] \in AtWork
      BY DEF Inner, Mark, Drive, DriveFails, Rollback, Notify, ReadPin, ReadFails, Sync, AtWork
    <2>2. UNCHANGED <<call, valve, want>>
      BY DEF Inner, Mark, Drive, DriveFails, Rollback, Notify, ReadPin, ReadFails, Sync
    <2>3. \A u \in Threads : u # t => pc'[u] = pc[u]
      BY DEF Inner, Mark, Drive, DriveFails, Rollback, Notify, ReadPin, ReadFails, Sync, Finish, Goto, Placed
    <2>4. QED
      BY <2>1, <2>2, <2>3, MarkedValves
  <1> PICK w \in Valves : w = valve[t]
    BY <1>1
  <1>2. ASSUME NEW v \in Valves, v # w
        PROVE  (v \in mask' <=> v \in mask) /\ pin'[v] = pin[v] /\ (v \in shared' <=> v \in shared)
    BY <1>2 DEF Inner, Mark, Drive, DriveFails, Rollback, Notify, ReadPin, ReadFails, Sync, Marked, history, Placed
  <1>3. ASSUME NEW v \in Valves, v # w, v \notin shared'
        PROVE  AgreeOn(v)'
    <2>1. AgreeOn(v)
      BY <1>2, <1>3 DEF Agree
    <2>2. ASSUME NEW u \in Threads
          PROVE  /\ InBetween(u, v)' <=> InBetween(u, v)
                 /\ InBetween(u, v) => (want'[u] <=> want[u])
      BY <1>1, <1>3 DEF InBetween
    <2>3. QED
      BY <1>2, <1>3, <2>1, <2>2, AgreeFrame
  <1>4. ASSUME w \notin shared'
        PROVE  AgreeOn(w)'
    <2>1. w \notin shared \/ alone[t]
      BY <1>4 DEF Inner, Mark, Drive, DriveFails, Rollback, Notify, ReadPin, ReadFails, Sync, history
    <2>2. \A u \in Threads : u # t => ~InBetween(u, w) /\ ~InBetween(u, w)'
      <3>1. \A u \in Threads : u # t => ~InBetween(u, w)
        BY <1>1, <2>1, NobodyElse
      <3>2. QED
        BY <1>1, <3>1 DEF InBetween
    <2>3. CASE Sync(t)
      <3>1. seen[t] <=> IsOpen(w)
        BY <2>1, <2>3 DEF SeenHolds, Sync
      <3>2. UNCHANGED pin /\ (w \in mask' <=> seen[t])
        BY <2>3 DEF Sync, Marked
      <3>3. ~InBetween(t, w)'
        BY <2>3 DEF InBetween, Sync, Finish, Goto, Placed
      <3>4. QED
        BY <2>2, <3>1, <3>2, <3>3 DEF AgreeOn, IsOpen
    <2>4. CASE ~Sync(t)
      <3>1. w \notin shared /\ AgreeOn(w)
        BY <1>1, <1>4, <2>4 DEF Inner, Mark, Drive, DriveFails, Rollback, Notify, ReadPin, ReadFails, history, Agree
      <3>2. CASE Mark(t)
        <4>1. w \in mask <=> IsOpen(w)
          BY <2>2, <3>1, <3>2 DEF AgreeOn, InBetween, Mark
        <4>2. UNCHANGED pin /\ (IsOpen(w)' <=> IsOpen(w))
          BY <1>1, <3>2 DEF Mark, IsOpen
        <4>3. CASE (w \in mask) = want[t]
          <5>1. UNCHANGED mask /\ ~InBetween(t, w)'
            BY <3>2, <4>3 DEF Mark, Finish, Goto, InBetween, Placed
          <5>2. QED
            BY <2>2, <4>1, <4>2, <5>1 DEF AgreeOn
        <4>4. CASE (w \in mask) # want[t]
          <5>1. /\ mask' = Marked(w, want[t])
                /\ InBetween(t, w)'
            BY <1>1, <3>2, <4>4 DEF Mark, Goto, InBetween, Placed
          <5>2. want[t] \in BOOLEAN
            BY DEF Placed
          <5>3. (w \in mask' <=> want[t]) /\ (w \in mask <=> ~want[t])
            BY <4>4, <5>1, <5>2 DEF Marked
          <5>4. QED
            BY <1>1, <2>2, <4>1, <4>2, <5>1, <5>3 DEF AgreeOn
        <4>5. QED
          BY <4>3, <4>4
      <3>3. CASE Drive(t)
        <4>1. InBetween(t, w) /\ UNCHANGED mask /\ pin'[w] = Level(w, want[t])
          BY <1>1, <3>3 DEF Drive, InBetween, Placed
        <4>2. ~InBetween(t, w)'
          BY <3>3 DEF Drive, InBetween, Goto, Placed
        <4>3. IsOpen(w)' <=> want[t]
          BY <1>1, <4>1, LevelOpens DEF IsOpen, Placed
        <4>4. w \in mask <=> want[t]
          BY <3>1, <4>1 DEF AgreeOn
        <4>5. QED
          BY <2>2, <4>1, <4>2, <4>3, <4>4 DEF AgreeOn
      <3>4. CASE Rollback(t)
        <4>1. InBetween(t, w) /\ UNCHANGED pin /\ mask' = Marked(w, ~want[t])
          BY <1>1, <3>4 DEF Rollback, InBetween
        <4>2. ~InBetween(t, w)'
          BY <3>4 DEF Rollback, Finish, InBetween, Goto, Placed
        <4>3. IsOpen(w)' <=> ~want[t]
          BY <1>1, <3>1, <4>1 DEF IsOpen, AgreeOn, Level
        <4>4. w \in mask' <=> ~want[t]
          BY <4>1 DEF Marked
        <4>5. QED
          BY <2>2, <4>2, <4>3, <4>4 DEF AgreeOn
      <3>5. CASE DriveFails(t) \/ Notify(t) \/ ReadPin(t) \/ ReadFails(t)
        <4>1. UNCHANGED <<mask, pin>>
          BY <3>5 DEF DriveFails, Notify, ReadPin, ReadFails
        <4>2. InBetween(t, w)' <=> InBetween(t, w)
          BY <1>1, <3>5 DEF DriveFails, Notify, ReadPin, ReadFails, InBetween, Finish, Goto, Placed
        <4>3. QED
          BY <1>1, <2>2, <3>1, <4>1, <4>2, AgreeFrame
      <3>6. QED
        BY <2>4, <3>2, <3>3, <3>4, <3>5 DEF Inner
    <2>5. QED
      BY <2>3, <2>4
  <1>5. QED
    BY <1>3, <1>4 DEF Agree

LEMMA AgreeInv == Placed /\ Owned /\ Agree /\ SeenHolds /\ [Next]_vars => Agree'
  <1> SUFFICES ASSUME Placed, Owned, Agree, SeenHolds, [Next]_vars PROVE Agree'
    OBVIOUS
  <1>1. CASE UNCHANGED vars
    BY <1>1 DEF vars, history, Agree, AgreeOn, InBetween, IsOpen, Level
  <1>2. CASE Next
    <2>1. PICK t \in Threads : Step(t)
      BY <1>2 DEF Next
    <2>2. Inner(t) \/ Call(t) \/ Return(t) \/ Snapshot(t) \/ NextValve(t) \/ EndForce(t)
      BY <2>1 DEF Step, Inner
    <2>3. QED
      BY <2>2, AgreeOutside, AgreeInner
  <1>3. QED
    BY <1>1, <1>2

-----------------------------------------------------------------------------
(* SeenHolds.                                                              *)

\* A thread that writes a pin is not the one that read it, and a thread that
\* takes a valve out of shared has it to itself.
LEMMA SeenStep ==
  ASSUME Placed, Owned, SeenHolds, NEW t \in Threads, Step(t)
  PROVE  SeenHolds'
  <1> SUFFICES ASSUME NEW u \in Threads, pc'[u] = "sync", alone'[u] \/ valve'[u] \notin shared'
               PROVE  seen'[u] <=> IsOpen(valve[u])'
    BY DEF SeenHolds
  <1>1. CASE u = t
    <2>1. ReadPin(t)
      BY <1>1 DEF Step, Call, Mark, Drive, DriveFails, Rollback, Notify, ReadPin, ReadFails, Sync,
                  Snapshot, NextValve, EndForce, Return, Finish, Goto, Placed
    <2>2. UNCHANGED <<pin, valve>> /\ seen' = [seen EXCEPT ![t] = IsOpen(valve[t])]
      BY <2>1 DEF ReadPin
    <2>3. IsOpen(valve[t])' <=> IsOpen(valve[t])
      BY <2>2 DEF IsOpen
    <2>4. seen'[t] = IsOpen(valve[t])
      BY <2>2, Zenon DEF Placed
    <2>5. QED
      BY <1>1, <2>3, <2>4
  <1>2. CASE u # t
    <2>1. pc'[u] = pc[u] /\ valve'[u] = valve[u] /\ seen'[u] = seen[u]
      BY <1>2 DEF Step, Call, Mark, Drive, DriveFails, Rollback, Notify, ReadPin, ReadFails, Sync,
                  Snapshot, NextValve, EndForce, Return, Finish, Goto, Placed
    <2>2. pc[u] \in AtWork /\ valve[u] \in Valves
      BY <2>1 DEF AtWork, Placed
    <2>3. alone[u] \/ valve[u] \notin shared
      <3>1. CASE Call(t)
        <4>1. (alone'[u] => alone[u]) /\ shared \subseteq shared'
          BY <1>2, <3>1 DEF Call, Meet
        <4>2. QED
          BY <2>1, <4>1
      <3>2. CASE Return(t)
        BY <1>2, <2>1, <3>2 DEF Return, Placed
      <3>3. CASE Sync(t)
        <4>1. pc[t] \in AtWork /\ UNCHANGED alone
              /\ shared' = IF alone[t] THEN shared \ {valve[t]} ELSE shared
          BY <3>3 DEF Sync, AtWork
        <4>2. valve[u] = valve[t] /\ alone[t] => u = t
          BY <2>2, <4>1, Sole
        <4>3. QED
          BY <1>2, <2>1, <4>1, <4>2
      <3>4. CASE UNCHANGED <<alone, shared>>
        BY <2>1, <3>4
      <3>5. QED
        BY <3>1, <3>2, <3>3, <3>4
           DEF Step, Mark, Drive, DriveFails, Rollback, Notify, ReadPin, ReadFails,
               Snapshot, NextValve, EndForce, history
    <2>4. seen[u] <=> IsOpen(valve[u])
      BY <2>1, <2>3 DEF SeenHolds
    <2>5. pin'[valve[u]] = pin[valve[u]]
      <3>1. CASE Drive(t)
        <4>1. pc[t] \in AtWork /\ pin' = [pin EXCEPT ![valve[t]] = Level(valve[t], want[t])]
          BY <3>1 DEF Drive, AtWork
        <4>2. valve[t] # valve[u]
          BY <1>2, <2>2, <2>3, <4>1, Sole
        <4>3. QED
          BY <2>2, <4>1, <4>2 DEF Placed
      <3>2. CASE UNCHANGED pin
        BY <3>2
      <3>3. QED
        BY <3>1, <3>2 DEF Step, Call, Mark, DriveFails, Rollback, Notify, ReadPin, ReadFails, Sync,
                          Snapshot, NextValve, EndForce, Return
    <2>6. QED
      BY <2>1, <2>4, <2>5 DEF IsOpen, Level
  <1>3. QED
    BY <1>1, <1>2

LEMMA SeenInv == Placed /\ Owned /\ SeenHolds /\ [Next]_vars => SeenHolds'
  <1> SUFFICES ASSUME Placed, Owned, SeenHolds, [Next]_vars PROVE SeenHolds'
    OBVIOUS
  <1>1. CASE UNCHANGED vars
    BY <1>1 DEF vars, history, SeenHolds, IsOpen, Level
  <1>2. CASE Next
    BY <1>2, SeenStep DEF Next
  <1>3. QED
    BY <1>1, <1>2

-----------------------------------------------------------------------------
(* The theorems.                                                           *)

LEMMA InitInv == Init => IInv
  <1> SUFFICES ASSUME Init PROVE IInv
    OBVIOUS
  <1>1. Placed
    BY InitPlaced
  <1>2. Owned
    BY DEF Init, Owned, Touches
  <1>3. Agree
    <2>1. ASSUME NEW v \in Valves
          PROVE  AgreeOn(v)
      <3>1. v \notin mask /\ pin[v] = Level(v, FALSE)
        BY DEF Init
      <3>2. ~IsOpen(v)
        BY <3>1, LevelOpens DEF IsOpen
      <3>3. \A t \in Threads : ~InBetween(t, v)
        BY DEF Init, InBetween
      <3>4. QED
        BY <3>1, <3>2, <3>3, Zenon DEF AgreeOn
    <2>2. QED
      BY <2>1 DEF Agree
  <1>4. SeenHolds
    BY DEF Init, SeenHolds
  <1>5. QED
    BY <1>1, <1>2, <1>3, <1>4 DEF IInv

\* IInv holds in every state the threads can reach, whatever their number and
\* the calls they make (digital_output.c:92-297).
THEOREM Invariance == Spec => []IInv
  <1>1. IInv /\ [Next]_vars => IInv'
    BY PlacedInv, OwnedInv, AgreeInv, SeenInv DEF IInv
  <1>2. QED
    BY InitInv, <1>1, PTL DEF Spec

LEMMA AgreeQuiet == IInv => MaskMatchesPins
  <1> SUFFICES ASSUME IInv, NEW v \in Valves, Quiet(v), v \notin shared
               PROVE  v \in mask <=> IsOpen(v)
    BY DEF MaskMatchesPins
  <1>1. \A t \in Threads : ~InBetween(t, v)
    BY DEF IInv, Placed, Quiet, InBetween, AtWork
  <1>2. AgreeOn(v)
    BY DEF IInv, Agree
  <1>3. QED
    BY <1>1, <1>2, Zenon DEF AgreeOn

\* The mask and the pin of a valve agree whenever nobody operates on it,
\* unless two calls overlapped on it and no status call was alone with it
\* since, for any number of threads and valves (digital_output.c:92-240).
THEOREM MaskAgrees == Spec => []MaskMatchesPins
  BY Invariance, AgreeQuiet, PTL

-----------------------------------------------------------------------------
(* The callback.                                                           *)

\* Between the pin and its callback, the callback has still to tell it.
Telling(t, v) == valve[t] = v /\ pc[t] = "notify"
ToldOn(v) ==
  /\ (\A t \in Threads : ~Telling(t, v)) => (told[v] <=> IsOpen(v))
  /\ \A t \in Threads : Telling(t, v) => (IsOpen(v) <=> want[t])
Told ==
  /\ told = [v \in Valves |-> told[v]] /\ shared \subseteq mixed
  /\ \A v \in Valves \ mixed : ToldOn(v)

LEMMA ToldFrame ==
  ASSUME NEW v \in Valves, ToldOn(v),
         told'[v] = told[v], pin'[v] = pin[v],
         \A u \in Threads : Telling(u, v)' <=> Telling(u, v),
         \A u \in Threads : Telling(u, v) => (want'[u] <=> want[u])
  PROVE  ToldOn(v)'
  <1>1. IsOpen(v)' <=> IsOpen(v)
    BY DEF IsOpen, Level
  <1>2. (\A t \in Threads : ~Telling(t, v)') => (told'[v] <=> IsOpen(v)')
    <2>1. told'[v] <=> told[v]
      OBVIOUS
    <2>2. QED
      BY <1>1, <2>1, Zenon DEF ToldOn
  <1>3. QED
    BY <1>1, <1>2, Zenon DEF ToldOn

LEMMA ToldOutside ==
  ASSUME Placed, Told, NEW t \in Threads, Call(t) \/ Return(t) \/ Snapshot(t) \/ NextValve(t) \/ EndForce(t)
  PROVE  Told'
  <1>1. /\ UNCHANGED <<told, pin>> /\ mixed \subseteq mixed' /\ shared' \subseteq mixed'
        /\ pc[t] # "notify" /\ pc'[t] # "notify"
    BY DEF Call, Meet, Return, Snapshot, NextValve, EndForce, Goto, history, Placed, Told
  <1>2. ASSUME NEW u \in Threads, u # t
        PROVE  pc'[u] = pc[u] /\ valve'[u] = valve[u] /\ want'[u] = want[u]
    BY <1>2 DEF Call, Return, Snapshot, NextValve, EndForce, Goto, Placed
  <1>3. ASSUME NEW v \in Valves, v \notin mixed'
        PROVE  ToldOn(v)'
    <2>1. ToldOn(v)
      BY <1>1, <1>3 DEF Told
    <2>2. ASSUME NEW u \in Threads
          PROVE  /\ Telling(u, v)' <=> Telling(u, v)
                 /\ Telling(u, v) => (want'[u] <=> want[u])
      BY <1>1, <1>2 DEF Telling
    <2>3. QED
      BY <1>1, <2>1, <2>2, ToldFrame
  <1>4. QED
    BY <1>1, <1>3 DEF Told

LEMMA ToldInner ==
  ASSUME Placed, Owned, Told, NEW t \in Threads, Inner(t)
  PROVE  Told'
  <1>1. /\ UNCHANGED <<call, valve, want>> /\ pc[t] \in AtWork /\ valve[t] \in Valves
        /\ \A u \in Threads : u # t => pc'[u] = pc[u]
    <2>1. pc[t] \in AtWork
      BY DEF Inner, Mark, Drive, DriveFails, Rollback, Notify, ReadPin, ReadFails, Sync, AtWork
    <2>2. UNCHANGED <<call, valve, want>>
      BY DEF Inner, Mark, Drive, DriveFails, Rollback, Notify, ReadPin, ReadFails, Sync
    <2>3. \A u \in Threads : u # t => pc'[u] = pc[u]
      BY DEF Inner, Mark, Drive, DriveFails, Rollback, Notify, ReadPin, ReadFails, Sync, Finish, Goto, Placed
    <2>4. QED
      BY <2>1, <2>2, <2>3, MarkedValves
  <1>2. UNCHANGED mixed /\ shared' \subseteq shared
    BY DEF Inner, Mark, Drive, DriveFails, Rollback, Notify, ReadPin, ReadFails, Sync, history
  <1>3. told' = [v \in Valves |-> told'[v]]
    BY DEF Told, Inner, Mark, Drive, DriveFails, Rollback, Notify, ReadPin, ReadFails, Sync, history
  <1> PICK w \in Valves : w = valve[t]
    BY <1>1
  <1>4. ASSUME NEW v \in Valves \ mixed, v # w
        PROVE  ToldOn(v)'
    <2>1. told'[v] = told[v] /\ pin'[v] = pin[v]
      BY <1>4 DEF Inner, Mark, Drive, DriveFails, Rollback, Notify, ReadPin, ReadFails, Sync, history, Placed, Told
    <2>2. ASSUME NEW u \in Threads
          PROVE  /\ Telling(u, v)' <=> Telling(u, v)
                 /\ Telling(u, v) => (want'[u] <=> want[u])
      BY <1>1, <1>4 DEF Telling
    <2>3. QED
      BY <1>4, <2>1, <2>2, ToldFrame DEF Told
  <1>5. ASSUME w \notin mixed
        PROVE  ToldOn(w)'
    <2>1. ToldOn(w) /\ w \notin shared
      BY <1>5 DEF Told
    <2>2. \A u \in Threads : u # t => ~Telling(u, w) /\ ~Telling(u, w)'
      BY <1>1, <2>1, Sole DEF Telling, AtWork
    <2>3. want[t] \in BOOLEAN
      BY DEF Placed
    <2>4. CASE Drive(t)
      <3>1. pin'[w] = Level(w, want[t]) /\ Telling(t, w)'
        BY <1>1, <2>4 DEF Drive, Telling, Goto, Placed
      <3>2. IsOpen(w)' <=> want[t]
        BY <2>3, <3>1, LevelOpens DEF IsOpen
      <3>3. want'[t] <=> want[t]
        BY <1>1
      <3>4. QED
        BY <2>2, <3>1, <3>2, <3>3, Zenon DEF ToldOn
    <2>5. CASE Notify(t)
      <3>1. Telling(t, w) /\ UNCHANGED pin /\ ~Telling(t, w)'
        BY <2>5 DEF Notify, Telling, Finish, Goto, Placed
      <3>2. IsOpen(w)' <=> want[t]
        BY <2>1, <3>1 DEF ToldOn, IsOpen, Level
      <3>3. told'[w] = want[t]
        BY <2>5 DEF Notify, Told
      <3>4. told'[w] <=> want[t]
        BY <3>3
      <3>5. QED
        BY <2>2, <3>1, <3>2, <3>4, Zenon DEF ToldOn
    <2>6. CASE Mark(t) \/ DriveFails(t) \/ Rollback(t) \/ ReadPin(t) \/ ReadFails(t) \/ Sync(t)
      <3>1. UNCHANGED <<pin, told>> /\ pc[t] # "notify"
        BY <2>6 DEF Mark, DriveFails, Rollback, ReadPin, ReadFails, Sync, history
      <3>2. pc'[t] # "notify"
        BY <2>6 DEF Mark, DriveFails, Rollback, ReadPin, ReadFails, Sync, Finish, Goto, Placed
      <3>3. \A u \in Threads : ~Telling(u, w) /\ ~Telling(u, w)'
        BY <2>2, <3>1, <3>2 DEF Telling
      <3>4. QED
        BY <2>1, <3>1, <3>3, ToldFrame
    <2>7. QED
      BY <2>4, <2>5, <2>6 DEF Inner
  <1>6. QED
    BY <1>2, <1>3, <1>4, <1>5 DEF Told

LEMMA ToldInv == Placed /\ Owned /\ Told /\ [Next]_vars => Told'
  <1> SUFFICES ASSUME Placed, Owned, Told, [Next]_vars PROVE Told'
    OBVIOUS
  <1>1. CASE UNCHANGED vars
    <2>1. UNCHANGED <<told, pin, pc, valve, want, shared, mixed>>
      BY <1>1 DEF vars, history
    <2>2. ASSUME NEW v \in Valves \ mixed PROVE ToldOn(v)'
      BY <2>1, ToldFrame DEF Told, Telling
    <2>3. QED
      BY <2>1, <2>2 DEF Told
  <1>2. CASE Next
    <2>1. PICK t \in Threads : Step(t)
      BY <1>2 DEF Next
    <2>2. Inner(t) \/ Call(t) \/ Return(t) \/ Snapshot(t) \/ NextValve(t) \/ EndForce(t)
      BY <2>1 DEF Step, Inner
    <2>3. QED
      BY <2>2, ToldOutside, ToldInner
  <1>3. QED
    BY <1>1, <1>2

\* The last state the callback gave of a valve is that of its pin, for any
\* number of threads and valves, unless two calls ever overlapped on it
\* (digital_output.c:133-136, :180-183).
THEOREM CallbackIsTrue == Spec => []CallbackToldTheTruth
  <1>1. Init => Told
    <2> SUFFICES ASSUME Init PROVE Told
      OBVIOUS
    <2>1. ASSUME NEW v \in Valves PROVE ToldOn(v)
      <3>1. pin[v] = Level(v, FALSE) /\ ~told[v]
        BY DEF Init
      <3>2. ~IsOpen(v)
        BY <3>1, LevelOpens DEF IsOpen
      <3>3. \A t \in Threads : ~Telling(t, v)
        BY DEF Init, Telling
      <3>4. QED
        BY <3>1, <3>2, <3>3, Zenon DEF ToldOn
    <2>2. told = [v \in Valves |-> told[v]] /\ shared \subseteq mixed
      BY DEF Init
    <2>3. QED
      BY <2>1, <2>2 DEF Told
  <1>2. IInv /\ Told /\ [Next]_vars => Told'
    BY ToldInv DEF IInv
  <1>3. IInv /\ Told => CallbackToldTheTruth
    <2> SUFFICES ASSUME IInv, Told, NEW v \in Valves, Quiet(v), v \notin mixed
                 PROVE  told[v] <=> IsOpen(v)
      BY DEF CallbackToldTheTruth
    <2>1. \A t \in Threads : ~Telling(t, v)
      BY DEF IInv, Placed, Quiet, Telling, AtWork
    <2>2. QED
      BY <2>1, Zenon DEF Told, ToldOn
  <1>4. QED
    BY <1>1, <1>2, <1>3, Invariance, PTL DEF Spec

-----------------------------------------------------------------------------
(* A force that nobody disturbs.                                           *)

Undisturbed(t) == call[t] # None /\ call[t].op = "force" /\ alone[t] /\ ~failed[t]

\* The loop has still to visit v.
Left(t, v) == \E i \in 1 .. Len(rest[t]) : rest[t][i] = v

\* Each valve is as asked once the loop has visited it, and before if the
\* mask it looked at was.
Forced(t) ==
  /\ pc[t] # "rollback"
  /\ pc[t] = "return" => rest[t] = <<>>
  /\ pc[t] = "mark" => (want[t] <=> valve[t] \in call[t].mask)
  /\ pc[t] # "snapshot" =>
       \A v \in Valves :
         /\ (v \in snap[t] <=> v \in call[t].mask) => (v \in mask <=> v \in call[t].mask)
         /\ ~Left(t, v) /\ ~(pc[t] = "mark" /\ valve[t] = v) => (v \in mask <=> v \in call[t].mask)
Forcing ==
  /\ failed = [t \in Threads |-> failed[t]] /\ snap = [t \in Threads |-> snap[t]]
  /\ \A t \in Threads : Undisturbed(t) => Forced(t)

\* The head of the loop, and what is left after it.
LEMMA LeftAfter ==
  ASSUME Placed, NEW t \in Threads, rest[t] # <<>>, rest'[t] = Tail(rest[t]), NEW v
  PROVE  Left(t, v) <=> v = Head(rest[t]) \/ Left(t, v)'
  <1>1. /\ rest[t] \in Seq(Valves) /\ Len(rest[t]) \in Nat /\ Len(rest[t]) >= 1
        /\ Head(rest[t]) = rest[t][1] /\ Len(rest'[t]) = Len(rest[t]) - 1
        /\ \A i \in 1 .. Len(rest'[t]) : rest'[t][i] = rest[t][i + 1]
    BY DEF Placed
  <1>2. ASSUME Left(t, v), v # Head(rest[t]) PROVE Left(t, v)'
    <2>1. PICK i \in 1 .. Len(rest[t]) : rest[t][i] = v
      BY <1>2 DEF Left
    <2>2. i - 1 \in 1 .. Len(rest'[t]) /\ (i - 1) + 1 = i
      BY <1>1, <1>2, <2>1
    <2>3. rest'[t][i - 1] = v
      BY <1>1, <2>1, <2>2
    <2>4. QED
      BY <2>2, <2>3 DEF Left
  <1>3. ASSUME Left(t, v)' PROVE Left(t, v)
    <2>1. PICK i \in 1 .. Len(rest'[t]) : rest'[t][i] = v
      BY <1>3 DEF Left
    <2>2. i + 1 \in 1 .. Len(rest[t]) /\ rest[t][i + 1] = v
      BY <1>1, <2>1
    <2>3. QED
      BY <2>2 DEF Left
  <1>4. v = Head(rest[t]) => Left(t, v)
    BY <1>1 DEF Left
  <1>5. QED
    BY <1>2, <1>3, <1>4

\* The steps of others leave a force that goes on undisturbed alone.
LEMMA ForcedByOthers ==
  ASSUME Placed, Owned, Forcing, NEW t \in Threads, NEW u \in Threads, u # t,
         Step(u), Undisturbed(t)'
  PROVE  Forced(t)'
  <1>1. /\ pc'[t] = pc[t] /\ call'[t] = call[t] /\ valve'[t] = valve[t] /\ want'[t] = want[t]
        /\ rest'[t] = rest[t]
    BY DEF Step, Call, Mark, Drive, DriveFails, Rollback, Notify, ReadPin, ReadFails, Sync,
           Snapshot, NextValve, EndForce, Return, Finish, Goto, Placed
  <1>2. snap'[t] = snap[t] /\ failed'[t] = failed[t]
    BY DEF Step, Call, Meet, Mark, Drive, DriveFails, Rollback, Notify, ReadPin, ReadFails, Sync,
           Snapshot, NextValve, EndForce, Return, Forcing, history
  <1>3. alone[t]
    <2>1. CASE Call(u)
      BY <2>1 DEF Undisturbed, Call, Meet
    <2>2. CASE Return(u)
      BY <2>2 DEF Undisturbed, Return, Placed
    <2>3. CASE UNCHANGED alone
      BY <2>3 DEF Undisturbed
    <2>4. QED
      BY <2>1, <2>2, <2>3 DEF Step, Mark, Drive, DriveFails, Rollback, Notify, ReadPin, ReadFails, Sync,
         Snapshot, NextValve, EndForce, history
  <1>4. Undisturbed(t)
    BY <1>1, <1>2, <1>3 DEF Undisturbed
  <1>5. Touches(call[t]) = Valves
    BY <1>4 DEF Undisturbed, Touches
  <1>6. pc[u] \notin AtWork
    BY <1>3, <1>5 DEF Placed, Owned
  <1>7. UNCHANGED mask
    BY <1>6 DEF AtWork, Step, Call, Mark, Drive, DriveFails, Rollback, Notify, ReadPin, ReadFails, Sync,
       Snapshot, NextValve, EndForce, Return
  <1>8. Forced(t)
    BY <1>4 DEF Forcing
  <1>9. \A v : Left(t, v)' <=> Left(t, v)
    BY <1>1 DEF Left
  <1>10. QED
    BY <1>1, <1>2, <1>7, <1>8, <1>9 DEF Forced

LEMMA ForcedBySelf ==
  ASSUME Placed, Owned, Forcing, NEW t \in Threads, Step(t), Undisturbed(t)'
  PROVE  Forced(t)'
  <1>0. pc[t] \in Labels /\ want[t] \in BOOLEAN
    BY DEF Placed
  <1>1. CASE Call(t)
    <2>1. PICK c \in CallsOf[t] :
            /\ call' = [call EXCEPT ![t] = c]
            /\ c.op = "force" => Goto(t, "snapshot")
      <3>1. PICK c \in CallsOf[t] :
          /\ call' = [call EXCEPT ![t] = c]
          /\ \/ c.op \in {"open", "close"}
             \/ c.op = "status"
             \/ c.op = "force" /\ Goto(t, "snapshot")
        BY <1>1 DEF Call
      <3>2. QED
        BY <3>1
    <2>2. call'[t].op = "force" /\ call'[t] = c
      BY <2>1 DEF Undisturbed, Placed
    <2>3. pc'[t] = "snapshot"
      BY <2>1, <2>2 DEF Goto, Placed
    <2>4. QED
      BY <2>3 DEF Forced
  <1>2. CASE Return(t)
    BY <1>2 DEF Return, Undisturbed, Placed
  <1>3. ASSUME ~Call(t), ~Return(t)
        PROVE  Forced(t)'
    <2>0. Snapshot(t) \/ NextValve(t) \/ EndForce(t) \/ Inner(t)
      BY <1>3 DEF Step, Inner
    <2>1. UNCHANGED <<call, alone>> /\ (failed[t] => failed'[t])
      BY <1>3 DEF Step, Mark, Drive, DriveFails, Rollback, Notify, ReadPin, ReadFails, Sync,
         Snapshot, NextValve, EndForce, history, Forcing
    <2>2. Undisturbed(t)
      BY <2>1 DEF Undisturbed
    <2>3. Forced(t) /\ call[t].op = "force"
      BY <2>2 DEF Forcing, Undisturbed
    <2> DEFINE m == call[t].mask
    <2>4. CASE Snapshot(t)
      <3>1. pc'[t] = "next" /\ snap'[t] = mask /\ rest'[t] = ConfigList /\ UNCHANGED mask
        BY <2>4 DEF Snapshot, Goto, Placed, Forcing
      <3>2. ASSUME NEW v \in Valves PROVE Left(t, v)'
        <4>1. PICK i \in DOMAIN ConfigList : ConfigList[i] = v
          BY ValvesAssumption
        <4>2. i \in 1 .. Len(rest'[t]) /\ rest'[t][i] = v
          BY <3>1, <4>1, ValvesAssumption
        <4>3. QED
          BY <4>2 DEF Left
      <3>3. QED
        BY <2>1, <3>1, <3>2 DEF Forced
    <2>5. CASE NextValve(t)
      <3> DEFINE h == Head(rest[t])
      <3>1. /\ pc[t] = "next" /\ rest[t] # <<>> /\ rest'[t] = Tail(rest[t])
            /\ UNCHANGED <<mask, snap>>
        BY <2>5 DEF NextValve, Placed
      <3>2. \A v : Left(t, v) <=> v = h \/ Left(t, v)'
        BY <3>1, LeftAfter
      <3>3. CASE (h \in m) # (h \in snap[t])
        <4>1. valve'[t] = h /\ pc'[t] = "mark"
          BY <2>5, <3>3 DEF NextValve, Goto, Placed
        <4>2. want'[t] = (h \in m)
          BY <2>5, <3>3, Zenon DEF NextValve, Placed
        <4>3. want'[t] <=> h \in m
          BY <4>2
        <4>4. QED
          BY <2>1, <2>3, <3>1, <3>2, <4>1, <4>3 DEF Forced
      <3>4. CASE (h \in m) = (h \in snap[t])
        <4>1. pc'[t] = "next"
          BY <2>5, <3>1, <3>4 DEF NextValve
        <4>2. rest[t] \in Seq(Valves)
          BY DEF Placed
        <4>3. h \in Valves
          BY <3>1, <4>2
        <4>4. h \in mask <=> h \in m
          BY <2>3, <3>1, <3>4, <4>3 DEF Forced
        <4>5. QED
          BY <2>1, <2>3, <3>1, <3>2, <4>1, <4>4 DEF Forced
      <3>5. QED
        BY <3>3, <3>4
    <2>6. CASE EndForce(t)
      <3>1. pc[t] = "next" /\ pc'[t] = "return" /\ rest[t] = <<>> /\ UNCHANGED <<mask, snap, rest>>
        BY <2>6 DEF EndForce, Goto, Placed
      <3>2. \A v : Left(t, v)' <=> Left(t, v)
        BY <3>1 DEF Left
      <3>3. QED
        BY <2>1, <2>3, <3>1, <3>2 DEF Forced
    <2>7. CASE Inner(t)
      <3>1. UNCHANGED <<valve, want, snap, rest>>
        BY <2>7 DEF Inner, Mark, Drive, DriveFails, Rollback, Notify, ReadPin, ReadFails, Sync
      <3>2. pc[t] \notin {"read", "sync", "rollback"}
        BY <2>3 DEF Placed, Forced
      <3>3. ~DriveFails(t)
        BY DEF DriveFails, Undisturbed, Forcing
      <3>4. \A v : Left(t, v)' <=> Left(t, v)
        BY <3>1 DEF Left
      <3>5. CASE Mark(t)
        <4>1. pc[t] = "mark" /\ (want[t] <=> valve[t] \in m)
          BY <2>3, <3>5 DEF Mark, Forced
        <4>2. pc'[t] \in {"next", "drive"}
          BY <2>3, <3>5 DEF Mark, Finish, Goto, Placed
        <4>3. \A v \in Valves : IF v = valve[t] THEN v \in mask' <=> v \in m ELSE v \in mask' <=> v \in mask
          <5>1. CASE (valve[t] \in mask) = want[t]
            BY <3>5, <4>1, <5>1 DEF Mark
          <5>2. CASE (valve[t] \in mask) # want[t]
            <6>1. mask' = Marked(valve[t], want[t])
              BY <3>5, <5>2 DEF Mark
            <6>2. QED
              BY <4>1, <6>1 DEF Marked
          <5>3. QED
            BY <5>1, <5>2
        <4>4. QED
          BY <2>1, <2>3, <3>1, <3>4, <4>1, <4>2, <4>3 DEF Forced
      <3>6. CASE Drive(t) \/ Notify(t)
        <4>1. UNCHANGED mask /\ pc[t] \in {"drive", "notify"} /\ pc'[t] \in {"notify", "next"}
          BY <2>3, <3>6 DEF Drive, Notify, Finish, Goto, Placed
        <4>2. QED
          BY <2>1, <2>3, <3>1, <3>4, <4>1 DEF Forced
      <3>7. QED
        BY <2>7, <3>2, <3>3, <3>5, <3>6 DEF Inner, Rollback, ReadPin, ReadFails, Sync
    <2>8. QED
      BY <2>0, <2>4, <2>5, <2>6, <2>7
  <1>4. QED
    BY <1>1, <1>2, <1>3

LEMMA ForcingInv == Placed /\ Owned /\ Forcing /\ [Next]_vars => Forcing'
  <1> SUFFICES ASSUME Placed, Owned, Forcing, [Next]_vars PROVE Forcing'
    OBVIOUS
  <1>1. CASE UNCHANGED vars
    BY <1>1 DEF vars, history, Forcing, Undisturbed, Forced, Left
  <1>2. CASE Next
    <2>1. PICK u \in Threads : Step(u)
      BY <1>2 DEF Next
    <2>2. failed' = [t \in Threads |-> failed'[t]] /\ snap' = [t \in Threads |-> snap'[t]]
      BY <2>1 DEF Step, Call, Meet, Mark, Drive, DriveFails, Rollback, Notify, ReadPin, ReadFails, Sync,
           Snapshot, NextValve, EndForce, Return, Forcing, history
    <2>3. ASSUME NEW t \in Threads, Undisturbed(t)' PROVE Forced(t)'
      BY <2>1, <2>3, ForcedByOthers, ForcedBySelf
    <2>4. QED
      BY <2>2, <2>3 DEF Forcing
  <1>3. QED
    BY <1>1, <1>2

\* A force that no driver error and no other call disturbed leaves exactly the
\* valves asked for open, for any table of valves and any mask: of the valves
\* it leaves out, the mask it looked at was right (digital_output.c:262-297).
THEOREM ForceIsExact == Spec => []ForceSetsAll
  <1>1. Init => Forcing
    BY DEF Init, Forcing, Undisturbed
  <1>2. IInv /\ Forcing /\ [Next]_vars => Forcing'
    BY ForcingInv DEF IInv
  <1>3. IInv /\ Forcing => ForceSetsAll
    <2> SUFFICES ASSUME IInv, Forcing, NEW t \in Threads, pc[t] = "return", call[t].op = "force",
                        alone[t], ~failed[t], shared = {}
                 PROVE  mask = call[t].mask /\ \A v \in Valves : IsOpen(v) <=> v \in mask
      BY DEF ForceSetsAll
    <2>1. call[t] # None /\ call[t] \in CallsOf[t] /\ Touches(call[t]) = Valves
      BY DEF IInv, Placed, Touches
    <2>2. Forced(t) /\ rest[t] = <<>>
      BY <2>1 DEF Forcing, Undisturbed, Forced
    <2>3. \A v \in Valves : ~Left(t, v)
      BY <2>2 DEF Left
    <2>4. \A v \in Valves : v \in mask <=> v \in call[t].mask
      BY <2>2, <2>3 DEF Forced
    <2>5. mask \subseteq Valves /\ call[t].mask \subseteq Valves
      BY <2>1, ValvesAssumption DEF IInv, Placed
    <2>6. ASSUME NEW v \in Valves PROVE IsOpen(v) <=> v \in mask
      <3>1. \A u \in Threads : ~InBetween(u, v)
        BY <2>1 DEF IInv, Placed, Owned, InBetween, AtWork
      <3>2. AgreeOn(v)
        BY DEF IInv, Agree
      <3>3. QED
        BY <3>1, <3>2, Zenon DEF AgreeOn
    <2>7. QED
      BY <2>4, <2>5, <2>6
  <1>4. QED
    BY <1>1, <1>2, <1>3, Invariance, PTL DEF Spec

-----------------------------------------------------------------------------
(* What every variable is.                                                 *)

Recorded == snap \in [Threads -> SUBSET Valves] /\ shared \subseteq mixed /\ mixed \subseteq Valves

LEMMA RecordedStep == ASSUME Placed, Recorded, [Next]_vars PROVE Recorded'
<1> USE DEF Recorded
<1>1. CASE UNCHANGED <<snap, shared, mixed>> BY <1>1
<1>2. ASSUME NEW t \in Threads, Snapshot(t) \/ Return(t) PROVE Recorded'
  <2>1. UNCHANGED <<shared, mixed>> BY <1>2 DEF Snapshot, Return, history
  <2>2. snap' \in [Threads -> SUBSET Valves]
    <3>1. CASE Snapshot(t) BY <3>1 DEF Snapshot, Placed
    <3>2. CASE Return(t) BY <3>2 DEF Return
    <3> QED BY <1>2, <3>1, <3>2
  <2> QED BY <2>1, <2>2
<1>3. ASSUME NEW t \in Threads, Call(t) PROVE Recorded'
  <2>1. PICK c \in CallsOf[t] : Meet(t, c) BY <1>3 DEF Call
  <2>2. PICK on \in SUBSET Touches(c) : shared' = shared \cup on /\ mixed' = mixed \cup on BY <2>1 DEF Meet
  <2>3. Touches(c) \subseteq Valves BY CallTouches
  <2>4. snap' = snap BY <1>3 DEF Call
  <2> QED BY <2>2, <2>3, <2>4
<1>4. ASSUME NEW t \in Threads, Sync(t) PROVE Recorded'
  <2>1. shared' \subseteq shared /\ UNCHANGED <<snap, mixed>> BY <1>4 DEF Sync
  <2> QED BY <2>1
<1>5. \/ UNCHANGED <<snap, shared, mixed>>
      \/ \E t \in Threads : Snapshot(t) \/ Return(t) \/ Call(t) \/ Sync(t)
  BY DEF Next, Step, Mark, Drive, DriveFails, Rollback, Notify, ReadPin, ReadFails, NextValve, EndForce, vars, history
<1> QED BY <1>1, <1>2, <1>3, <1>4, <1>5

\* Every variable keeps its type, for any threads and valves: only valves of
\* the table are ever marked or driven (digital_output.c).
THEOREM TypeCorrect == Spec => []TypeOK
<1>1. Init => Recorded BY DEF Init, Recorded
<1>2. IInv /\ Recorded /\ [Next]_vars => Recorded' BY RecordedStep DEF IInv
<1>3. IInv /\ Recorded => TypeOK
  <2> SUFFICES ASSUME Placed, Recorded PROVE TypeOK BY DEF IInv
  <2>1. want \in [Threads -> BOOLEAN] /\ seen \in [Threads -> BOOLEAN] BY Zenon DEF Placed
  <2>2. mask \subseteq Valves /\ pin \in [Valves -> {0, 1}] /\ pc \in [Threads -> Labels] BY DEF Placed
  <2>3. \A t \in Threads : call[t] \in CallsOf[t] \cup {None} /\ (call[t] = None <=> pc[t] = "idle") BY DEF Placed
  <2>4. valve \in [Threads -> Valves \cup {None}] /\ rest \in [Threads -> Seq(Valves)] BY DEF Placed
  <2> QED BY <2>1, <2>2, <2>3, <2>4, Zenon DEF TypeOK, Recorded
<1> QED BY <1>1, <1>2, <1>3, Invariance, PTL DEF Spec
=============================================================================
