-------------------------- MODULE IsotpConnProofs ---------------------------
(***************************************************************************)
(* Proofs about IsotpConn, for any callers, messages and size of the pool: *)
(* no semaphore and no buffer is lost, whatever overlaps, and the messages *)
(* are sent in the order they were accepted.                               *)
(***************************************************************************)
EXTENDS IsotpConn, SequenceTheorems, TLAPS

ConnLabels == (ConnHoldsMsg \cup ConnHoldsConn) \cup ConnFreeOfLocks

ConnTyped ==
  /\ connSem \in [ConnSems -> {0, 1}]
  /\ connQueue \in Seq(ConnBuffers) /\ connFree \subseteq ConnBuffers
  /\ connPc \in [ConnThreads -> ConnLabels]
  /\ connBuf \in [ConnThreads -> ConnBuffers \cup {NoConn}]
  /\ connCall = [t \in ConnThreads |-> connCall[t]]

\* The call a thread is in, as far as its steps depend on it.
ConnCallFits(t, l, c) ==
  /\ l # "idle" => c \in ConnCallsOf[t]
  /\ l \in {"process_send", "look", "get", "get2", "unref"} => c.op = "process_send"
  /\ l = "transmit" => c.op = "transmit"
  /\ l = "send" => c.op = "process_send" \/ (c.op = "transmit" /\ c.msg \in ConnMessages)
ConnCalled == \A t \in ConnThreads : ConnCallFits(t, connPc[t], connCall[t])

\* When a thread has a buffer in its hands.
ConnCarries(l, c) ==
  \/ l \in {"recycle", "fill", "append", "append2", "unref", "dunref"}
  \/ l = "send" /\ c.op = "process_send"
ConnHands == \A t \in ConnThreads : connBuf[t] # NoConn <=> ConnCarries(connPc[t], connCall[t])

\* Every buffer is in one place, once.
ConnQueued(b) == \E i \in 1 .. Len(connQueue) : connQueue[i] = b
ConnHeld(b) == \E t \in ConnThreads : connBuf[t] = b
ConnPlaces ==
  /\ \A i, j \in 1 .. Len(connQueue) : connQueue[i] = connQueue[j] => i = j
  /\ \A t, u \in ConnThreads : connBuf[t] = connBuf[u] /\ connBuf[t] # NoConn => t = u
  /\ \A b \in connFree : ~ConnQueued(b) /\ ~ConnHeld(b)
  /\ \A b \in ConnBuffers : ~(ConnQueued(b) /\ ConnHeld(b))
  /\ \A b \in ConnBuffers : b \in connFree \/ ConnQueued(b) \/ ConnHeld(b)

\* The threads in the section of a semaphore, and what keeps the one of the
\* connection when there is none.
ConnHolds(s) == IF s = "msg" THEN ConnHoldsMsg ELSE ConnHoldsConn
ConnUser(t, s) == connPc[t] \in ConnHolds(s)
ConnAway == connBus # NoConn \/ connStuck

ConnKeptOf(s) ==
  /\ connSem[s] = 1 => s \in connGiven
  /\ connSem[s] = 0 /\ s \in connGiven
       => (\E t \in ConnThreads : ConnUser(t, s)) \/ (s = "conn" /\ ConnAway)
  /\ connSem[s] = 1 \/ s \notin connGiven
       => (\A t \in ConnThreads : ~ConnUser(t, s)) /\ ~(s = "conn" /\ ConnAway)
  /\ \A t, u \in ConnThreads : ConnUser(t, s) /\ ConnUser(u, s) => t = u
ConnKept ==
  /\ ConnKeptOf("msg") /\ ConnKeptOf("conn")
  /\ ConnAway => \A t \in ConnThreads : ~ConnUser(t, "conn")
  /\ ~(connBus # NoConn /\ connStuck)

ConnThreadInv == ConnTyped /\ ConnCalled /\ ConnHands
ConnIInv == ConnThreadInv /\ ConnPlaces /\ ("forced" \notin connDamage => ConnKept)

-----------------------------------------------------------------------------
LEMMA ConnInitInv == ConnInit => ConnIInv
<1> SUFFICES ASSUME ConnInit PROVE ConnIInv OBVIOUS
<1> USE DEF ConnInit
<1>1. ConnTyped BY DEF ConnTyped, ConnLabels, ConnHoldsMsg, ConnHoldsConn, ConnFreeOfLocks
<1>2. ConnCalled BY DEF ConnCalled, ConnCallFits
<1>3. ConnHands BY DEF ConnHands, ConnCarries
<1>4. ConnPlaces BY ConnAssumption DEF ConnPlaces, ConnQueued, ConnHeld
<1>5. ConnKept BY DEF ConnKept, ConnKeptOf, ConnSems, ConnUser, ConnHolds, ConnHoldsMsg, ConnHoldsConn, ConnAway
<1> QED BY <1>1, <1>2, <1>3, <1>4, <1>5 DEF ConnIInv, ConnThreadInv

LEMMA ConnImplies == ConnIInv => ConnNothingLeaks
<1> SUFFICES ASSUME ConnIInv, "forced" \notin connDamage PROVE ConnNothingLeaks
  BY DEF ConnNothingLeaks
<1> USE DEF ConnIInv, ConnThreadInv
<1>1. ASSUME NEW s \in ConnSems
      PROVE  /\ connSem[s] = 0 => s \notin connGiven \/ ConnKeepers(s) # {}
             /\ connSem[s] = 1 => ConnKeepers(s) = {}
             /\ \A j, k \in ConnKeepers(s) : j = k
  BY DEF ConnKept, ConnKeptOf, ConnKeepers, ConnUser, ConnHolds, ConnAway, ConnSems
<1>2. DOMAIN connQueue = 1 .. Len(connQueue) BY DEF ConnTyped
<1>3. ASSUME NEW b \in ConnBuffers
      PROVE  LET holders == {t \in ConnThreads : connBuf[t] = b}
                 places == {i \in DOMAIN connQueue : connQueue[i] = b}
             IN  /\ \A i, j \in places : i = j
                 /\ \A t, u \in holders : t = u
                 /\ b \in connFree => places \cup holders = {}
                 /\ places = {} \/ holders = {}
                 /\ b \in connFree \/ places \cup holders # {}
  BY <1>2, ConnAssumption DEF ConnPlaces, ConnQueued, ConnHeld
<1> QED BY <1>1, <1>3 DEF ConnNothingLeaks

-----------------------------------------------------------------------------
(* Every step keeps the threads, their calls and their buffers as they go  *)
(* together.                                                               *)

\* A step of one thread that ends at l, in call c and with buffer b.
LEMMA ConnThreadMoves ==
  ASSUME ConnThreadInv, NEW t \in ConnThreads, NEW l \in ConnLabels, NEW c,
         NEW b \in ConnBuffers \cup {NoConn},
         connPc' = [connPc EXCEPT ![t] = l], connCall' = [connCall EXCEPT ![t] = c],
         connBuf' = [connBuf EXCEPT ![t] = b],
         ConnCallFits(t, l, c), b # NoConn <=> ConnCarries(l, c),
         connSem' \in [ConnSems -> {0, 1}], connQueue' \in Seq(ConnBuffers), connFree' \subseteq ConnBuffers
  PROVE  ConnThreadInv'
<1> USE DEF ConnThreadInv, ConnTyped
<1>1. \A u \in ConnThreads :
        /\ connPc'[u] = IF u = t THEN l ELSE connPc[u]
        /\ connCall'[u] = IF u = t THEN c ELSE connCall[u]
        /\ connBuf'[u] = IF u = t THEN b ELSE connBuf[u]
  OBVIOUS
<1>2. ConnTyped' OBVIOUS
<1>3. ConnCalled'
  <2> SUFFICES ASSUME NEW u \in ConnThreads PROVE ConnCallFits(u, connPc'[u], connCall'[u]) BY DEF ConnCalled
  <2>1. CASE u = t BY <2>1, <1>1
  <2>2. CASE u # t BY <2>2, <1>1 DEF ConnCalled
  <2> QED BY <2>1, <2>2
<1>4. ConnHands'
  <2> SUFFICES ASSUME NEW u \in ConnThreads PROVE connBuf'[u] # NoConn <=> ConnCarries(connPc'[u], connCall'[u])
    BY DEF ConnHands
  <2>1. CASE u = t BY <2>1, <1>1
  <2>2. CASE u # t BY <2>2, <1>1 DEF ConnHands
  <2> QED BY <2>1, <2>2
<1> QED BY <1>2, <1>3, <1>4

\* A step of one thread that goes on in its call, with the buffer it has.
LEMMA ConnThreadGoes ==
  ASSUME ConnThreadInv, NEW t \in ConnThreads, NEW l \in ConnLabels,
         ConnGoto(t, l), UNCHANGED <<connCall, connBuf>>,
         ConnCallFits(t, l, connCall[t]), ConnCarries(connPc[t], connCall[t]) <=> ConnCarries(l, connCall[t]),
         connSem' \in [ConnSems -> {0, 1}], connQueue' \in Seq(ConnBuffers), connFree' \subseteq ConnBuffers
  PROVE  ConnThreadInv'
<1>1. connCall' = [connCall EXCEPT ![t] = connCall[t]] BY DEF ConnThreadInv, ConnTyped
<1>2. connBuf' = [connBuf EXCEPT ![t] = connBuf[t]] BY DEF ConnThreadInv, ConnTyped
<1>3. connBuf[t] \in ConnBuffers \cup {NoConn} BY DEF ConnThreadInv, ConnTyped
<1>4. connBuf[t] # NoConn <=> ConnCarries(l, connCall[t]) BY DEF ConnThreadInv, ConnHands
<1> QED BY <1>1, <1>2, <1>3, <1>4, ConnThreadMoves DEF ConnGoto

\* A return leaves no buffer behind.
LEMMA ConnThreadReturns ==
  ASSUME ConnThreadInv, NEW t \in ConnThreads, ConnReturn(t),
         connSem' \in [ConnSems -> {0, 1}], connQueue' \in Seq(ConnBuffers), connFree' \subseteq ConnBuffers
  PROVE  ConnThreadInv'
<1>1. "idle" \in ConnLabels BY DEF ConnLabels, ConnFreeOfLocks
<1>2. ConnCallFits(t, "idle", NoConn) BY DEF ConnCallFits
<1>3. ~ConnCarries("idle", NoConn) BY DEF ConnCarries
<1> QED BY <1>1, <1>2, <1>3, ConnThreadMoves DEF ConnReturn, ConnGoto, ConnHold

\* Labels, for the steps below.
LEMMA ConnLabelsAre ==
  ConnLabels = {"alloc", "oldest", "oldest2", "recycle", "fill", "append", "append2", "munlock",
                "look", "get", "get2", "send", "recv", "spin", "unlock",
                "idle", "unref", "bind", "bind2", "unbind", "drain", "drain2", "dunref", "done",
                "add", "transmit", "process_send", "receive"}
BY DEF ConnLabels, ConnHoldsMsg, ConnHoldsConn, ConnFreeOfLocks, ConnLockers

LEMMA ConnGetThread ==
  ASSUME ConnThreadInv, NEW t \in ConnThreads, NEW label, NEW next \in ConnLabels, NEW none \in ConnLabels,
         ConnGet(t, label, next, none),
         ConnCallFits(t, next, connCall[t]), ConnCallFits(t, none, connCall[t]),
         ~ConnCarries(label, connCall[t]), ConnCarries(next, connCall[t]), ~ConnCarries(none, connCall[t])
  PROVE  ConnThreadInv'
<1>1. connSem' \in [ConnSems -> {0, 1}] /\ connFree' \subseteq ConnBuffers
  BY DEF ConnGet, ConnThreadInv, ConnTyped
<1>2. CASE connQueue = <<>>
  <2>1. connQueue' \in Seq(ConnBuffers) BY <1>2 DEF ConnGet, ConnThreadInv, ConnTyped
  <2> QED BY <1>1, <1>2, <2>1, ConnThreadGoes DEF ConnGet
<1>3. CASE connQueue # <<>>
  <2>1. Head(connQueue) \in ConnBuffers /\ connQueue' \in Seq(ConnBuffers)
    BY <1>3 DEF ConnGet, ConnThreadInv, ConnTyped
  <2>2. Head(connQueue) # NoConn BY <2>1, ConnAssumption
  <2>3. connCall' = [connCall EXCEPT ![t] = connCall[t]] BY DEF ConnGet, ConnThreadInv, ConnTyped
  <2> QED BY <1>1, <1>3, <2>1, <2>2, <2>3, ConnThreadMoves DEF ConnGet, ConnGoto, ConnHold
<1> QED BY <1>2, <1>3

LEMMA ConnThreadsKept ==
  ASSUME ConnThreadInv, NEW t \in ConnThreads, ConnStep(t) PROVE ConnThreadInv'
<1> DEFINE sem == connSem' \in [ConnSems -> {0, 1}]
           queue == connQueue' \in Seq(ConnBuffers)
           free == connFree' \subseteq ConnBuffers
           c == connCall[t]
<1>a. connSem \in [ConnSems -> {0, 1}] /\ connQueue \in Seq(ConnBuffers) /\ connFree \subseteq ConnBuffers
  BY DEF ConnThreadInv, ConnTyped
<1>b. ConnCallFits(t, connPc[t], c) BY DEF ConnThreadInv, ConnCalled
<1>c. connBuf[t] \in ConnBuffers \cup {NoConn} /\ (connBuf[t] # NoConn <=> ConnCarries(connPc[t], c))
  BY DEF ConnThreadInv, ConnTyped, ConnHands
<1>d. connCall = [connCall EXCEPT ![t] = c] /\ connBuf = [connBuf EXCEPT ![t] = connBuf[t]]
  BY DEF ConnThreadInv, ConnTyped
<1>1. CASE ConnStart(t)
  <2>1. PICK d \in ConnCallsOf[t] : connCall' = [connCall EXCEPT ![t] = d] /\ ConnGoto(t, d.op)
    BY <1>1 DEF ConnStart
  <2>2. d.op \in {"add", "transmit", "process_send", "receive", "bind", "unbind"} BY ConnAssumption
  <2>3. ConnCallFits(t, d.op, d) BY <2>2 DEF ConnCallFits
  <2>4. ~ConnCarries(d.op, d) BY <2>2 DEF ConnCarries
  <2>5. connBuf[t] = NoConn BY <1>c, <1>1 DEF ConnStart, ConnCarries
  <2>6. d.op \in ConnLabels BY <2>2, ConnLabelsAre
  <2>7. connBuf' = [connBuf EXCEPT ![t] = NoConn] BY <1>d, <1>1, <2>5 DEF ConnStart
  <2>8. sem /\ queue /\ free BY <1>a, <1>1 DEF ConnStart, connPool
  <2> QED BY <2>1, <2>3, <2>4, <2>6, <2>7, <2>8, ConnThreadMoves DEF ConnGoto
<1>2. CASE ConnRefuse(t)
  <2>1. sem /\ queue /\ free BY <1>a, <1>2 DEF ConnRefuse, connPool
  <2> QED BY <1>2, <2>1, ConnThreadReturns DEF ConnRefuse
<1>3. CASE ConnTake(t)
  <2>0. sem /\ queue /\ free BY <1>a, <1>3 DEF ConnTake, connPool
  <2>1. UNCHANGED <<connCall, connBuf>> BY <1>3 DEF ConnTake
  <2>2. CASE connPc[t] = "add"
    <3>1. ConnGoto(t, "alloc") BY <1>3, <2>2 DEF ConnTake, ConnLockers
    <3> QED BY <1>b, <2>0, <2>1, <2>2, <3>1, ConnLabelsAre, ConnThreadGoes DEF ConnCallFits, ConnCarries
  <2>3. CASE connPc[t] = "process_send"
    <3>1. ConnGoto(t, "look") BY <1>3, <2>3 DEF ConnTake, ConnLockers
    <3> QED BY <1>b, <2>0, <2>1, <2>3, <3>1, ConnLabelsAre, ConnThreadGoes DEF ConnCallFits, ConnCarries
  <2>4. CASE connPc[t] = "receive"
    <3>1. ConnGoto(t, "recv") BY <1>3, <2>4 DEF ConnTake, ConnLockers
    <3> QED BY <1>b, <2>0, <2>1, <2>4, <3>1, ConnLabelsAre, ConnThreadGoes DEF ConnCallFits, ConnCarries
  <2>5. CASE connPc[t] = "transmit"
    <3>1. ConnGoto(t, "send") BY <1>3, <2>5 DEF ConnTake, ConnLockers
    <3>2. c.op = "transmit" /\ c \in ConnCallsOf[t] /\ c.msg # ConnTooLong
      BY <1>3, <1>b, <2>5 DEF ConnTake, ConnCallFits
    <3>3. c.msg \in ConnMessages BY <3>2, ConnAssumption
    <3> QED BY <2>0, <2>1, <2>5, <3>1, <3>2, <3>3, ConnLabelsAre, ConnThreadGoes DEF ConnCallFits, ConnCarries
  <2> QED BY <1>3, <2>2, <2>3, <2>4, <2>5 DEF ConnTake, ConnLockers
<1>4. CASE ConnLeave(t)
  <2>1. sem BY <1>a, <1>4 DEF ConnLeave, ConnGive
  <2>2. queue /\ free BY <1>a, <1>4 DEF ConnLeave, connPool
  <2> QED BY <1>4, <2>1, <2>2, ConnThreadReturns DEF ConnLeave
<1>5. CASE ConnListBegins(t)
  <2>0. sem /\ queue /\ free BY <1>a, <1>5 DEF ConnListBegins, connPool
  <2>1. connPc[t] \in {"oldest", "append", "get", "drain"} BY <1>5 DEF ConnListBegins, ConnListEnd
  <2>2. ConnGoto(t, ConnListEnd[connPc[t]]) /\ UNCHANGED <<connCall, connBuf>> BY <1>5 DEF ConnListBegins
  <2>3. /\ connPc[t] = "oldest" => ConnListEnd[connPc[t]] = "oldest2"
        /\ connPc[t] = "append" => ConnListEnd[connPc[t]] = "append2"
        /\ connPc[t] = "get" => ConnListEnd[connPc[t]] = "get2"
        /\ connPc[t] = "drain" => ConnListEnd[connPc[t]] = "drain2"
    BY DEF ConnListEnd
  <2>4. ConnListEnd[connPc[t]] \in ConnLabels BY <2>1, <2>3, ConnLabelsAre
  <2>5. ConnCallFits(t, ConnListEnd[connPc[t]], c) BY <1>b, <2>1, <2>3 DEF ConnCallFits
  <2>6. ConnCarries(connPc[t], c) <=> ConnCarries(ConnListEnd[connPc[t]], c) BY <2>1, <2>3 DEF ConnCarries
  <2> QED BY <2>0, <2>2, <2>4, <2>5, <2>6, ConnThreadGoes
<1>6. CASE ConnAlloc(t)
  <2>0. sem /\ queue /\ free BY <1>a, <1>6 DEF ConnAlloc
  <2>1. CASE connFree = {}
    <3>1. ConnGoto(t, "oldest") /\ UNCHANGED <<connCall, connBuf>> /\ connPc[t] = "alloc"
      BY <1>6, <2>1 DEF ConnAlloc
    <3> QED BY <1>b, <2>0, <3>1, ConnLabelsAre, ConnThreadGoes DEF ConnCallFits, ConnCarries
  <2>2. CASE connFree # {}
    <3>1. PICK b \in connFree : ConnHold(t, b) /\ ConnGoto(t, "fill") BY <1>6, <2>2 DEF ConnAlloc
    <3>2. b \in ConnBuffers /\ b # NoConn BY <1>a, ConnAssumption
    <3>3. connCall' = [connCall EXCEPT ![t] = c] BY <1>d, <1>6 DEF ConnAlloc
    <3>4. ConnCallFits(t, "fill", c) BY <1>b, <1>6 DEF ConnAlloc, ConnCallFits
    <3>5. ConnCarries("fill", c) BY DEF ConnCarries
    <3> QED BY <2>0, <3>1, <3>2, <3>3, <3>4, <3>5, ConnLabelsAre, ConnThreadMoves DEF ConnGoto, ConnHold
  <2> QED BY <2>1, <2>2
<1>7. CASE ConnOldest(t)
  <2>1. connPc[t] = "oldest2" BY <1>7 DEF ConnOldest, ConnGet
  <2>2. ConnCallFits(t, "recycle", c) /\ ConnCallFits(t, "munlock", c) BY <1>b, <2>1 DEF ConnCallFits
  <2>3. ~ConnCarries("oldest2", c) /\ ConnCarries("recycle", c) /\ ~ConnCarries("munlock", c) BY DEF ConnCarries
  <2> QED BY <1>7, <2>2, <2>3, ConnLabelsAre, ConnGetThread DEF ConnOldest
<1>8. CASE ConnRecycle(t)
  <2>1. connPc[t] = "recycle" BY <1>8 DEF ConnRecycle
  <2>2. connBuf[t] \in ConnBuffers BY <1>c, <2>1 DEF ConnCarries
  <2>3. PICK b \in connFree \cup {connBuf[t]} :
          ConnHold(t, b) /\ connFree' = (connFree \cup {connBuf[t]}) \ {b}
    BY <1>8 DEF ConnRecycle
  <2>4. b \in ConnBuffers /\ b # NoConn BY <1>a, <2>2, ConnAssumption
  <2>5. sem /\ queue /\ free BY <1>a, <1>8, <2>2, <2>3 DEF ConnRecycle
  <2>6. ConnCallFits(t, "fill", c) BY <1>b, <2>1 DEF ConnCallFits
  <2>7. ConnCarries("fill", c) BY DEF ConnCarries
  <2>8. connCall' = [connCall EXCEPT ![t] = c] /\ ConnGoto(t, "fill") BY <1>d, <1>8 DEF ConnRecycle
  <2> QED BY <2>3, <2>4, <2>5, <2>6, <2>7, <2>8, ConnLabelsAre, ConnThreadMoves DEF ConnGoto, ConnHold
<1>9. CASE ConnFill(t)
  <2>0. sem /\ queue /\ free BY <1>a, <1>9 DEF ConnFill
  <2>1. ConnGoto(t, "append") /\ UNCHANGED <<connCall, connBuf>> /\ connPc[t] = "fill" BY <1>9 DEF ConnFill
  <2> QED BY <1>b, <2>0, <2>1, ConnLabelsAre, ConnThreadGoes DEF ConnCallFits, ConnCarries
<1>10. CASE ConnAppend(t)
  <2>1. connPc[t] = "append2" BY <1>10 DEF ConnAppend
  <2>2. connBuf[t] \in ConnBuffers BY <1>c, <2>1 DEF ConnCarries
  <2>3. sem /\ queue /\ free BY <1>a, <1>10, <2>2 DEF ConnAppend
  <2>4. connCall' = [connCall EXCEPT ![t] = c] BY <1>d, <1>10 DEF ConnAppend
  <2>5. ConnCallFits(t, "munlock", c) /\ ~ConnCarries("munlock", c) BY <1>b, <2>1 DEF ConnCallFits, ConnCarries
  <2> QED BY <1>10, <2>3, <2>4, <2>5, ConnLabelsAre, ConnThreadMoves DEF ConnAppend, ConnGoto, ConnHold
<1>11. CASE ConnLook(t)
  <2>0. sem /\ queue /\ free BY <1>a, <1>11 DEF ConnLook, connPool
  <2>1. PICK l \in {"unlock", "get"} : ConnGoto(t, l) BY <1>11 DEF ConnLook
  <2>2. UNCHANGED <<connCall, connBuf>> /\ connPc[t] = "look" BY <1>11 DEF ConnLook
  <2>3. l \in ConnLabels BY ConnLabelsAre
  <2>4. ConnCallFits(t, l, c) BY <1>b, <2>2 DEF ConnCallFits
  <2>5. ConnCarries(connPc[t], c) <=> ConnCarries(l, c) BY <2>2 DEF ConnCarries
  <2> QED BY <2>0, <2>1, <2>2, <2>3, <2>4, <2>5, ConnThreadGoes
<1>12. CASE ConnGot(t)
  <2>1. connPc[t] = "get2" BY <1>12 DEF ConnGot, ConnGet
  <2>2. ConnCallFits(t, "send", c) /\ ConnCallFits(t, "unlock", c) /\ c.op = "process_send"
    BY <1>b, <2>1 DEF ConnCallFits
  <2>3. ~ConnCarries("get2", c) /\ ConnCarries("send", c) /\ ~ConnCarries("unlock", c) BY <2>2 DEF ConnCarries
  <2> QED BY <1>12, <2>2, <2>3, ConnLabelsAre, ConnGetThread DEF ConnGot
<1>13. CASE ConnSend(t) \/ ConnSendFails(t)
  <2>0. sem /\ queue /\ free BY <1>a, <1>13 DEF ConnSend, ConnSendFails, connPool
  <2>1. connPc[t] = "send" /\ ConnSendNext(t) BY <1>13 DEF ConnSend, ConnSendFails
  <2>2. CASE c.op = "process_send"
    <3>1. ConnGoto(t, "unref") /\ UNCHANGED <<connCall, connBuf>> BY <2>1, <2>2 DEF ConnSendNext
    <3> QED BY <1>b, <2>0, <2>1, <2>2, <3>1, ConnLabelsAre, ConnThreadGoes DEF ConnCallFits, ConnCarries
  <2>3. CASE c.op # "process_send" BY <2>0, <2>1, <2>3, ConnThreadReturns DEF ConnSendNext
  <2> QED BY <2>2, <2>3
<1>14. CASE ConnUnref(t)
  <2>1. connPc[t] = "unref" BY <1>14 DEF ConnUnref
  <2>2. connBuf[t] \in ConnBuffers BY <1>c, <2>1 DEF ConnCarries
  <2>3. sem /\ queue /\ free BY <1>a, <1>14, <2>2 DEF ConnUnref
  <2>4. connCall' = [connCall EXCEPT ![t] = c] BY <1>d, <1>14 DEF ConnUnref
  <2>5. ConnCallFits(t, "process_send", c) /\ ~ConnCarries("process_send", c)
    BY <1>b, <2>1 DEF ConnCallFits, ConnCarries
  <2> QED BY <1>14, <2>3, <2>4, <2>5, ConnLabelsAre, ConnThreadMoves DEF ConnUnref, ConnGoto, ConnHold
<1>15. CASE ConnReceive(t) \/ ConnReceiveTooMuch(t)
  <2>0. sem /\ queue /\ free BY <1>a, <1>15 DEF ConnReceive, ConnReceiveTooMuch, connPool
  <2>1. PICK l \in {"unlock", "spin"} : ConnGoto(t, l) BY <1>15 DEF ConnReceive, ConnReceiveTooMuch
  <2>2. UNCHANGED <<connCall, connBuf>> /\ connPc[t] = "recv" BY <1>15 DEF ConnReceive, ConnReceiveTooMuch
  <2>3. l \in ConnLabels BY ConnLabelsAre
  <2>4. ConnCallFits(t, l, c) BY <1>b, <2>2 DEF ConnCallFits
  <2>5. ConnCarries(connPc[t], c) <=> ConnCarries(l, c) BY <2>2 DEF ConnCarries
  <2> QED BY <2>0, <2>1, <2>2, <2>3, <2>4, <2>5, ConnThreadGoes
<1>16. CASE ConnBind(t)
  <2>0. queue /\ free BY <1>a, <1>16 DEF ConnBind, connPool
  <2>1. sem BY <1>a, <1>16 DEF ConnBind, ConnGive
  <2>2. CASE connPc[t] = "bind"
    <3>1. ConnGoto(t, "bind2") /\ UNCHANGED <<connCall, connBuf>> BY <1>16, <2>2 DEF ConnBind
    <3> QED BY <1>b, <2>0, <2>1, <2>2, <3>1, ConnLabelsAre, ConnThreadGoes DEF ConnCallFits, ConnCarries
  <2>3. CASE connPc[t] # "bind" BY <1>16, <2>0, <2>1, <2>3, ConnThreadReturns DEF ConnBind
  <2> QED BY <2>2, <2>3
<1>17. CASE ConnUnbind(t)
  <2>0. sem /\ queue /\ free BY <1>a, <1>17 DEF ConnUnbind, connPool
  <2>1. ConnGoto(t, "drain") /\ UNCHANGED <<connCall, connBuf>> /\ connPc[t] = "unbind" BY <1>17 DEF ConnUnbind
  <2> QED BY <1>b, <2>0, <2>1, ConnLabelsAre, ConnThreadGoes DEF ConnCallFits, ConnCarries
<1>18. CASE ConnDrain(t)
  <2>1. connPc[t] = "drain2" BY <1>18 DEF ConnDrain, ConnGet
  <2>2. ConnCallFits(t, "dunref", c) /\ ConnCallFits(t, "done", c) BY <1>b, <2>1 DEF ConnCallFits
  <2>3. ~ConnCarries("drain2", c) /\ ConnCarries("dunref", c) /\ ~ConnCarries("done", c) BY DEF ConnCarries
  <2> QED BY <1>18, <2>2, <2>3, ConnLabelsAre, ConnGetThread DEF ConnDrain
<1>19. CASE ConnDrained(t)
  <2>1. sem /\ queue BY <1>a, <1>19 DEF ConnDrained
  <2>2. CASE connPc[t] = "done"
    <3>1. free BY <1>a, <1>19, <2>2 DEF ConnDrained
    <3> QED BY <1>19, <2>1, <2>2, <3>1, ConnThreadReturns DEF ConnDrained
  <2>3. CASE connPc[t] = "dunref"
    <3>1. connBuf[t] \in ConnBuffers BY <1>c, <2>3 DEF ConnCarries
    <3>2. /\ connFree' = connFree \cup {connBuf[t]} /\ UNCHANGED connCall
          /\ ConnHold(t, NoConn) /\ ConnGoto(t, "drain")
      BY <1>19, <2>3 DEF ConnDrained
    <3>3. free BY <1>a, <3>1, <3>2
    <3>4. ConnCallFits(t, "drain", c) /\ ~ConnCarries("drain", c) BY <1>b, <2>3 DEF ConnCallFits, ConnCarries
    <3>5. connCall' = [connCall EXCEPT ![t] = c] BY <1>d, <3>2
    <3> QED BY <2>1, <3>2, <3>3, <3>4, <3>5, ConnLabelsAre, ConnThreadMoves DEF ConnGoto, ConnHold
  <2> QED BY <1>19, <2>2, <2>3 DEF ConnDrained
<1> QED
  BY <1>1, <1>2, <1>3, <1>4, <1>5, <1>6, <1>7, <1>8, <1>9, <1>10, <1>11, <1>12, <1>13, <1>14, <1>15, <1>16,
     <1>17, <1>18, <1>19 DEF ConnStep

-----------------------------------------------------------------------------
(* Every step keeps every buffer in one place.                             *)

LEMMA ConnPlacesStay ==
  ASSUME ConnPlaces, UNCHANGED <<connQueue, connFree, connBuf>> PROVE ConnPlaces'
BY DEF ConnPlaces, ConnQueued, ConnHeld

\* From the pool, or from the hand that gives one back, into a hand.
LEMMA ConnTakesFree ==
  ASSUME ConnThreadInv, ConnPlaces, NEW t \in ConnThreads,
         NEW b \in connFree \cup ({connBuf[t]} \ {NoConn}),
         ConnHold(t, b), connFree' = (connFree \cup ({connBuf[t]} \ {NoConn})) \ {b}, UNCHANGED connQueue
  PROVE  ConnPlaces'
<1> USE DEF ConnPlaces, ConnHeld, ConnQueued
<1>0. connFree \subseteq ConnBuffers /\ connBuf[t] \in ConnBuffers \cup {NoConn} BY DEF ConnThreadInv, ConnTyped
<1>1. b \in ConnBuffers /\ b # NoConn BY <1>0, ConnAssumption
<1>2. \A u \in ConnThreads : connBuf'[u] = IF u = t THEN b ELSE connBuf[u]
  BY DEF ConnHold, ConnThreadInv, ConnTyped
<1>3. \A x \in ConnBuffers : ConnQueued(x)' <=> ConnQueued(x) OBVIOUS
<1>4. ASSUME NEW u \in ConnThreads, u # t PROVE connBuf[u] # b
  BY <1>4, <1>0, <1>1
<1>5. \A u, v \in ConnThreads : connBuf'[u] = connBuf'[v] /\ connBuf'[u] # NoConn => u = v BY <1>2, <1>4
<1>6. \A x \in connFree' : ~ConnQueued(x)' /\ ~ConnHeld(x)' BY <1>0, <1>2, <1>3
<1>7. ~ConnQueued(b)' BY <1>0, <1>1, <1>3
<1>8. \A x \in ConnBuffers : ~(ConnQueued(x)' /\ ConnHeld(x)') BY <1>2, <1>3, <1>7
<1>9. \A x \in ConnBuffers : x \in connFree' \/ ConnQueued(x)' \/ ConnHeld(x)'
  <2> SUFFICES ASSUME NEW x \in ConnBuffers, x \notin connFree', ~ConnQueued(x) PROVE ConnHeld(x)' BY <1>3
  <2>1. CASE x = b BY <2>1, <1>2
  <2>2. CASE x # b
    <3>1. x \notin connFree /\ x # connBuf[t] BY <2>2, <1>1, ConnAssumption
    <3>2. PICK u \in ConnThreads : connBuf[u] = x BY <3>1
    <3> QED BY <3>1, <3>2, <1>2
  <2> QED BY <2>1, <2>2
<1> QED BY <1>5, <1>6, <1>8, <1>9

\* From the head of the queue into a hand that is empty.
LEMMA ConnTakesHead ==
  ASSUME ConnThreadInv, ConnPlaces, NEW t \in ConnThreads, connBuf[t] = NoConn, connQueue # <<>>,
         ConnHold(t, Head(connQueue)), connQueue' = Tail(connQueue), UNCHANGED connFree
  PROVE  ConnPlaces'
<1> USE DEF ConnPlaces
<1> DEFINE h == connQueue[1]
<1>0. connQueue \in Seq(ConnBuffers) BY DEF ConnThreadInv, ConnTyped
<1>1. Len(connQueue) \in Nat /\ Len(connQueue) >= 1 /\ Head(connQueue) = h /\ h \in ConnBuffers BY <1>0
<1>2. Len(connQueue') = Len(connQueue) - 1 /\ \A i \in 1 .. Len(connQueue') : connQueue'[i] = connQueue[i + 1]
  BY <1>0, <1>1
<1>3. \A u \in ConnThreads : connBuf'[u] = IF u = t THEN h ELSE connBuf[u]
  BY <1>1 DEF ConnHold, ConnThreadInv, ConnTyped
<1>4. h # NoConn BY <1>1, ConnAssumption
<1>5. ~ConnHeld(h) BY <1>1 DEF ConnQueued
<1>6. \A i, j \in 1 .. Len(connQueue') : connQueue'[i] = connQueue'[j] => i = j
  <2> SUFFICES ASSUME NEW i \in 1 .. Len(connQueue'), NEW j \in 1 .. Len(connQueue'),
                      connQueue'[i] = connQueue'[j]
               PROVE i = j OBVIOUS
  <2>1. i + 1 \in 1 .. Len(connQueue) /\ j + 1 \in 1 .. Len(connQueue) BY <1>1, <1>2
  <2>2. i + 1 = j + 1 BY <2>1, <1>2
  <2> QED BY <2>2
<1>7. \A u, v \in ConnThreads : connBuf'[u] = connBuf'[v] /\ connBuf'[u] # NoConn => u = v
  BY <1>3, <1>5 DEF ConnHeld
<1>8. ASSUME NEW x PROVE ConnQueued(x)' <=> ConnQueued(x) /\ x # h
  <2>1. ASSUME ConnQueued(x)' PROVE ConnQueued(x) /\ x # h
    <3>1. PICK i \in 1 .. Len(connQueue') : connQueue'[i] = x BY <2>1 DEF ConnQueued
    <3>2. i + 1 \in 1 .. Len(connQueue) /\ i + 1 # 1 /\ 1 \in 1 .. Len(connQueue) BY <1>1, <1>2
    <3>3. connQueue[i + 1] = x BY <3>1, <1>2
    <3>4. x # h BY <3>2, <3>3
    <3> QED BY <3>2, <3>3, <3>4 DEF ConnQueued
  <2>2. ASSUME ConnQueued(x), x # h PROVE ConnQueued(x)'
    <3>1. PICK i \in 1 .. Len(connQueue) : connQueue[i] = x BY <2>2 DEF ConnQueued
    <3>2. i # 1 BY <3>1, <2>2
    <3>3. i - 1 \in 1 .. Len(connQueue') /\ (i - 1) + 1 = i BY <3>2, <1>1, <1>2
    <3>4. connQueue'[i - 1] = x BY <3>1, <3>3, <1>2
    <3> QED BY <3>3, <3>4 DEF ConnQueued
  <2> QED BY <2>1, <2>2
<1>9. ASSUME NEW x \in ConnBuffers PROVE ConnHeld(x)' <=> ConnHeld(x) \/ x = h
  BY <1>3, ConnAssumption DEF ConnHeld
<1>a. ConnQueued(h) BY <1>1 DEF ConnQueued
<1>b. \A x \in connFree' : ~ConnQueued(x)' /\ ~ConnHeld(x)'
  <2> SUFFICES ASSUME NEW x \in connFree PROVE ~ConnQueued(x)' /\ ~ConnHeld(x)' OBVIOUS
  <2>1. x \in ConnBuffers /\ x # h BY <1>a DEF ConnThreadInv, ConnTyped
  <2> QED BY <2>1, <1>8, <1>9
<1>c. \A x \in ConnBuffers : ~(ConnQueued(x)' /\ ConnHeld(x)') BY <1>8, <1>9
<1>d. \A x \in ConnBuffers : x \in connFree' \/ ConnQueued(x)' \/ ConnHeld(x)' BY <1>8, <1>9
<1> QED BY <1>6, <1>7, <1>b, <1>c, <1>d

\* From a hand to the end of the queue.
LEMMA ConnQueues ==
  ASSUME ConnThreadInv, ConnPlaces, NEW t \in ConnThreads, connBuf[t] # NoConn,
         ConnHold(t, NoConn), connQueue' = Append(connQueue, connBuf[t]), UNCHANGED connFree
  PROVE  ConnPlaces'
<1> USE DEF ConnPlaces
<1> DEFINE b == connBuf[t]
           n == Len(connQueue)
<1>0. connQueue \in Seq(ConnBuffers) /\ b \in ConnBuffers BY DEF ConnThreadInv, ConnTyped
<1>1. n \in Nat /\ Len(connQueue') = n + 1 /\ connQueue'[n + 1] = b
      /\ \A i \in 1 .. n : connQueue'[i] = connQueue[i]
  BY <1>0
<1>2. \A u \in ConnThreads : connBuf'[u] = IF u = t THEN NoConn ELSE connBuf[u]
  BY DEF ConnHold, ConnThreadInv, ConnTyped
<1>3. ConnHeld(b) /\ ~ConnQueued(b) BY <1>0 DEF ConnHeld
<1>4. ASSUME NEW x PROVE ConnQueued(x)' <=> ConnQueued(x) \/ x = b BY <1>1 DEF ConnQueued
<1>5. ASSUME NEW x \in ConnBuffers PROVE ConnHeld(x)' <=> ConnHeld(x) /\ x # b
  <2>1. x # NoConn BY ConnAssumption
  <2>2. \A u \in ConnThreads : u # t => connBuf[u] # b BY <1>0
  <2> QED BY <2>1, <2>2, <1>2 DEF ConnHeld
<1>6. \A i, j \in 1 .. Len(connQueue') : connQueue'[i] = connQueue'[j] => i = j
  <2>1. \A i \in 1 .. n : connQueue'[i] # b BY <1>1, <1>3 DEF ConnQueued
  <2> QED BY <2>1, <1>1
<1>7. \A u, v \in ConnThreads : connBuf'[u] = connBuf'[v] /\ connBuf'[u] # NoConn => u = v BY <1>2
<1>8. \A x \in connFree' : ~ConnQueued(x)' /\ ~ConnHeld(x)'
  <2> SUFFICES ASSUME NEW x \in connFree PROVE ~ConnQueued(x)' /\ ~ConnHeld(x)' OBVIOUS
  <2>1. x \in ConnBuffers /\ x # b BY <1>3 DEF ConnThreadInv, ConnTyped
  <2> QED BY <2>1, <1>4, <1>5
<1>9. \A x \in ConnBuffers : ~(ConnQueued(x)' /\ ConnHeld(x)') BY <1>4, <1>5
<1>a. \A x \in ConnBuffers : x \in connFree' \/ ConnQueued(x)' \/ ConnHeld(x)' BY <1>4, <1>5
<1> QED BY <1>6, <1>7, <1>8, <1>9, <1>a

\* From a hand back to the pool.
LEMMA ConnFrees ==
  ASSUME ConnThreadInv, ConnPlaces, NEW t \in ConnThreads, connBuf[t] # NoConn,
         ConnHold(t, NoConn), connFree' = connFree \cup {connBuf[t]}, UNCHANGED connQueue
  PROVE  ConnPlaces'
<1> USE DEF ConnPlaces
<1> DEFINE b == connBuf[t]
<1>0. b \in ConnBuffers BY DEF ConnThreadInv, ConnTyped
<1>2. \A u \in ConnThreads : connBuf'[u] = IF u = t THEN NoConn ELSE connBuf[u]
  BY DEF ConnHold, ConnThreadInv, ConnTyped
<1>3. ConnHeld(b) /\ ~ConnQueued(b) BY <1>0 DEF ConnHeld
<1>4. ASSUME NEW x PROVE ConnQueued(x)' <=> ConnQueued(x) BY DEF ConnQueued
<1>5. ASSUME NEW x \in ConnBuffers PROVE ConnHeld(x)' <=> ConnHeld(x) /\ x # b
  <2>1. x # NoConn BY ConnAssumption
  <2>2. \A u \in ConnThreads : u # t => connBuf[u] # b BY <1>0
  <2> QED BY <2>1, <2>2, <1>2 DEF ConnHeld
<1>6. \A i, j \in 1 .. Len(connQueue') : connQueue'[i] = connQueue'[j] => i = j OBVIOUS
<1>7. \A u, v \in ConnThreads : connBuf'[u] = connBuf'[v] /\ connBuf'[u] # NoConn => u = v BY <1>2
<1>8. \A x \in connFree' : ~ConnQueued(x)' /\ ~ConnHeld(x)'
  <2> SUFFICES ASSUME NEW x \in connFree \cup {b} PROVE ~ConnQueued(x)' /\ ~ConnHeld(x)' OBVIOUS
  <2>1. x \in ConnBuffers BY <1>0 DEF ConnThreadInv, ConnTyped
  <2> QED BY <2>1, <1>3, <1>4, <1>5
<1>9. \A x \in ConnBuffers : ~(ConnQueued(x)' /\ ConnHeld(x)') BY <1>4, <1>5
<1>a. \A x \in ConnBuffers : x \in connFree' \/ ConnQueued(x)' \/ ConnHeld(x)' BY <1>4, <1>5
<1> QED BY <1>6, <1>7, <1>8, <1>9, <1>a

LEMMA ConnPlacesKept ==
  ASSUME ConnThreadInv, ConnPlaces, NEW t \in ConnThreads, ConnStep(t) PROVE ConnPlaces'
<1>a. connBuf[t] # NoConn <=> ConnCarries(connPc[t], connCall[t]) BY DEF ConnThreadInv, ConnHands
<1>b. ASSUME ConnHold(t, NoConn), connBuf[t] = NoConn PROVE connBuf' = connBuf
  BY <1>b DEF ConnHold, ConnThreadInv, ConnTyped
<1>1. CASE \/ ConnStart(t) \/ ConnTake(t) \/ ConnListBegins(t) \/ ConnFill(t) \/ ConnLook(t)
           \/ ConnReceive(t) \/ ConnReceiveTooMuch(t) \/ ConnUnbind(t)
  BY <1>1, ConnPlacesStay DEF ConnStart, ConnTake, ConnListBegins, ConnFill, ConnLook, ConnReceive,
     ConnReceiveTooMuch, ConnUnbind, connPool
<1>2. CASE ConnRefuse(t) \/ ConnLeave(t)
  <2>1. ConnReturn(t) /\ UNCHANGED <<connQueue, connFree>> BY <1>2 DEF ConnRefuse, ConnLeave, connPool
  <2>2. connBuf[t] = NoConn BY <1>2, <1>a DEF ConnRefuse, ConnLeave, ConnCarries, ConnLockers
  <2> QED BY <2>1, <2>2, <1>b, ConnPlacesStay DEF ConnReturn
<1>3. CASE ConnSend(t) \/ ConnSendFails(t)
  <2>1. ConnSendNext(t) /\ UNCHANGED <<connQueue, connFree>> /\ connPc[t] = "send"
    BY <1>3 DEF ConnSend, ConnSendFails, connPool
  <2>2. CASE connCall[t].op = "process_send" BY <2>1, <2>2, ConnPlacesStay DEF ConnSendNext
  <2>3. CASE connCall[t].op # "process_send"
    <3>1. connBuf[t] = NoConn BY <2>1, <2>3, <1>a DEF ConnCarries
    <3> QED BY <2>1, <2>3, <3>1, <1>b, ConnPlacesStay DEF ConnSendNext, ConnReturn
  <2> QED BY <2>2, <2>3
<1>4. CASE ConnBind(t)
  <2>1. connBuf[t] = NoConn BY <1>4, <1>a DEF ConnBind, ConnCarries
  <2>2. connBuf' = connBuf BY <1>4, <2>1, <1>b DEF ConnBind, ConnReturn
  <2> QED BY <1>4, <2>2, ConnPlacesStay DEF ConnBind, connPool
<1>5. CASE ConnAlloc(t)
  <2>0. connBuf[t] = NoConn BY <1>5, <1>a DEF ConnAlloc, ConnCarries
  <2>1. CASE connFree = {} BY <1>5, <2>1, ConnPlacesStay DEF ConnAlloc
  <2>2. CASE connFree # {}
    <3>1. PICK b \in connFree : ConnHold(t, b) /\ connFree' = connFree \ {b} BY <1>5, <2>2 DEF ConnAlloc
    <3>2. UNCHANGED connQueue BY <1>5 DEF ConnAlloc
    <3>3. {connBuf[t]} \ {NoConn} = {} BY <2>0
    <3> QED BY <3>1, <3>2, <3>3, ConnTakesFree
  <2> QED BY <2>1, <2>2
<1>6. CASE ConnRecycle(t)
  <2>0. connBuf[t] # NoConn BY <1>6, <1>a DEF ConnRecycle, ConnCarries
  <2>1. PICK b \in connFree \cup {connBuf[t]} :
          ConnHold(t, b) /\ connFree' = (connFree \cup {connBuf[t]}) \ {b}
    BY <1>6 DEF ConnRecycle
  <2>2. UNCHANGED connQueue BY <1>6 DEF ConnRecycle
  <2>3. {connBuf[t]} \ {NoConn} = {connBuf[t]} BY <2>0
  <2> QED BY <2>1, <2>2, <2>3, ConnTakesFree
<1>7. ASSUME NEW label \in {"oldest2", "get2", "drain2"}, NEW next, NEW none, ConnGet(t, label, next, none)
      PROVE  ConnPlaces'
  <2>0. connBuf[t] = NoConn BY <1>7, <1>a DEF ConnGet, ConnCarries
  <2>1. CASE connQueue = <<>> BY <1>7, <2>1, ConnPlacesStay DEF ConnGet
  <2>2. CASE connQueue # <<>> BY <1>7, <2>0, <2>2, ConnTakesHead DEF ConnGet
  <2> QED BY <2>1, <2>2
<1>8. CASE ConnOldest(t) \/ ConnGot(t) \/ ConnDrain(t) BY <1>7, <1>8 DEF ConnOldest, ConnGot, ConnDrain
<1>9. CASE ConnAppend(t)
  <2>0. connBuf[t] # NoConn BY <1>9, <1>a DEF ConnAppend, ConnCarries
  <2> QED BY <1>9, <2>0, ConnQueues DEF ConnAppend
<1>10. CASE ConnUnref(t)
  <2>0. connBuf[t] # NoConn BY <1>10, <1>a DEF ConnUnref, ConnCarries
  <2> QED BY <1>10, <2>0, ConnFrees DEF ConnUnref
<1>11. CASE ConnDrained(t)
  <2>1. CASE connPc[t] = "done"
    <3>1. connBuf[t] = NoConn BY <2>1, <1>a DEF ConnCarries
    <3> QED BY <1>11, <2>1, <3>1, <1>b, ConnPlacesStay DEF ConnDrained, ConnReturn
  <2>2. CASE connPc[t] # "done"
    <3>1. connBuf[t] # NoConn BY <1>11, <2>2, <1>a DEF ConnDrained, ConnCarries
    <3> QED BY <1>11, <2>2, <3>1, ConnFrees DEF ConnDrained
  <2> QED BY <2>1, <2>2
<1> QED BY <1>1, <1>2, <1>3, <1>4, <1>5, <1>6, <1>8, <1>9, <1>10, <1>11 DEF ConnStep

-----------------------------------------------------------------------------
(* Every step but a bind in use keeps the semaphores and their users        *)
(* together.                                                               *)

LEMMA ConnKeptStays ==
  ASSUME ConnKept, UNCHANGED <<connSem, connBus, connGiven, connStuck>>,
         \A u \in ConnThreads, s \in ConnSems : ConnUser(u, s)' <=> ConnUser(u, s)
  PROVE  ConnKept'
<1>1. \A s \in ConnSems : ConnKeptOf(s) => ConnKeptOf(s)' BY DEF ConnKeptOf, ConnAway
<1>2. "msg" \in ConnSems /\ "conn" \in ConnSems BY DEF ConnSems
<1>3. ConnAway' <=> ConnAway BY DEF ConnAway
<1> QED BY <1>1, <1>2, <1>3 DEF ConnKept

\* A step of one thread from one side of a label to the same side.
LEMMA ConnSameSide ==
  ASSUME ConnThreadInv, ConnKept, NEW t \in ConnThreads, NEW l, ConnGoto(t, l),
         UNCHANGED <<connSem, connBus, connGiven, connStuck>>,
         \A s \in ConnSems : l \in ConnHolds(s) <=> connPc[t] \in ConnHolds(s)
  PROVE  ConnKept'
<1>1. \A u \in ConnThreads : connPc'[u] = IF u = t THEN l ELSE connPc[u]
  BY DEF ConnGoto, ConnThreadInv, ConnTyped
<1>2. \A u \in ConnThreads, s \in ConnSems : ConnUser(u, s)' <=> ConnUser(u, s) BY <1>1 DEF ConnUser
<1> QED BY <1>2, ConnKeptStays

LEMMA ConnSides ==
  ASSUME NEW s \in ConnSems, NEW l
  PROVE  /\ l \in ConnFreeOfLocks => l \notin ConnHolds(s)
         /\ l \in ConnHoldsMsg => (l \in ConnHolds(s) <=> s = "msg")
         /\ l \in ConnHoldsConn => (l \in ConnHolds(s) <=> s = "conn")
BY DEF ConnSems, ConnHolds, ConnFreeOfLocks, ConnHoldsMsg, ConnHoldsConn, ConnLockers

\* From a label outside every section to one in the section of s.
ConnInto(l, t, s) == \A r \in ConnSems : connPc[t] \notin ConnHolds(r) /\ (l \in ConnHolds(r) <=> r = s)

\* One thread enters the section of a semaphore it takes.
LEMMA ConnEnters ==
  ASSUME ConnThreadInv, ConnKept, NEW t \in ConnThreads, NEW s \in ConnSems, NEW l,
         connSem[s] = 1, connSem' = [connSem EXCEPT ![s] = 0], ConnGoto(t, l),
         UNCHANGED <<connBus, connGiven, connStuck>>,
         ConnInto(l, t, s)
  PROVE  ConnKept'
<1> USE DEF ConnKept, ConnAway, ConnInto
<1>0. ConnSems = {"msg", "conn"} BY DEF ConnSems
<1>1. \A u \in ConnThreads : connPc'[u] = IF u = t THEN l ELSE connPc[u]
  BY DEF ConnGoto, ConnThreadInv, ConnTyped
<1>2. \A r \in ConnSems : connSem'[r] = IF r = s THEN 0 ELSE connSem[r] BY DEF ConnThreadInv, ConnTyped
<1>3. \A u \in ConnThreads, r \in ConnSems : ConnUser(u, r)' <=> ConnUser(u, r) \/ (u = t /\ r = s)
  BY <1>1 DEF ConnUser
<1>4. ConnKeptOf(s) BY <1>0
<1>5. s \in connGiven /\ (\A u \in ConnThreads : ~ConnUser(u, s)) /\ ~(s = "conn" /\ ConnAway)
  BY <1>4 DEF ConnKeptOf
<1>6. ASSUME NEW r \in ConnSems PROVE ConnKeptOf(r)'
  <2>1. ConnKeptOf(r) BY <1>0
  <2>2. CASE r = s BY <2>2, <1>2, <1>3, <1>5 DEF ConnKeptOf
  <2>3. CASE r # s BY <2>1, <2>3, <1>2, <1>3 DEF ConnKeptOf
  <2> QED BY <2>2, <2>3
<1>7. ConnAway' => \A u \in ConnThreads : ~ConnUser(u, "conn")' BY <1>0, <1>3, <1>5
<1> QED BY <1>0, <1>6, <1>7

\* A semaphore that no other one uses is given, by the one who leaves its
\* section or by a bind.
LEMMA ConnLeaves ==
  ASSUME ConnThreadInv, ConnKept, NEW s \in ConnSems,
         ConnGive(s), connGiven' = connGiven \cup {s},
         \A u \in ConnThreads, r \in ConnSems : ConnUser(u, r)' <=> ConnUser(u, r) /\ r # s,
         s = "conn" => ~ConnAway', s = "msg" => connBus' = connBus /\ (connStuck' <=> connStuck)
  PROVE  ConnKept'
<1> USE DEF ConnKept, ConnAway
<1>0. ConnSems = {"msg", "conn"} BY DEF ConnSems
<1>2. \A r \in ConnSems : connSem'[r] = IF r = s THEN 1 ELSE connSem[r]
  BY DEF ConnGive, ConnThreadInv, ConnTyped
<1>6. ASSUME NEW r \in ConnSems PROVE ConnKeptOf(r)'
  <2>1. ConnKeptOf(r) BY <1>0
  <2>2. CASE r = s BY <2>2, <1>2 DEF ConnKeptOf
  <2>3. CASE r # s BY <1>0, <2>1, <2>3, <1>2 DEF ConnKeptOf
  <2> QED BY <2>2, <2>3
<1>7. ConnAway' => \A u \in ConnThreads : ~ConnUser(u, "conn")' BY <1>0
<1> QED BY <1>0, <1>6, <1>7

\* The thread that has the connection hands it to the driver, or to nobody.
LEMMA ConnHandsOver ==
  ASSUME ConnThreadInv, ConnKept, NEW t \in ConnThreads, NEW l, ConnUser(t, "conn"),
         UNCHANGED <<connSem, connGiven>>, ConnGoto(t, l), \A r \in ConnSems : l \notin ConnHolds(r),
         ConnAway', ~(connBus' # NoConn /\ connStuck')
  PROVE  ConnKept'
<1> USE DEF ConnKept
<1>0. ConnSems = {"msg", "conn"} BY DEF ConnSems
<1>1. \A u \in ConnThreads : connPc'[u] = IF u = t THEN l ELSE connPc[u]
  BY DEF ConnGoto, ConnThreadInv, ConnTyped
<1>2. ~ConnUser(t, "msg") BY ConnSides, <1>0 DEF ConnUser, ConnHolds, ConnHoldsMsg, ConnHoldsConn
<1>3. \A u \in ConnThreads, r \in ConnSems : ConnUser(u, r)' <=> ConnUser(u, r) /\ u # t BY <1>1 DEF ConnUser
<1>4. \A u \in ConnThreads : ~ConnUser(u, "conn")' BY <1>0, <1>3 DEF ConnKeptOf
<1>5. connSem["conn"] \in {0, 1} BY <1>0 DEF ConnThreadInv, ConnTyped
<1>6. connSem["conn"] # 1 /\ "conn" \in connGiven BY DEF ConnKeptOf
<1>7. ConnKeptOf("conn")' BY <1>4, <1>6 DEF ConnKeptOf
<1>8. ConnKeptOf("msg")' BY <1>0, <1>2, <1>3 DEF ConnKeptOf
<1> QED BY <1>4, <1>7, <1>8

\* A step of one thread from one label to another of the same sort.
LEMMA ConnSameSort ==
  ASSUME ConnThreadInv, ConnKept, NEW t \in ConnThreads, NEW l, ConnGoto(t, l),
         UNCHANGED <<connSem, connBus, connGiven, connStuck>>,
         \/ l \in ConnHoldsMsg /\ connPc[t] \in ConnHoldsMsg
         \/ l \in ConnHoldsConn /\ connPc[t] \in ConnHoldsConn
         \/ l \in ConnFreeOfLocks /\ connPc[t] \in ConnFreeOfLocks
  PROVE  ConnKept'
<1>1. \A s \in ConnSems : l \in ConnHolds(s) <=> connPc[t] \in ConnHolds(s)
  BY DEF ConnSems, ConnHolds, ConnFreeOfLocks, ConnHoldsMsg, ConnHoldsConn, ConnLockers
<1> QED BY <1>1, ConnSameSide

LEMMA ConnKeptKept ==
  ASSUME ConnThreadInv, ConnKept, NEW t \in ConnThreads, ConnStep(t), "forced" \notin connDamage' PROVE ConnKept'
<1> USE DEF ConnHoldsMsg, ConnHoldsConn, ConnFreeOfLocks, ConnLockers
<1>a. ConnCallFits(t, connPc[t], connCall[t]) BY DEF ConnThreadInv, ConnCalled
<1>1. CASE ConnStart(t)
  <2>1. PICK c \in ConnCallsOf[t] : ConnGoto(t, c.op) BY <1>1 DEF ConnStart
  <2>2. c.op \in ConnFreeOfLocks /\ connPc[t] \in ConnFreeOfLocks BY <1>1, ConnAssumption DEF ConnStart
  <2>3. UNCHANGED <<connSem, connBus, connGiven, connStuck>> BY <1>1 DEF ConnStart, connHistory
  <2> QED BY <2>1, <2>2, <2>3, ConnSameSort
<1>2. CASE ConnRefuse(t)
  <2>1. ConnGoto(t, "idle") /\ UNCHANGED <<connSem, connBus, connGiven, connStuck>> /\ connPc[t] \in ConnFreeOfLocks
    BY <1>2 DEF ConnRefuse, ConnReturn, connHistory
  <2> QED BY <2>1, ConnSameSort
<1>3. CASE ConnTake(t)
  <2>0. ConnNeeds(connPc[t]) \in ConnSems BY DEF ConnNeeds, ConnSems
  <2>1. PICK s \in ConnSems : s = ConnNeeds(connPc[t]) BY <2>0
  <2>2. connSem[s] = 1 /\ connSem' = [connSem EXCEPT ![s] = 0] BY <1>3, <2>1 DEF ConnTake
  <2>3. UNCHANGED <<connBus, connGiven, connStuck>> BY <1>3 DEF ConnTake, connHistory
  <2>4. connPc[t] \in ConnLockers BY <1>3 DEF ConnTake
  <2>5. PICK l : ConnGoto(t, l) /\ (IF connPc[t] = "add" THEN l = "alloc" ELSE l \in {"look", "recv", "send"})
    BY <1>3 DEF ConnTake
  <2>6. ConnInto(l, t, s) BY <2>1, <2>4, <2>5 DEF ConnInto, ConnHolds, ConnNeeds, ConnSems
  <2>7. ConnGoto(t, l) BY <2>5
  <2> QED BY <2>2, <2>3, <2>6, <2>7, ConnEnters
<1>4. CASE ConnLeave(t)
  <2> DEFINE s == IF connPc[t] = "munlock" THEN "msg" ELSE "conn"
  <2>1. s \in ConnSems /\ ConnGive(s) /\ ConnGoto(t, "idle") /\ UNCHANGED <<connBus, connGiven, connStuck>>
    BY <1>4 DEF ConnLeave, ConnReturn, ConnSems, connHistory
  <2>2. ConnUser(t, s) BY <1>4 DEF ConnLeave, ConnUser, ConnHolds
  <2>3. ConnKeptOf(s) BY <2>1 DEF ConnKept, ConnSems
  <2>4. s \in connGiven BY <2>2, <2>3 DEF ConnKeptOf
  <2>5. \A u \in ConnThreads : connPc'[u] = IF u = t THEN "idle" ELSE connPc[u]
    BY <2>1 DEF ConnGoto, ConnThreadInv, ConnTyped
  <2>6. \A u \in ConnThreads : ConnUser(u, s) => u = t BY <2>2, <2>3 DEF ConnKeptOf
  <2>7. \A r \in ConnSems : r # s => ~ConnUser(t, r) BY <2>2 DEF ConnUser, ConnHolds, ConnSems
  <2>8. \A u \in ConnThreads, r \in ConnSems : ConnUser(u, r)' <=> ConnUser(u, r) /\ r # s
    BY <2>5, <2>6, <2>7 DEF ConnUser, ConnHolds
  <2>9. s = "conn" => ~ConnAway' BY <2>1, <2>2 DEF ConnKept, ConnAway
  <2> QED BY <2>1, <2>4, <2>8, <2>9, ConnLeaves
<1>5. CASE ConnListBegins(t)
  <2>1. ConnGoto(t, ConnListEnd[connPc[t]]) /\ UNCHANGED <<connSem, connBus, connGiven, connStuck>>
    BY <1>5 DEF ConnListBegins
  <2>2. connPc[t] \in {"oldest", "append", "get", "drain"} BY <1>5 DEF ConnListBegins, ConnListEnd
  <2>3. /\ connPc[t] = "oldest" => ConnListEnd[connPc[t]] = "oldest2"
        /\ connPc[t] = "append" => ConnListEnd[connPc[t]] = "append2"
        /\ connPc[t] = "get" => ConnListEnd[connPc[t]] = "get2"
        /\ connPc[t] = "drain" => ConnListEnd[connPc[t]] = "drain2"
    BY DEF ConnListEnd
  <2> QED BY <2>1, <2>2, <2>3, ConnSameSort
<1>6. CASE ConnAlloc(t) \/ ConnRecycle(t) \/ ConnFill(t) \/ ConnAppend(t)
  <2>1. PICK l \in {"oldest", "fill", "append", "munlock"} : ConnGoto(t, l)
    BY <1>6 DEF ConnAlloc, ConnRecycle, ConnFill, ConnAppend
  <2>2. UNCHANGED <<connSem, connBus, connGiven, connStuck>> /\ connPc[t] \in ConnHoldsMsg
    BY <1>6 DEF ConnAlloc, ConnRecycle, ConnFill, ConnAppend, connHistory
  <2> QED BY <2>1, <2>2, ConnSameSort
<1>7. ASSUME NEW label, NEW next, NEW none, ConnGet(t, label, next, none)
      PROVE  /\ connPc[t] = label /\ (ConnGoto(t, next) \/ ConnGoto(t, none))
             /\ UNCHANGED <<connSem, connBus, connGiven, connStuck>>
  BY <1>7 DEF ConnGet, connHistory
<1>8. CASE ConnOldest(t) BY <1>7, <1>8, ConnSameSort DEF ConnOldest
<1>9. CASE ConnGot(t) BY <1>7, <1>9, ConnSameSort DEF ConnGot
<1>10. CASE ConnDrain(t) BY <1>7, <1>10, ConnSameSort DEF ConnDrain
<1>11. CASE ConnLook(t) \/ ConnReceive(t) \/ ConnReceiveTooMuch(t)
  <2>1. PICK l \in {"get", "unlock", "spin"} : ConnGoto(t, l)
    BY <1>11 DEF ConnLook, ConnReceive, ConnReceiveTooMuch
  <2>2. UNCHANGED <<connSem, connBus, connGiven, connStuck>> /\ connPc[t] \in ConnHoldsConn
    BY <1>11 DEF ConnLook, ConnReceive, ConnReceiveTooMuch, connHistory
  <2> QED BY <2>1, <2>2, ConnSameSort
<1>12. CASE ConnUnref(t) \/ ConnUnbind(t) \/ ConnDrained(t)
  <2>1. PICK l \in {"process_send", "drain", "idle"} : ConnGoto(t, l)
    BY <1>12 DEF ConnUnref, ConnUnbind, ConnDrained, ConnReturn
  <2>2. UNCHANGED <<connSem, connBus, connGiven, connStuck>> /\ connPc[t] \in ConnFreeOfLocks
    BY <1>12 DEF ConnUnref, ConnUnbind, ConnDrained, connHistory
  <2> QED BY <2>1, <2>2, ConnSameSort
<1>13. CASE ConnSend(t) \/ ConnSendFails(t)
  <2>1. connPc[t] = "send" /\ ConnSendNext(t) /\ UNCHANGED <<connSem, connGiven>>
    BY <1>13 DEF ConnSend, ConnSendFails, connHistory
  <2>2. ConnUser(t, "conn") BY <2>1 DEF ConnUser, ConnHolds
  <2>3. PICK l \in {"unref", "idle"} : ConnGoto(t, l) BY <2>1 DEF ConnSendNext, ConnReturn
  <2>4. \A r \in ConnSems : l \notin ConnHolds(r) BY DEF ConnHolds
  <2>5. connBus = NoConn /\ ~connStuck BY <2>2 DEF ConnKept, ConnAway
  <2>6. CASE ConnSend(t)
    <3>1. connBuf[t] # NoConn <=> connCall[t].op = "process_send"
      BY <2>1 DEF ConnThreadInv, ConnHands, ConnCarries
    <3>2. connBuf[t] = NoConn => connCall[t].msg \in ConnMessages BY <1>a, <2>1, <3>1 DEF ConnCallFits
    <3>3. connBus' # NoConn BY <2>6, <3>2, ConnAssumption DEF ConnSend
    <3>4. ~connStuck' BY <2>5, <2>6 DEF ConnSend, connHistory
    <3> QED BY <2>1, <2>2, <2>3, <2>4, <3>3, <3>4, ConnHandsOver DEF ConnAway
  <2>7. CASE ConnSendFails(t)
    <3>1. connStuck' /\ connBus' = NoConn BY <2>5, <2>7 DEF ConnSendFails
    <3> QED BY <2>1, <2>2, <2>3, <2>4, <3>1, ConnHandsOver DEF ConnAway
  <2> QED BY <1>13, <2>6, <2>7
<1>14. CASE ConnBind(t)
  <2> DEFINE s == IF connPc[t] = "bind" THEN "conn" ELSE "msg"
  <2>1. /\ s \in ConnSems /\ ConnGive(s) /\ connGiven' = connGiven \cup {s} /\ UNCHANGED connBus
        /\ connStuck' = (connStuck /\ s # "conn") /\ connPc[t] \in {"bind", "bind2"}
    BY <1>14 DEF ConnBind, ConnSems
  <2>2. s \in connGiven /\ connSem[s] = 0 => s = "conn" /\ connStuck BY <1>14 DEF ConnBind
  <2>3. ConnKeptOf(s) /\ connSem[s] \in {0, 1} BY <2>1 DEF ConnKept, ConnSems, ConnThreadInv, ConnTyped
  <2>4. (\A u \in ConnThreads : ~ConnUser(u, s)) /\ (s = "conn" => connBus = NoConn)
    BY <2>2, <2>3 DEF ConnKeptOf, ConnKept, ConnAway
  <2>5. PICK l \in {"bind2", "idle"} : ConnGoto(t, l) BY <1>14 DEF ConnBind, ConnReturn
  <2>6. \A u \in ConnThreads : connPc'[u] = IF u = t THEN l ELSE connPc[u]
    BY <2>5 DEF ConnGoto, ConnThreadInv, ConnTyped
  <2>7. \A r \in ConnSems : ~ConnUser(t, r) /\ l \notin ConnHolds(r) BY <2>1 DEF ConnUser, ConnHolds
  <2>8. \A u \in ConnThreads, r \in ConnSems : ConnUser(u, r)' <=> ConnUser(u, r) /\ r # s
    BY <2>4, <2>6, <2>7 DEF ConnUser
  <2>9. s = "conn" => ~ConnAway' BY <2>1, <2>4 DEF ConnAway
  <2>10. s = "msg" => connBus' = connBus /\ (connStuck' <=> connStuck) BY <2>1
  <2> QED BY <2>1, <2>8, <2>9, <2>10, ConnLeaves
<1> QED
  BY <1>1, <1>2, <1>3, <1>4, <1>5, <1>6, <1>8, <1>9, <1>10, <1>11, <1>12, <1>13, <1>14 DEF ConnStep

-----------------------------------------------------------------------------
\* What has gone wrong once is not forgotten.
LEMMA ConnForcedLasts ==
  ASSUME ConnNext, "forced" \in connDamage PROVE "forced" \in connDamage'
<1>1. CASE ConnSent BY <1>1 DEF ConnSent
<1>2. ASSUME NEW t \in ConnThreads, ConnStep(t) PROVE "forced" \in connDamage'
  BY <1>2 DEF ConnStep, ConnStart, ConnRefuse, ConnTake, ConnLeave, ConnListBegins, ConnAlloc, ConnOldest,
     ConnGet, ConnRecycle, ConnFill, ConnAppend, ConnLook, ConnGot, ConnSend, ConnSendFails, ConnUnref,
     ConnReceive, ConnReceiveTooMuch, ConnBind, ConnUnbind, ConnDrain, ConnDrained, connHistory
<1> QED BY <1>1, <1>2 DEF ConnNext

\* The callback gives the semaphore that the driver has kept.
LEMMA ConnSentKept ==
  ASSUME ConnIInv, ConnSent PROVE ConnIInv'
<1> USE DEF ConnIInv
<1>0. UNCHANGED <<connPool, connThread, connGiven, connStuck>> /\ connBus # NoConn /\ connBus' = NoConn
  BY DEF ConnSent
<1>1. connSem' \in [ConnSems -> {0, 1}] BY DEF ConnSent, ConnGive, ConnThreadInv, ConnTyped
<1>2. ConnThreadInv'
  BY <1>0, <1>1 DEF ConnThreadInv, ConnTyped, ConnCalled, ConnHands, connPool, connThread
<1>3. ConnPlaces' BY <1>0, ConnPlacesStay DEF connPool, connThread
<1>4. ASSUME ConnKept PROVE ConnKept'
  <2>1. ConnKeptOf("conn") BY <1>4 DEF ConnKept
  <2>2. "conn" \in connGiven /\ ConnAway BY <1>0, <2>1 DEF ConnKeptOf, ConnAway
  <2>3. \A u \in ConnThreads : ~ConnUser(u, "conn") BY <1>4, <2>2 DEF ConnKept
  <2>4. \A u \in ConnThreads, r \in ConnSems : ConnUser(u, r)' <=> ConnUser(u, r) /\ r # "conn"
    BY <1>0, <2>3 DEF ConnUser, connThread
  <2>5. ~ConnAway' BY <1>0, <1>4 DEF ConnKept, ConnAway
  <2>6. connGiven' = connGiven \cup {"conn"} BY <1>0, <2>2
  <2>7. "conn" \in ConnSems /\ ConnGive("conn") BY DEF ConnSems, ConnSent
  <2> QED BY <1>4, <2>4, <2>5, <2>6, <2>7, ConnLeaves
<1>5. "forced" \notin connDamage' => "forced" \notin connDamage BY DEF ConnSent
<1> QED BY <1>2, <1>3, <1>4, <1>5

\* The inductive invariant: where every semaphore and every buffer is
\* (isotp_conn.c:33-275).
THEOREM ConnInvariance == ConnSpec => []ConnIInv
<1>1. ConnIInv /\ [ConnNext]_connVars => ConnIInv'
  <2> SUFFICES ASSUME ConnIInv, [ConnNext]_connVars PROVE ConnIInv' OBVIOUS
  <2>1. CASE ConnNext
    <3>1. ASSUME NEW t \in ConnThreads, ConnStep(t) PROVE ConnIInv'
      <4>1. ConnThreadInv' BY <3>1, ConnThreadsKept DEF ConnIInv
      <4>2. ConnPlaces' BY <3>1, ConnPlacesKept DEF ConnIInv
      <4>3. "forced" \notin connDamage' => ConnKept' BY <2>1, <3>1, ConnForcedLasts, ConnKeptKept DEF ConnIInv
      <4> QED BY <4>1, <4>2, <4>3 DEF ConnIInv
    <3> QED BY <2>1, <3>1, ConnSentKept DEF ConnNext
  <2>2. CASE UNCHANGED connVars
    <3> USE <2>2 DEF connVars, connPool, connThread, connHistory, ConnIInv
    <3>1. ConnThreadInv' BY DEF ConnThreadInv, ConnTyped, ConnCalled, ConnHands
    <3>2. ConnPlaces' BY ConnPlacesStay
    <3>3. ConnKept => ConnKept' BY ConnKeptStays DEF ConnUser
    <3> QED BY <3>1, <3>2, <3>3
  <2> QED BY <2>1, <2>2
<1> QED BY <1>1, ConnInitInv, PTL DEF ConnSpec

\* No semaphore is lost or free in use, and no buffer is lost or in two places
\* (isotp_conn.c:33-47, :113-139, :191-225, :237-272).
THEOREM NothingLeaks == ConnSpec => []ConnNothingLeaks
BY ConnInvariance, ConnImplies, PTL
-----------------------------------------------------------------------------
(* The refinement of LossyQueue.  To follow the messages the invariant must *)
(* also say that a buffer that is queued or being sent holds one.           *)

ConnAdds == {"alloc", "oldest", "oldest2", "recycle", "fill"}
ConnFilled == {"append", "append2", "send"}
ConnContents ==
  /\ \A t \in ConnThreads :
       /\ connPc[t] = "add" => connCall[t].op = "add"
       /\ connPc[t] \in ConnAdds => connCall[t].msg \in ConnMessages
       /\ connPc[t] \in ConnFilled /\ connBuf[t] # NoConn => connData[connBuf[t]] \in ConnMessages
  /\ \A i \in 1 .. Len(connQueue) : connData[connQueue[i]] \in ConnMessages
  /\ connData \in [ConnBuffers -> ConnMessages \cup {NoConn}]
  /\ connBus \in (ConnBuffers \cup ConnMessages) \cup {NoConn}
  /\ connBus \in ConnBuffers => connData[connBus] \in ConnMessages

\* A step of a thread leaves the others where they are.
LEMMA ConnOthers ==
  ASSUME ConnThreadInv, NEW t \in ConnThreads, ConnStep(t), NEW u \in ConnThreads, u # t
  PROVE  connPc'[u] = connPc[u] /\ connCall'[u] = connCall[u] /\ connBuf'[u] = connBuf[u]
<1> USE DEF ConnThreadInv, ConnTyped, ConnGoto, ConnHold, ConnReturn
<1>1. connPc'[u] = connPc[u]
  BY DEF ConnStep, ConnStart, ConnRefuse, ConnTake, ConnLeave, ConnListBegins, ConnAlloc, ConnOldest, ConnGet,
     ConnRecycle, ConnFill, ConnAppend, ConnLook, ConnGot, ConnSend, ConnSendFails, ConnSendNext, ConnUnref,
     ConnReceive, ConnReceiveTooMuch, ConnBind, ConnUnbind, ConnDrain, ConnDrained
<1>2. connCall'[u] = connCall[u]
  BY DEF ConnStep, ConnStart, ConnRefuse, ConnTake, ConnLeave, ConnListBegins, ConnAlloc, ConnOldest, ConnGet,
     ConnRecycle, ConnFill, ConnAppend, ConnLook, ConnGot, ConnSend, ConnSendFails, ConnSendNext, ConnUnref,
     ConnReceive, ConnReceiveTooMuch, ConnBind, ConnUnbind, ConnDrain, ConnDrained
<1>3. connBuf'[u] = connBuf[u]
  BY DEF ConnStep, ConnStart, ConnRefuse, ConnTake, ConnLeave, ConnListBegins, ConnAlloc, ConnOldest, ConnGet,
     ConnRecycle, ConnFill, ConnAppend, ConnLook, ConnGot, ConnSend, ConnSendFails, ConnSendNext, ConnUnref,
     ConnReceive, ConnReceiveTooMuch, ConnBind, ConnUnbind, ConnDrain, ConnDrained
<1> QED BY <1>1, <1>2, <1>3

\* No message that was put in a buffer is taken out of it but by another.
ConnDataLasts ==
  /\ connData' \in [ConnBuffers -> ConnMessages \cup {NoConn}]
  /\ \A b \in ConnBuffers : connData[b] \in ConnMessages => connData'[b] \in ConnMessages

\* A step of a thread that leaves the bus alone.
LEMMA ConnContentsMove ==
  ASSUME ConnThreadInv, ConnContents, NEW t \in ConnThreads, ConnStep(t), ConnDataLasts, connBus' = connBus,
         connPc'[t] = "add" => connCall'[t].op = "add",
         connPc'[t] \in ConnAdds => connCall'[t].msg \in ConnMessages,
         connPc'[t] \in ConnFilled /\ connBuf'[t] # NoConn => connData'[connBuf'[t]] \in ConnMessages,
         \A i \in 1 .. Len(connQueue') : connData'[connQueue'[i]] \in ConnMessages
  PROVE  ConnContents'
<1>1. ASSUME NEW u \in ConnThreads
      PROVE  /\ connPc'[u] = "add" => connCall'[u].op = "add"
             /\ connPc'[u] \in ConnAdds => connCall'[u].msg \in ConnMessages
             /\ connPc'[u] \in ConnFilled /\ connBuf'[u] # NoConn => connData'[connBuf'[u]] \in ConnMessages
  <2>1. CASE u = t BY <2>1
  <2>2. CASE u # t
    <3>1. connPc'[u] = connPc[u] /\ connCall'[u] = connCall[u] /\ connBuf'[u] = connBuf[u] BY <2>2, ConnOthers
    <3>2. connBuf[u] \in ConnBuffers \cup {NoConn} BY DEF ConnThreadInv, ConnTyped
    <3>3. /\ connPc[u] = "add" => connCall[u].op = "add"
          /\ connPc[u] \in ConnAdds => connCall[u].msg \in ConnMessages
          /\ connPc[u] \in ConnFilled /\ connBuf[u] # NoConn => connData[connBuf[u]] \in ConnMessages
      BY DEF ConnContents
    <3> QED BY <3>1, <3>2, <3>3 DEF ConnDataLasts
  <2> QED BY <2>1, <2>2
<1>2. connBus' \in ConnBuffers => connData'[connBus'] \in ConnMessages BY DEF ConnContents, ConnDataLasts
<1>3. connBus' \in (ConnBuffers \cup ConnMessages) \cup {NoConn} BY DEF ConnContents
<1>4. connData' \in [ConnBuffers -> ConnMessages \cup {NoConn}] BY DEF ConnDataLasts
<1> QED BY <1>1, <1>2, <1>3, <1>4 DEF ConnContents

\* What was read from the queue, and what is left in it.
LEMMA ConnGetQueue ==
  ASSUME ConnThreadInv, ConnContents, NEW t \in ConnThreads, NEW label, NEW next, NEW none,
         ConnGet(t, label, next, none)
  PROVE  /\ \A i \in 1 .. Len(connQueue') : connData'[connQueue'[i]] \in ConnMessages
         /\ connQueue # <<>> => connData'[connBuf'[t]] \in ConnMessages
         /\ UNCHANGED <<connData, connBus, connCall, connDamage>> /\ connPc[t] = label
         /\ connQueue = <<>> => connPc'[t] = none
         /\ connQueue # <<>> => connPc'[t] = next /\ connBuf'[t] = Head(connQueue) /\ connQueue' = Tail(connQueue)
         /\ connQueue = <<>> => UNCHANGED <<connQueue, connBuf>>
<1> USE DEF ConnGet, ConnGoto, ConnHold, connHistory, ConnThreadInv, ConnTyped
<1>1. CASE connQueue = <<>> BY <1>1 DEF ConnContents
<1>2. CASE connQueue # <<>>
  <2>1. /\ Len(connQueue) \in Nat /\ Len(connQueue) >= 1 /\ Head(connQueue) = connQueue[1]
        /\ Len(Tail(connQueue)) = Len(connQueue) - 1
        /\ \A i \in 1 .. Len(Tail(connQueue)) : Tail(connQueue)[i] = connQueue[i + 1]
    BY <1>2
  <2>2. /\ connPc[t] = label /\ connPc'[t] = next /\ connBuf'[t] = Head(connQueue) /\ connQueue' = Tail(connQueue)
        /\ UNCHANGED <<connData, connBus, connCall, connDamage>>
    BY <1>2
  <2>3. \A i \in 1 .. Len(connQueue) : connData[connQueue[i]] \in ConnMessages BY DEF ConnContents
  <2>4. \A i \in 1 .. Len(connQueue') : connQueue'[i] = connQueue[i + 1] /\ i + 1 \in 1 .. Len(connQueue)
    BY <2>1, <2>2
  <2>5. \A i \in 1 .. Len(connQueue') : connData'[connQueue'[i]] \in ConnMessages BY <2>2, <2>3, <2>4
  <2>6. connData'[connBuf'[t]] \in ConnMessages BY <2>1, <2>2, <2>3
  <2> HIDE DEF ConnGet, ConnGoto, ConnHold, connHistory, ConnThreadInv, ConnTyped
  <2> QED BY <1>2, <2>2, <2>5, <2>6
<1> QED BY <1>1, <1>2

LEMMA ConnContentsKept ==
  ASSUME ConnThreadInv, ConnContents, NEW t \in ConnThreads, ConnStep(t) PROVE ConnContents'
<1> DEFINE c == connCall[t]
<1>a. /\ connPc \in [ConnThreads -> ConnLabels] /\ connBuf \in [ConnThreads -> ConnBuffers \cup {NoConn}]
      /\ connCall = [u \in ConnThreads |-> connCall[u]] /\ connQueue \in Seq(ConnBuffers)
  BY DEF ConnThreadInv, ConnTyped
<1>b. ConnCallFits(t, connPc[t], c) BY DEF ConnThreadInv, ConnCalled
<1>c. connBuf[t] # NoConn <=> ConnCarries(connPc[t], c) BY DEF ConnThreadInv, ConnHands
<1>d. /\ connPc[t] = "add" => c.op = "add"
      /\ connPc[t] \in ConnAdds => c.msg \in ConnMessages
      /\ connPc[t] \in ConnFilled /\ connBuf[t] # NoConn => connData[connBuf[t]] \in ConnMessages
  BY DEF ConnContents
<1>e. \A i \in 1 .. Len(connQueue) : connData[connQueue[i]] \in ConnMessages BY DEF ConnContents
<1>f. connData' = connData => ConnDataLasts BY DEF ConnContents, ConnDataLasts
<1> USE DEF ConnGoto, ConnHold, ConnReturn
<1>0. ASSUME UNCHANGED <<connData, connBus>>, connQueue' = connQueue,
             connPc'[t] # "add", connPc'[t] \notin ConnAdds, connPc'[t] \notin ConnFilled
      PROVE  ConnContents'
  BY <1>0, <1>e, <1>f, ConnContentsMove
<1>1. CASE ConnStart(t)
  <2>1. PICK d \in ConnCallsOf[t] : connCall' = [connCall EXCEPT ![t] = d] /\ connPc' = [connPc EXCEPT ![t] = d.op]
    BY <1>1 DEF ConnStart
  <2>2. d.op \in {"add", "transmit", "process_send", "receive", "bind", "unbind"} BY ConnAssumption
  <2>3. connPc'[t] = d.op /\ connCall'[t] = d BY <1>a, <2>1
  <2>4. UNCHANGED <<connData, connBus, connQueue>> BY <1>1 DEF ConnStart, connPool
  <2> QED BY <1>e, <1>f, <2>2, <2>3, <2>4, ConnContentsMove DEF ConnAdds, ConnFilled
<1>2. CASE ConnRefuse(t) \/ ConnLeave(t)
  <2>1. connPc' = [connPc EXCEPT ![t] = "idle"] /\ UNCHANGED <<connData, connBus, connQueue>>
    BY <1>2 DEF ConnRefuse, ConnLeave, connPool
  <2>2. connPc'[t] = "idle" BY <1>a, <2>1
  <2> QED BY <1>0, <2>1, <2>2 DEF ConnAdds, ConnFilled
<1>3. CASE ConnTake(t)
  <2>1. UNCHANGED <<connData, connBus, connQueue, connCall, connBuf>> BY <1>3 DEF ConnTake, connPool
  <2>2. CASE connPc[t] = "add"
    <3>1. connPc' = [connPc EXCEPT ![t] = "alloc"] BY <1>3, <2>2 DEF ConnTake, ConnLockers
    <3>2. connPc'[t] = "alloc" BY <1>a, <3>1
    <3>3. c.op = "add" /\ c \in ConnCallsOf[t] /\ c.msg # ConnTooLong
      BY <1>3, <1>b, <1>d, <2>2 DEF ConnTake, ConnCallFits
    <3>4. c.msg \in ConnMessages BY <3>3, ConnAssumption
    <3> QED BY <1>e, <1>f, <2>1, <3>2, <3>4, ConnContentsMove DEF ConnAdds, ConnFilled
  <2>3. CASE connPc[t] = "process_send" \/ connPc[t] = "receive"
    <3>1. PICK l \in {"look", "recv"} : connPc' = [connPc EXCEPT ![t] = l]
      BY <1>3, <2>3 DEF ConnTake, ConnLockers
    <3>2. connPc'[t] \in {"look", "recv"} BY <1>a, <3>1
    <3> QED BY <1>0, <2>1, <3>2 DEF ConnAdds, ConnFilled
  <2>4. CASE connPc[t] = "transmit"
    <3>1. connPc' = [connPc EXCEPT ![t] = "send"] BY <1>3, <2>4 DEF ConnTake, ConnLockers
    <3>2. connPc'[t] = "send" BY <1>a, <3>1
    <3>3. connBuf'[t] = NoConn BY <1>c, <2>1, <2>4 DEF ConnCarries
    <3> QED BY <1>e, <1>f, <2>1, <3>2, <3>3, ConnContentsMove DEF ConnAdds, ConnFilled
  <2> QED BY <1>3, <2>2, <2>3, <2>4 DEF ConnTake, ConnLockers
<1>4. CASE ConnListBegins(t)
  <2>1. connPc[t] \in {"oldest", "append", "get", "drain"} BY <1>4 DEF ConnListBegins, ConnListEnd
  <2>2. connPc'[t] = ConnListEnd[connPc[t]] BY <1>a, <1>4 DEF ConnListBegins
  <2>3. /\ connPc[t] = "oldest" => connPc'[t] = "oldest2"
        /\ connPc[t] = "append" => connPc'[t] = "append2"
        /\ connPc[t] = "get" => connPc'[t] = "get2"
        /\ connPc[t] = "drain" => connPc'[t] = "drain2"
    BY <2>2 DEF ConnListEnd
  <2>4. UNCHANGED <<connData, connBus, connQueue, connCall, connBuf>> BY <1>4 DEF ConnListBegins, connPool
  <2> QED BY <1>d, <1>e, <1>f, <2>1, <2>3, <2>4, ConnContentsMove DEF ConnAdds, ConnFilled
<1>5. CASE ConnAlloc(t)
  <2>1. connPc[t] = "alloc" /\ UNCHANGED <<connData, connBus, connQueue, connCall>> BY <1>5 DEF ConnAlloc
  <2>2. connPc'[t] \in {"oldest", "fill"}
    <3>1. CASE connFree = {} BY <1>a, <1>5, <3>1 DEF ConnAlloc
    <3>2. CASE connFree # {} BY <1>a, <1>5, <3>2 DEF ConnAlloc
    <3> QED BY <3>1, <3>2
  <2> QED BY <1>d, <1>e, <1>f, <2>1, <2>2, ConnContentsMove DEF ConnAdds, ConnFilled
<1>6. CASE ConnOldest(t)
  <2>1. /\ connPc[t] = "oldest2" /\ connPc'[t] \in {"recycle", "munlock"}
        /\ UNCHANGED <<connData, connBus, connCall>>
        /\ \A i \in 1 .. Len(connQueue') : connData'[connQueue'[i]] \in ConnMessages
    BY <1>6, ConnGetQueue DEF ConnOldest
  <2> QED BY <1>d, <1>f, <2>1, ConnContentsMove DEF ConnAdds, ConnFilled
<1>7. CASE ConnRecycle(t)
  <2>1. connPc[t] = "recycle" /\ connPc'[t] = "fill" /\ UNCHANGED <<connData, connBus, connQueue, connCall>>
    BY <1>a, <1>7 DEF ConnRecycle
  <2> QED BY <1>d, <1>e, <1>f, <2>1, ConnContentsMove DEF ConnAdds, ConnFilled
<1>8. CASE ConnFill(t)
  <2>1. /\ connPc[t] = "fill" /\ connPc'[t] = "append" /\ UNCHANGED <<connBus, connQueue, connCall, connBuf>>
        /\ connData' = [connData EXCEPT ![connBuf[t]] = c.msg]
    BY <1>a, <1>8 DEF ConnFill
  <2>2. connBuf[t] \in ConnBuffers /\ c.msg \in ConnMessages BY <1>a, <1>c, <1>d, <2>1 DEF ConnCarries, ConnAdds
  <2>3. connData \in [ConnBuffers -> ConnMessages \cup {NoConn}] BY DEF ConnContents
  <2>4. \A b \in ConnBuffers : connData'[b] = IF b = connBuf[t] THEN c.msg ELSE connData[b] BY <2>1, <2>3
  <2>5. ConnDataLasts BY <2>1, <2>2, <2>3, <2>4 DEF ConnDataLasts
  <2>6. \A i \in 1 .. Len(connQueue') : connData'[connQueue'[i]] \in ConnMessages
    BY <1>a, <1>e, <2>1, <2>5 DEF ConnDataLasts
  <2>7. connData'[connBuf'[t]] \in ConnMessages BY <2>1, <2>2, <2>4
  <2> QED BY <2>1, <2>5, <2>6, <2>7, ConnContentsMove DEF ConnAdds, ConnFilled
<1>9. CASE ConnAppend(t)
  <2>1. /\ connPc[t] = "append2" /\ connPc'[t] = "munlock" /\ UNCHANGED <<connData, connBus, connCall>>
        /\ connQueue' = Append(connQueue, connBuf[t])
    BY <1>a, <1>9 DEF ConnAppend
  <2>2. connBuf[t] \in ConnBuffers /\ connData[connBuf[t]] \in ConnMessages
    BY <1>a, <1>c, <1>d, <2>1 DEF ConnCarries, ConnFilled
  <2>3. \A i \in 1 .. Len(connQueue') : connQueue'[i] = connBuf[t] \/ (i \in 1 .. Len(connQueue) /\ connQueue'[i] = connQueue[i])
    BY <1>a, <2>1, <2>2
  <2>4. \A i \in 1 .. Len(connQueue') : connData'[connQueue'[i]] \in ConnMessages BY <1>e, <2>1, <2>2, <2>3
  <2> QED BY <1>f, <2>1, <2>4, ConnContentsMove DEF ConnAdds, ConnFilled
<1>10. CASE ConnLook(t)
  <2>1. PICK l \in {"unlock", "get"} : connPc' = [connPc EXCEPT ![t] = l] BY <1>10 DEF ConnLook
  <2>2. connPc'[t] \in {"unlock", "get"} /\ UNCHANGED <<connData, connBus, connQueue>>
    BY <1>a, <1>10, <2>1 DEF ConnLook, connPool
  <2> QED BY <1>0, <2>2 DEF ConnAdds, ConnFilled
<1>11. CASE ConnGot(t)
  <2>1. /\ connQueue = <<>> => connPc'[t] = "unlock"
        /\ connQueue # <<>> => connPc'[t] = "send" /\ connData'[connBuf'[t]] \in ConnMessages
        /\ UNCHANGED <<connData, connBus, connCall>>
        /\ \A i \in 1 .. Len(connQueue') : connData'[connQueue'[i]] \in ConnMessages
    BY <1>11, ConnGetQueue DEF ConnGot
  <2>2. CASE connQueue = <<>> BY <1>f, <2>1, <2>2, ConnContentsMove DEF ConnAdds, ConnFilled
  <2>3. CASE connQueue # <<>> BY <1>f, <2>1, <2>3, ConnContentsMove DEF ConnAdds
  <2> QED BY <2>2, <2>3
<1>12. CASE ConnSend(t) \/ ConnSendFails(t)
  <2>1. connPc[t] = "send" /\ UNCHANGED <<connData, connQueue>> /\ ConnSendNext(t)
    BY <1>12 DEF ConnSend, ConnSendFails, connPool
  <2>2. connPc'[t] \in {"unref", "idle"}
    <3>1. CASE c.op = "process_send" BY <1>a, <2>1, <3>1 DEF ConnSendNext
    <3>2. CASE c.op # "process_send" BY <1>a, <2>1, <3>2 DEF ConnSendNext
    <3> QED BY <3>1, <3>2
  <2>3. CASE connBus' = connBus BY <1>0, <2>1, <2>2, <2>3 DEF ConnAdds, ConnFilled
  <2>4. CASE connBus' # connBus
    <3>1. connBus' = IF connBuf[t] = NoConn THEN c.msg ELSE connBuf[t] BY <1>12, <2>4 DEF ConnSend, ConnSendFails
    <3>2. /\ connBus' \in (ConnBuffers \cup ConnMessages) \cup {NoConn}
          /\ connBus' \in ConnBuffers => connData'[connBus'] \in ConnMessages
      <4>1. CASE connBuf[t] = NoConn
        <5>1. c.msg \in ConnMessages BY <1>b, <1>c, <2>1, <4>1 DEF ConnCallFits, ConnCarries
        <5> QED BY <3>1, <4>1, <5>1, ConnAssumption
      <4>2. CASE connBuf[t] # NoConn BY <1>a, <1>d, <2>1, <3>1, <4>2 DEF ConnFilled
      <4> QED BY <4>1, <4>2
    <3>3. ASSUME NEW u \in ConnThreads
          PROVE  /\ connPc'[u] = "add" => connCall'[u].op = "add"
                 /\ connPc'[u] \in ConnAdds => connCall'[u].msg \in ConnMessages
                 /\ connPc'[u] \in ConnFilled /\ connBuf'[u] # NoConn => connData'[connBuf'[u]] \in ConnMessages
      <4>1. CASE u = t BY <2>2, <4>1 DEF ConnAdds, ConnFilled
      <4>2. CASE u # t
        <5>1. connPc'[u] = connPc[u] /\ connCall'[u] = connCall[u] /\ connBuf'[u] = connBuf[u] BY <4>2, ConnOthers
        <5> QED BY <2>1, <5>1 DEF ConnContents
      <4> QED BY <4>1, <4>2
    <3>4. connData' \in [ConnBuffers -> ConnMessages \cup {NoConn}] BY <2>1 DEF ConnContents
    <3> QED BY <1>e, <2>1, <3>2, <3>3, <3>4 DEF ConnContents
  <2> QED BY <2>3, <2>4
<1>13. CASE ConnUnref(t) \/ ConnReceive(t) \/ ConnReceiveTooMuch(t) \/ ConnUnbind(t)
  <2>1. PICK l \in {"process_send", "unlock", "spin", "drain"} : connPc' = [connPc EXCEPT ![t] = l]
    BY <1>13 DEF ConnUnref, ConnReceive, ConnReceiveTooMuch, ConnUnbind
  <2>2. UNCHANGED <<connData, connBus, connQueue>>
    BY <1>13 DEF ConnUnref, ConnReceive, ConnReceiveTooMuch, ConnUnbind, connPool
  <2>3. connPc'[t] = l BY <1>a, <2>1
  <2> QED BY <1>0, <2>2, <2>3 DEF ConnAdds, ConnFilled
<1>14. CASE ConnBind(t)
  <2>1. PICK l \in {"bind2", "idle"} : connPc' = [connPc EXCEPT ![t] = l]
    <3>1. CASE connPc[t] = "bind" BY <1>14, <3>1 DEF ConnBind
    <3>2. CASE connPc[t] # "bind" BY <1>14, <3>2 DEF ConnBind
    <3> QED BY <3>1, <3>2
  <2>2. connPc'[t] = l BY <1>a, <2>1
  <2>3. UNCHANGED <<connData, connBus, connQueue>> BY <1>14 DEF ConnBind, connPool
  <2> QED BY <1>0, <2>2, <2>3 DEF ConnAdds, ConnFilled
<1>15. CASE ConnDrain(t)
  <2>1. /\ connPc'[t] \in {"dunref", "done"} /\ UNCHANGED <<connData, connBus>>
        /\ \A i \in 1 .. Len(connQueue') : connData'[connQueue'[i]] \in ConnMessages
    BY <1>15, ConnGetQueue DEF ConnDrain
  <2> QED BY <1>f, <2>1, ConnContentsMove DEF ConnAdds, ConnFilled
<1>16. CASE ConnDrained(t)
  <2>1. PICK l \in {"idle", "drain"} : connPc' = [connPc EXCEPT ![t] = l] BY <1>16 DEF ConnDrained
  <2>2. connPc'[t] = l BY <1>a, <2>1
  <2>3. UNCHANGED <<connData, connBus, connQueue>> BY <1>16 DEF ConnDrained
  <2> QED BY <1>0, <2>2, <2>3 DEF ConnAdds, ConnFilled
<1> QED BY <1>1, <1>2, <1>3, <1>4, <1>5, <1>6, <1>7, <1>8, <1>9, <1>10, <1>11, <1>12, <1>13, <1>14, <1>15, <1>16
      DEF ConnStep

\* The callback of the driver.
LEMMA ConnContentsSent == ASSUME ConnContents, ConnSent PROVE ConnContents'
BY ConnAssumption DEF ConnContents, ConnSent, ConnAdds, ConnFilled, connPool, connThread

\* No buffer is queued or sent that nothing was put in (isotp_conn.c:191-275).
THEOREM ConnContentsInvariance == ConnSpec => [](ConnIInv /\ ConnContents)
<1>1. ConnInit => ConnContents
  BY ConnAssumption DEF ConnInit, ConnContents, ConnAdds, ConnFilled
<1>2. ConnIInv /\ ConnContents /\ [ConnNext]_connVars => ConnContents'
  <2> SUFFICES ASSUME ConnIInv, ConnContents, [ConnNext]_connVars PROVE ConnContents' OBVIOUS
  <2>1. CASE ConnSent BY <2>1, ConnContentsSent
  <2>2. ASSUME NEW t \in ConnThreads, ConnStep(t) PROVE ConnContents' BY <2>2, ConnContentsKept DEF ConnIInv
  <2>3. CASE UNCHANGED connVars
    BY <2>3 DEF ConnContents, ConnAdds, ConnFilled, connVars, connPool, connThread
  <2> QED BY <2>1, <2>2, <2>3 DEF ConnNext
<1> QED BY <1>1, <1>2, ConnInvariance, PTL DEF ConnSpec

-----------------------------------------------------------------------------
\* The queue of messages that a queue of buffers is.
ConnMapped(f, q) == [i \in 1 .. Len(q) |-> f[q[i]]]

LEMMA ConnMappedTail ==
  ASSUME NEW f, NEW q \in Seq(ConnBuffers), q # <<>>
  PROVE  /\ ConnMapped(f, Tail(q)) = Tail(ConnMapped(f, q))
         /\ Head(ConnMapped(f, q)) = f[Head(q)] /\ ConnMapped(f, q) # <<>>
<1> DEFINE M == {f[b] : b \in ConnBuffers}
           v == ConnMapped(f, q)
           w == ConnMapped(f, Tail(q))
<1>1. Tail(q) \in Seq(ConnBuffers) /\ Len(Tail(q)) = Len(q) - 1 /\ \A i \in 1 .. Len(Tail(q)) : Tail(q)[i] = q[i + 1]
  BY HeadTailProperties
<1>2. Len(q) \in Nat /\ Len(q) >= 1 /\ Head(q) = q[1] OBVIOUS
<1>3. Len(v) = Len(q) /\ v \in Seq(M) /\ \A i \in 1 .. Len(q) : v[i] = f[q[i]] BY DEF ConnMapped
<1>4. Len(w) = Len(Tail(q)) /\ w \in Seq(M) /\ \A i \in 1 .. Len(Tail(q)) : w[i] = f[Tail(q)[i]]
  BY <1>1 DEF ConnMapped
<1> HIDE DEF M, v, w
<1>5. v # <<>> /\ Head(v) = f[Head(q)] BY <1>2, <1>3
<1>6. Tail(v) \in Seq(M) /\ Len(Tail(v)) = Len(v) - 1 /\ \A i \in 1 .. Len(Tail(v)) : Tail(v)[i] = v[i + 1]
  BY <1>3, <1>5, HeadTailProperties
<1>7. \A i \in 1 .. Len(w) : w[i] = Tail(v)[i] BY <1>1, <1>2, <1>3, <1>4, <1>6
<1>8. w = Tail(v) BY <1>1, <1>3, <1>4, <1>6, <1>7, SeqEqual
<1> QED BY <1>5, <1>8 DEF v, w

LEMMA ConnMappedAppend ==
  ASSUME NEW f, NEW q \in Seq(ConnBuffers), NEW r \in ConnBuffers
  PROVE  ConnMapped(f, Append(q, r)) = Append(ConnMapped(f, q), f[r])
<1>1. /\ Append(q, r) \in Seq(ConnBuffers) /\ Len(Append(q, r)) = Len(q) + 1 /\ Len(q) \in Nat
      /\ \A i \in 1 .. Len(q) + 1 : Append(q, r)[i] = IF i = Len(q) + 1 THEN r ELSE q[i]
  OBVIOUS
<1>2. /\ Len(ConnMapped(f, q)) = Len(q) /\ ConnMapped(f, q) \in Seq({f[b] : b \in ConnBuffers})
      /\ \A i \in 1 .. Len(q) : ConnMapped(f, q)[i] = f[q[i]]
  BY DEF ConnMapped
<1>3. Append(ConnMapped(f, q), f[r])
        = [i \in 1 .. Len(q) + 1 |-> IF i = Len(q) + 1 THEN f[r] ELSE ConnMapped(f, q)[i]]
  BY <1>1, <1>2
<1>4. ConnMapped(f, Append(q, r)) = [i \in 1 .. Len(q) + 1 |-> f[Append(q, r)[i]]] BY <1>1 DEF ConnMapped
<1>5. \A i \in 1 .. Len(q) + 1 :
        f[Append(q, r)[i]] = IF i = Len(q) + 1 THEN f[r] ELSE ConnMapped(f, q)[i]
  BY <1>1, <1>2
<1> QED BY <1>3, <1>4, <1>5

LEMMA ConnMappedSame ==
  ASSUME NEW S, NEW f, NEW g, NEW q \in Seq(S), \A i \in 1 .. Len(q) : f[q[i]] = g[q[i]]
  PROVE  ConnMapped(f, q) = ConnMapped(g, q)
BY DEF ConnMapped

\* The messages that wait.
LEMMA ConnWaitingIs == ConnTyped => ConnWaiting = ConnMapped(connData, connQueue)
BY DEF ConnTyped, ConnWaiting, ConnMapped

LEMMA ConnWaitingNext == ConnTyped' => ConnWaiting' = ConnMapped(connData', connQueue')
BY DEF ConnTyped, ConnWaiting, ConnMapped

-----------------------------------------------------------------------------
\* The message being sent.
ConnMessageOf(t) == IF connCall[t].op = "transmit" THEN connCall[t].msg ELSE connData[connBuf[t]]
ConnSendingFacts ==
  /\ connBus # NoConn
       => /\ ConnSending = (IF connBus \in ConnBuffers THEN connData[connBus] ELSE connBus)
          /\ \A t \in ConnThreads : connPc[t] # "send"
  /\ \A t \in ConnThreads :
       connPc[t] = "send" =>
         /\ connBus = NoConn /\ ConnSending = ConnMessageOf(t)
         /\ \A u \in ConnThreads : connPc[u] = "send" => u = t
  /\ connBus = NoConn /\ (\A t \in ConnThreads : connPc[t] # "send") => ConnSending = NoConn

LEMMA ConnSendingIs == ConnKept => ConnSendingFacts
<1> SUFFICES ASSUME ConnKept PROVE ConnSendingFacts OBVIOUS
<1>1. \A t \in ConnThreads : connPc[t] = "send" => ConnUser(t, "conn")
  BY DEF ConnUser, ConnHolds, ConnHoldsConn
<1>2. connBus # NoConn => \A t \in ConnThreads : connPc[t] # "send" BY <1>1 DEF ConnKept, ConnAway
<1>3. connBus # NoConn => ConnSending = (IF connBus \in ConnBuffers THEN connData[connBus] ELSE connBus)
  BY DEF ConnSending
<1>4. ASSUME NEW t \in ConnThreads, connPc[t] = "send"
      PROVE  /\ connBus = NoConn /\ ConnSending = ConnMessageOf(t)
             /\ \A u \in ConnThreads : connPc[u] = "send" => u = t
  <2>1. connBus = NoConn BY <1>2, <1>4
  <2>2. \A u \in ConnThreads : connPc[u] = "send" => u = t BY <1>1, <1>4 DEF ConnKept, ConnKeptOf
  <2>3. {u \in ConnThreads : connPc[u] = "send"} = {t} BY <1>4, <2>2
  <2>4. (CHOOSE u \in {u \in ConnThreads : connPc[u] = "send"} : TRUE) = t BY <2>3
  <2>5. ConnSending = ConnMessageOf(t) BY <2>1, <2>3, <2>4 DEF ConnSending, ConnMessageOf
  <2> QED BY <2>1, <2>2, <2>5
<1>5. ASSUME connBus = NoConn, \A t \in ConnThreads : connPc[t] # "send" PROVE ConnSending = NoConn
  BY <1>5 DEF ConnSending
<1> QED BY <1>2, <1>3, <1>4, <1>5 DEF ConnSendingFacts

LEMMA ConnSendingNext == ConnKept' => ConnSendingFacts' BY ConnSendingIs, PTL

\* A thread that is not about to send, and changes no message that is being
\* sent, leaves what is being sent alone.
LEMMA ConnSendingStays ==
  ASSUME ConnThreadInv, ConnKept, ConnKept', NEW t \in ConnThreads, ConnStep(t),
         connPc[t] # "send", connPc'[t] # "send", connBus' = connBus,
         connBus \in ConnBuffers => connData'[connBus] = connData[connBus],
         \A u \in ConnThreads :
           u # t /\ connBuf[u] \in ConnBuffers => connData'[connBuf[u]] = connData[connBuf[u]]
  PROVE  ConnSending' = ConnSending
<1>0. ConnSendingFacts /\ ConnSendingFacts' BY ConnSendingIs, ConnSendingNext
<1>1. \A u \in ConnThreads : connPc'[u] = "send" <=> connPc[u] = "send"
  <2> SUFFICES ASSUME NEW u \in ConnThreads PROVE connPc'[u] = "send" <=> connPc[u] = "send" OBVIOUS
  <2>1. CASE u = t BY <2>1
  <2>2. CASE u # t BY <2>2, ConnOthers
  <2> QED BY <2>1, <2>2
<1>2. CASE connBus # NoConn BY <1>0, <1>2 DEF ConnSendingFacts
<1>3. CASE connBus = NoConn /\ \A u \in ConnThreads : connPc[u] # "send"
  BY <1>0, <1>1, <1>3 DEF ConnSendingFacts
<1>4. ASSUME NEW u \in ConnThreads, connPc[u] = "send" PROVE ConnSending' = ConnSending
  <2>1. u # t BY <1>4
  <2>2. connPc'[u] = connPc[u] /\ connCall'[u] = connCall[u] /\ connBuf'[u] = connBuf[u] BY <2>1, ConnOthers
  <2>3. ConnSending = ConnMessageOf(u) /\ ConnSending' = ConnMessageOf(u)'
    BY <1>0, <1>4, <2>2 DEF ConnSendingFacts
  <2>4. connCall[u].op # "transmit" => connBuf[u] \in ConnBuffers
    BY <1>4 DEF ConnThreadInv, ConnTyped, ConnCalled, ConnCallFits, ConnHands, ConnCarries
  <2> QED BY <2>1, <2>2, <2>3, <2>4 DEF ConnMessageOf
<1> QED BY <1>2, <1>3, <1>4

\* The steps of a thread, as steps of the queue of messages.
ConnMaps == Promised!Next \/ UNCHANGED <<ConnWaiting, ConnSending>>

LEMMA ConnWaitingStays ==
  ASSUME ConnTyped, ConnTyped', connQueue' = connQueue,
         \A i \in 1 .. Len(connQueue) : connData'[connQueue[i]] = connData[connQueue[i]]
  PROVE  ConnWaiting' = ConnWaiting
<1>1. ConnWaiting = ConnMapped(connData, connQueue) /\ ConnWaiting' = ConnMapped(connData', connQueue)
  BY ConnWaitingIs, ConnWaitingNext
<1>2. connQueue \in Seq(ConnBuffers) BY DEF ConnTyped
<1>3. ConnMapped(connData', connQueue) = ConnMapped(connData, connQueue) BY <1>2 DEF ConnMapped
<1> QED BY <1>1, <1>3

\* A step that is none of the queue of messages.
LEMMA ConnStutters ==
  ASSUME ConnThreadInv, ConnThreadInv', ConnKept, ConnKept', NEW t \in ConnThreads, ConnStep(t),
         connPc[t] # "send", connPc'[t] # "send", connBus' = connBus, connData' = connData,
         connQueue' = connQueue
  PROVE  ConnMaps
<1>1. ConnSending' = ConnSending BY ConnSendingStays
<1>2. ConnWaiting' = ConnWaiting BY ConnWaitingStays DEF ConnThreadInv
<1> QED BY <1>1, <1>2 DEF ConnMaps

\* The oldest message leaves the queue, if there is one.
LEMMA ConnWaitingHead ==
  ASSUME ConnTyped, ConnTyped', connQueue # <<>>, connQueue' = Tail(connQueue), connData' = connData
  PROVE  /\ ConnWaiting # <<>> /\ ConnWaiting' = Tail(ConnWaiting)
         /\ Head(ConnWaiting) = connData[Head(connQueue)]
<1>1. connQueue \in Seq(ConnBuffers) BY DEF ConnTyped
<1>2. ConnWaiting = ConnMapped(connData, connQueue) /\ ConnWaiting' = ConnMapped(connData, Tail(connQueue))
  BY ConnWaitingIs, ConnWaitingNext
<1>3. /\ ConnMapped(connData, Tail(connQueue)) = Tail(ConnMapped(connData, connQueue))
      /\ Head(ConnMapped(connData, connQueue)) = connData[Head(connQueue)]
      /\ ConnMapped(connData, connQueue) # <<>>
  BY <1>1, ConnMappedTail
<1> QED BY <1>2, <1>3

LEMMA ConnDrops ==
  ASSUME ConnThreadInv, ConnThreadInv', ConnKept, ConnKept', ConnContents, NEW t \in ConnThreads, ConnStep(t),
         NEW label, NEW next, NEW none, ConnGet(t, label, next, none),
         label # "send", next # "send", none # "send"
  PROVE  ConnMaps
<1>1. /\ connQueue # <<>> => connPc'[t] = next /\ connQueue' = Tail(connQueue)
      /\ connQueue = <<>> => connPc'[t] = none /\ connQueue' = connQueue
      /\ connPc[t] = label /\ UNCHANGED <<connData, connBus>>
  BY ConnGetQueue
<1>2. CASE connQueue = <<>> BY <1>1, <1>2, ConnStutters
<1>3. CASE connQueue # <<>>
  <2>1. ConnSending' = ConnSending BY <1>1, <1>3, ConnSendingStays
  <2>2. ConnWaiting # <<>> /\ ConnWaiting' = Tail(ConnWaiting)
    BY <1>1, <1>3, ConnWaitingHead DEF ConnThreadInv
  <2>3. Promised!DropOldest BY <2>1, <2>2 DEF Promised!DropOldest
  <2> QED BY <2>3 DEF ConnMaps, Promised!Next
<1> QED BY <1>2, <1>3

\* An add appends the message that was put in the buffer.
LEMMA ConnAdded ==
  ASSUME ConnThreadInv, ConnThreadInv', ConnKept, ConnKept', ConnContents, NEW t \in ConnThreads, ConnStep(t),
         ConnAppend(t)
  PROVE  ConnMaps
<1>1. /\ connPc[t] = "append2" /\ connPc'[t] = "munlock" /\ connQueue' = Append(connQueue, connBuf[t])
      /\ UNCHANGED <<connData, connBus>>
  BY DEF ConnAppend, ConnGoto, ConnThreadInv, ConnTyped
<1>2. connBuf[t] \in ConnBuffers /\ connData[connBuf[t]] \in ConnMessages
  BY <1>1 DEF ConnThreadInv, ConnTyped, ConnHands, ConnCarries, ConnContents, ConnFilled
<1>3. connQueue \in Seq(ConnBuffers) BY DEF ConnThreadInv, ConnTyped
<1>4. /\ ConnWaiting = ConnMapped(connData, connQueue)
      /\ ConnWaiting' = ConnMapped(connData, Append(connQueue, connBuf[t]))
  BY <1>1, ConnWaitingIs, ConnWaitingNext DEF ConnThreadInv
<1>5. ConnWaiting' = Append(ConnWaiting, connData[connBuf[t]]) BY <1>2, <1>3, <1>4, ConnMappedAppend
<1>6. ConnSending' = ConnSending BY <1>1, ConnSendingStays
<1>7. Promised!Add BY <1>2, <1>5, <1>6 DEF Promised!Add
<1> QED BY <1>7 DEF ConnMaps, Promised!Next

\* The buffer that is filled is neither queued nor, unless torn, being sent.
LEMMA ConnFills ==
  ASSUME ConnThreadInv, ConnThreadInv', ConnKept, ConnKept', ConnPlaces, NEW t \in ConnThreads, ConnStep(t),
         ConnFill(t), connDamage' = {}
  PROVE  ConnMaps
<1>1. /\ connPc[t] = "fill" /\ connPc'[t] = "append" /\ UNCHANGED <<connBus, connQueue>>
      /\ connData' = [connData EXCEPT ![connBuf[t]] = connCall[t].msg]
  BY DEF ConnFill, ConnGoto, ConnThreadInv, ConnTyped
<1>2. connBus # connBuf[t] BY DEF ConnFill
<1>3. connBuf[t] \in ConnBuffers
  BY <1>1 DEF ConnThreadInv, ConnTyped, ConnHands, ConnCarries
<1>4. ConnHeld(connBuf[t]) BY DEF ConnHeld
<1>5. \A i \in 1 .. Len(connQueue) : connQueue[i] # connBuf[t] BY <1>3, <1>4 DEF ConnPlaces, ConnQueued
<1>6. \A b : b # connBuf[t] => connData'[b] = connData[b] BY <1>1
<1>7. ConnWaiting' = ConnWaiting BY <1>1, <1>5, <1>6, ConnWaitingStays DEF ConnThreadInv
<1>8. \A u \in ConnThreads : u # t /\ connBuf[u] \in ConnBuffers => connBuf[u] # connBuf[t]
  BY ConnAssumption DEF ConnPlaces
<1>9. ConnSending' = ConnSending BY <1>1, <1>2, <1>6, <1>8, ConnSendingStays
<1> QED BY <1>7, <1>9 DEF ConnMaps

\* The connection that was taken has sent nothing yet.
LEMMA ConnNothingSent ==
  ASSUME ConnKept, NEW t \in ConnThreads, ConnUser(t, "conn"), connPc[t] # "send"
  PROVE  ConnSending = NoConn
<1>1. connBus = NoConn BY DEF ConnKept, ConnAway
<1>2. \A u \in ConnThreads : connPc[u] # "send"
  <2> SUFFICES ASSUME NEW u \in ConnThreads, connPc[u] = "send" PROVE FALSE OBVIOUS
  <2>1. ConnUser(u, "conn") BY DEF ConnUser, ConnHolds, ConnHoldsConn
  <2>2. u = t BY <2>1 DEF ConnKept, ConnKeptOf
  <2> QED BY <2>2
<1> QED BY <1>1, <1>2, ConnSendingIs DEF ConnSendingFacts

LEMMA ConnTakesHeadOf ==
  ASSUME ConnThreadInv, ConnThreadInv', ConnKept, ConnKept', ConnContents, NEW t \in ConnThreads, ConnStep(t),
         ConnGot(t)
  PROVE  ConnMaps
<1>1. /\ connQueue # <<>> => connPc'[t] = "send" /\ connBuf'[t] = Head(connQueue) /\ connQueue' = Tail(connQueue)
      /\ connQueue = <<>> => connPc'[t] = "unlock" /\ connQueue' = connQueue
      /\ connPc[t] = "get2" /\ UNCHANGED <<connData, connBus, connCall>>
  BY ConnGetQueue DEF ConnGot
<1>2. CASE connQueue = <<>> BY <1>1, <1>2, ConnStutters
<1>3. CASE connQueue # <<>>
  <2>1. ConnUser(t, "conn") BY <1>1 DEF ConnUser, ConnHolds, ConnHoldsConn
  <2>2. ConnSending = NoConn BY <1>1, <2>1, ConnNothingSent
  <2>3. connCall[t].op = "process_send" BY <1>1 DEF ConnThreadInv, ConnCalled, ConnCallFits
  <2>4. ConnSending' = connData[Head(connQueue)]
    BY <1>1, <1>3, <2>3, ConnSendingNext DEF ConnSendingFacts, ConnMessageOf
  <2>5. /\ ConnWaiting # <<>> /\ ConnWaiting' = Tail(ConnWaiting)
        /\ Head(ConnWaiting) = connData[Head(connQueue)]
    BY <1>1, <1>3, ConnWaitingHead DEF ConnThreadInv
  <2>6. Promised!Take BY <2>2, <2>4, <2>5 DEF Promised!Take
  <2> QED BY <2>6 DEF ConnMaps, Promised!Next
<1> QED BY <1>2, <1>3

\* A take for isotp_conn_transmit sends at once.
LEMMA ConnTakes ==
  ASSUME ConnThreadInv, ConnThreadInv', ConnKept, ConnKept', NEW t \in ConnThreads, ConnStep(t), ConnTake(t)
  PROVE  ConnMaps
<1>0. UNCHANGED <<connQueue, connData, connBus, connCall>> /\ connPc[t] \in ConnLockers
  BY DEF ConnTake, connPool
<1>1. CASE connPc[t] # "transmit"
  <2>1. PICK l \in {"alloc", "look", "recv"} : connPc' = [connPc EXCEPT ![t] = l]
    <3>1. CASE connPc[t] = "add" BY <3>1 DEF ConnTake, ConnGoto
    <3>2. CASE connPc[t] = "process_send" BY <3>2 DEF ConnTake, ConnGoto
    <3>3. CASE connPc[t] = "receive" BY <3>3 DEF ConnTake, ConnGoto
    <3> QED BY <1>0, <1>1, <3>1, <3>2, <3>3 DEF ConnLockers
  <2>2. connPc'[t] = l BY <2>1 DEF ConnThreadInv, ConnTyped
  <2>3. connPc[t] # "send" /\ connPc'[t] # "send" BY <1>0, <2>1, <2>2 DEF ConnLockers
  <2> QED BY <1>0, <2>3, ConnStutters
<1>2. CASE connPc[t] = "transmit"
  <2>1. connPc' = [connPc EXCEPT ![t] = "send"] /\ connSem["conn"] = 1
    BY <1>2 DEF ConnTake, ConnGoto, ConnNeeds
  <2>2. connPc'[t] = "send" BY <2>1 DEF ConnThreadInv, ConnTyped
  <2>3. ~ConnAway /\ \A u \in ConnThreads : ~ConnUser(u, "conn") BY <2>1 DEF ConnKept, ConnKeptOf
  <2>4. connBus = NoConn /\ \A u \in ConnThreads : connPc[u] # "send"
    BY <2>3 DEF ConnAway, ConnUser, ConnHolds, ConnHoldsConn
  <2>5. ConnSending = NoConn BY <2>4, ConnSendingIs DEF ConnSendingFacts
  <2>6. connCall[t].op = "transmit" /\ connCall[t] \in ConnCallsOf[t]
    BY <1>2 DEF ConnThreadInv, ConnCalled, ConnCallFits
  <2>7. connCall[t].msg \in ConnMessages BY <1>2, <2>6, ConnAssumption DEF ConnTake
  <2>8. ConnSending' = connCall[t].msg
    BY <1>0, <2>2, <2>6, ConnSendingNext DEF ConnSendingFacts, ConnMessageOf
  <2>9. ConnWaiting' = ConnWaiting BY <1>0 DEF ConnWaiting
  <2>10. Promised!TakeDirectly BY <2>5, <2>7, <2>8, <2>9 DEF Promised!TakeDirectly
  <2> QED BY <2>10 DEF ConnMaps, Promised!Next
<1> QED BY <1>1, <1>2

\* What a thread is about to send.
LEMMA ConnAboutToSend ==
  ASSUME ConnThreadInv, ConnKept, ConnContents, NEW t \in ConnThreads, connPc[t] = "send"
  PROVE  /\ connBus = NoConn /\ ConnSending = ConnMessageOf(t) /\ ConnMessageOf(t) \in ConnMessages
         /\ connCall[t].op = "transmit" => connBuf[t] = NoConn /\ connCall[t].msg \in ConnMessages
         /\ connCall[t].op # "transmit" => connBuf[t] \in ConnBuffers /\ connCall[t].op = "process_send"
<1>1. connBus = NoConn /\ ConnSending = ConnMessageOf(t) BY ConnSendingIs DEF ConnSendingFacts
<1>2. \/ connCall[t].op = "process_send"
      \/ connCall[t].op = "transmit" /\ connCall[t].msg \in ConnMessages
  BY DEF ConnThreadInv, ConnCalled, ConnCallFits
<1>3. CASE connCall[t].op = "process_send"
  <2>1. connBuf[t] # NoConn /\ connBuf[t] \in ConnBuffers
    BY <1>3 DEF ConnThreadInv, ConnTyped, ConnHands, ConnCarries
  <2>2. connData[connBuf[t]] \in ConnMessages BY <2>1 DEF ConnContents, ConnFilled
  <2> QED BY <1>1, <1>3, <2>1, <2>2 DEF ConnMessageOf
<1>4. CASE connCall[t].op = "transmit" /\ connCall[t].msg \in ConnMessages
  <2>1. connBuf[t] = NoConn BY <1>4 DEF ConnThreadInv, ConnTyped, ConnHands, ConnCarries
  <2> QED BY <1>1, <1>4, <2>1 DEF ConnMessageOf
<1> QED BY <1>2, <1>3, <1>4

\* The driver goes on with the message, or gives it up.
LEMMA ConnSends ==
  ASSUME ConnThreadInv, ConnThreadInv', ConnKept, ConnKept', ConnContents, NEW t \in ConnThreads, ConnStep(t),
         ConnSend(t) \/ ConnSendFails(t)
  PROVE  ConnMaps
<1>1. connPc[t] = "send" /\ UNCHANGED <<connQueue, connData>> BY DEF ConnSend, ConnSendFails, connPool
<1>2. /\ connBus = NoConn /\ ConnSending = ConnMessageOf(t) /\ ConnMessageOf(t) \in ConnMessages
      /\ connCall[t].op = "transmit" => connBuf[t] = NoConn /\ connCall[t].msg \in ConnMessages
      /\ connCall[t].op # "transmit" => connBuf[t] \in ConnBuffers /\ connCall[t].op = "process_send"
  BY <1>1, ConnAboutToSend
<1>3. ConnWaiting' = ConnWaiting BY <1>1 DEF ConnWaiting
<1>4. CASE ConnSend(t)
  <2>1. connBus' = IF connBuf[t] = NoConn THEN connCall[t].msg ELSE connBuf[t] BY <1>4 DEF ConnSend
  <2>2. ConnSending' = ConnMessageOf(t)
    <3>1. CASE connCall[t].op = "transmit"
      <4>1. connBus' = connCall[t].msg /\ connBus' # NoConn /\ connBus' \notin ConnBuffers
        BY <1>2, <2>1, <3>1, ConnAssumption
      <4> QED BY <3>1, <4>1, ConnSendingNext DEF ConnSendingFacts, ConnMessageOf
    <3>2. CASE connCall[t].op # "transmit"
      <4>1. connBus' = connBuf[t] /\ connBus' # NoConn /\ connBus' \in ConnBuffers
        BY <1>2, <2>1, <3>2, ConnAssumption
      <4> QED BY <1>1, <3>2, <4>1, ConnSendingNext DEF ConnSendingFacts, ConnMessageOf
    <3> QED BY <3>1, <3>2
  <2> QED BY <1>2, <1>3, <2>2 DEF ConnMaps
<1>5. CASE ConnSendFails(t)
  <2>1. connBus' = NoConn /\ ConnSendNext(t) BY <1>2, <1>5 DEF ConnSendFails
  <2>2. connPc'[t] # "send"
    BY <2>1 DEF ConnSendNext, ConnReturn, ConnGoto, ConnThreadInv, ConnTyped
  <2>3. ASSUME NEW u \in ConnThreads, connPc'[u] = "send" PROVE FALSE
    <3>1. u # t BY <2>2, <2>3
    <3>2. connPc[u] = "send" BY <2>3, <3>1, ConnOthers
    <3> QED BY <1>1, <3>1, <3>2, ConnSendingIs DEF ConnSendingFacts
  <2>4. ConnSending' = NoConn BY <2>1, <2>3, ConnSendingNext DEF ConnSendingFacts
  <2>5. ConnSending # NoConn BY <1>2, ConnAssumption
  <2>6. Promised!Finish BY <1>3, <2>4, <2>5 DEF Promised!Finish
  <2> QED BY <2>6 DEF ConnMaps, Promised!Next
<1> QED BY <1>4, <1>5

\* The callback of the driver ends the sending.
LEMMA ConnFinishes ==
  ASSUME ConnKept, ConnKept', ConnContents, ConnSent PROVE ConnMaps
<1>1. connBus # NoConn /\ connBus' = NoConn /\ UNCHANGED <<connQueue, connData, connPc>>
  BY DEF ConnSent, connPool, connThread
<1>2. ConnSending # NoConn
  <2>1. ConnSending = (IF connBus \in ConnBuffers THEN connData[connBus] ELSE connBus)
    BY <1>1, ConnSendingIs DEF ConnSendingFacts
  <2>2. CASE connBus \in ConnBuffers BY <2>1, <2>2, ConnAssumption DEF ConnContents
  <2>3. CASE connBus \notin ConnBuffers BY <1>1, <2>1, <2>3
  <2> QED BY <2>2, <2>3
<1>3. ConnSending' = NoConn BY <1>1, ConnSendingIs, ConnSendingNext DEF ConnSendingFacts
<1>4. ConnWaiting' = ConnWaiting BY <1>1 DEF ConnWaiting
<1>5. Promised!Finish BY <1>2, <1>3, <1>4 DEF Promised!Finish
<1> QED BY <1>5 DEF ConnMaps, Promised!Next

\* Every step of a thread is a step of the queue of messages or none.
LEMMA ConnStepMaps ==
  ASSUME ConnIInv, ConnIInv', ConnContents, NEW t \in ConnThreads, ConnStep(t),
         connDamage = {}, connDamage' = {}
  PROVE  ConnMaps
<1>0. ConnThreadInv /\ ConnThreadInv' /\ ConnKept /\ ConnKept' /\ ConnPlaces BY DEF ConnIInv
<1>a. connPc \in [ConnThreads -> ConnLabels] BY <1>0 DEF ConnThreadInv, ConnTyped
<1>b. ASSUME UNCHANGED <<connBus, connData, connQueue>>, connPc[t] # "send", NEW l, l # "send",
             connPc' = [connPc EXCEPT ![t] = l]
      PROVE  ConnMaps
  BY <1>0, <1>a, <1>b, ConnStutters
<1> USE DEF ConnGoto, ConnReturn, connPool
<1>1. CASE ConnStart(t)
  <2>1. PICK d \in ConnCallsOf[t] : connPc' = [connPc EXCEPT ![t] = d.op] BY <1>1 DEF ConnStart
  <2>2. d.op # "send" BY ConnAssumption
  <2> QED BY <1>1, <1>b, <2>1, <2>2 DEF ConnStart
<1>2. CASE ConnRefuse(t) BY <1>2, <1>b DEF ConnRefuse, ConnLockers
<1>3. CASE ConnTake(t) BY <1>0, <1>3, ConnTakes
<1>4. CASE ConnLeave(t) BY <1>4, <1>b DEF ConnLeave
<1>5. CASE ConnListBegins(t)
  <2>1. connPc[t] \in {"oldest", "append", "get", "drain"} BY <1>5 DEF ConnListBegins, ConnListEnd
  <2>2. ConnListEnd[connPc[t]] # "send" BY <2>1 DEF ConnListEnd
  <2> QED BY <1>5, <1>b, <2>1, <2>2 DEF ConnListBegins
<1>6. CASE ConnAlloc(t)
  <2>1. PICK l \in {"oldest", "fill"} : connPc' = [connPc EXCEPT ![t] = l] BY <1>6 DEF ConnAlloc
  <2> QED BY <1>6, <1>b, <2>1 DEF ConnAlloc
<1>7. CASE ConnOldest(t) BY <1>0, <1>7, ConnDrops DEF ConnOldest
<1>8. CASE ConnRecycle(t) BY <1>8, <1>b DEF ConnRecycle
<1>9. CASE ConnFill(t) BY <1>0, <1>9, ConnFills
<1>10. CASE ConnAppend(t) BY <1>0, <1>10, ConnAdded
<1>11. CASE ConnLook(t)
  <2>1. PICK l \in {"unlock", "get"} : connPc' = [connPc EXCEPT ![t] = l] BY <1>11 DEF ConnLook
  <2> QED BY <1>11, <1>b, <2>1 DEF ConnLook
<1>12. CASE ConnGot(t) BY <1>0, <1>12, ConnTakesHeadOf
<1>13. CASE ConnSend(t) \/ ConnSendFails(t) BY <1>0, <1>13, ConnSends
<1>14. CASE ConnUnref(t) BY <1>14, <1>b DEF ConnUnref
<1>15. CASE ConnReceive(t) BY <1>15, <1>b DEF ConnReceive
<1>16. CASE ConnReceiveTooMuch(t) BY <1>16, <1>b DEF ConnReceiveTooMuch
<1>17. CASE ConnBind(t)
  <2>1. PICK l \in {"bind2", "idle"} : connPc' = [connPc EXCEPT ![t] = l]
    <3>1. CASE connPc[t] = "bind" BY <1>17, <3>1 DEF ConnBind
    <3>2. CASE connPc[t] # "bind" BY <1>17, <3>2 DEF ConnBind
    <3> QED BY <3>1, <3>2
  <2> QED BY <1>17, <1>b, <2>1 DEF ConnBind
<1>18. CASE ConnUnbind(t) BY <1>18, <1>b DEF ConnUnbind
<1>19. CASE ConnDrain(t) BY <1>0, <1>19, ConnDrops DEF ConnDrain
<1>20. CASE ConnDrained(t)
  <2>1. PICK l \in {"idle", "drain"} : connPc' = [connPc EXCEPT ![t] = l] BY <1>20 DEF ConnDrained
  <2> QED BY <1>20, <1>b, <2>1 DEF ConnDrained
<1> QED BY <1>1, <1>2, <1>3, <1>4, <1>5, <1>6, <1>7, <1>8, <1>9, <1>10, <1>11, <1>12, <1>13, <1>14, <1>15,
           <1>16, <1>17, <1>18, <1>19, <1>20 DEF ConnStep

\* Messages leave in the order they were accepted, one at a time, and only the
\* oldest are dropped: the queue of buffers, the connection and the driver
\* implement a lossy queue of messages as long as the code has not damaged its
\* own state (isotp_conn.c:180-275).
THEOREM QueueIsLossy == ConnSpec => Promised!Init /\ SentInOrder
<1> DEFINE A == connDamage \cup connDamage' = {} => [Promised!Next]_<<ConnWaiting, ConnSending>>
<1>1. ConnInit => Promised!Init
  BY ConnAssumption DEF ConnInit, Promised!Init, ConnWaiting, ConnSending
<1>2. (ConnIInv /\ ConnContents) /\ (ConnIInv /\ ConnContents)' /\ [ConnNext]_connVars => [A]_connVars
  <2> SUFFICES ASSUME ConnIInv, ConnIInv', ConnContents, ConnNext, connDamage = {}, connDamage' = {}
               PROVE  ConnMaps
    BY DEF ConnMaps
  <2>1. CASE ConnSent BY <2>1, ConnFinishes DEF ConnIInv
  <2>2. ASSUME NEW t \in ConnThreads, ConnStep(t) PROVE ConnMaps BY <2>2, ConnStepMaps
  <2> QED BY <2>1, <2>2 DEF ConnNext
<1>3. ConnSpec => [](ConnIInv /\ ConnContents) BY ConnContentsInvariance
<1>4. ConnSpec => [][A]_connVars BY <1>2, <1>3, PTL DEF ConnSpec
<1>5. ConnSpec => Promised!Init BY <1>1 DEF ConnSpec
<1> QED BY <1>4, <1>5 DEF SentInOrder
=============================================================================
