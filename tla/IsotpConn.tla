----------------------------- MODULE IsotpConn ------------------------------
(***************************************************************************)
(* src/isotp_conn.c: a queue of messages in buffers of a pool, a           *)
(* connection that sends them one at a time, and a semaphore for each of   *)
(* the two, both taken without waiting.  The one of the connection is      *)
(* taken by the thread that sends and given by the callback of the driver  *)
(* when the transmission is over.                                          *)
(*                                                                         *)
(* Threads are preemptive.  The list is changed under three different      *)
(* locks or none, so each of its operations has a beginning and an end;    *)
(* nothing is said of the queue once two were under way at the same time.  *)
(***************************************************************************)
EXTENDS Integers, Sequences

CONSTANTS
  ConnThreads, ConnCallsOf,  \* the callers, and the calls of each
  ConnBuffers,               \* isotp_tx_pool: ISOTP_NUM_BUFFERS
  ConnMessages,              \* the messages of at most ISOTP_MAX_DATA_LEN
  ConnTooLong,               \* a longer one
  NoConn

VARIABLES
  connSem,     \* isotp_conn_mutex and isotp_conn_msg_mutex
  connQueue,   \* m_tx_queue
  connFree,    \* the free buffers of the pool
  connData,    \* the message in each buffer
  connBus,     \* m_sctx: the buffer or the message the driver is sending
  connPc, connCall, connBuf,  \* a thread: its place, call and buffer
  connGiven,   \* history: the semaphores bind has given
  connStuck,   \* history: a failed send kept the connection
  connDamage   \* history: what has gone wrong, see below

connPool == <<connQueue, connFree, connData>>
connThread == <<connPc, connCall, connBuf>>
connHistory == <<connGiven, connStuck, connDamage>>
connVars == <<connSem, connPool, connBus, connThread, connHistory>>

ConnSems == {"conn", "msg"}

\* A bind gave a semaphore in use; two operations on the list at once; the
\* buffer of the message being sent was filled with another one.
ConnDamages == {"forced", "raced", "torn"}

ASSUME ConnAssumption ==
  /\ ConnBuffers # {} /\ ConnBuffers \cap ConnMessages = {}
  /\ NoConn \notin ConnThreads \cup ConnBuffers \cup ConnMessages
  /\ ConnTooLong \notin ConnMessages
  /\ \A t \in ConnThreads : \A c \in ConnCallsOf[t] :
       \/ c.op \in {"add", "transmit"} /\ c.msg \in ConnMessages \cup {ConnTooLong}
       \/ c.op \in {"process_send", "receive", "bind", "unbind"}

-----------------------------------------------------------------------------
\* After isotp_conn_init.
ConnInit ==
  /\ connSem = [s \in ConnSems |-> 0]
  /\ connQueue = <<>> /\ connFree = ConnBuffers
  /\ connData = [b \in ConnBuffers |-> NoConn] /\ connBus = NoConn
  /\ connPc = [t \in ConnThreads |-> "idle"]
  /\ connCall = [t \in ConnThreads |-> NoConn] /\ connBuf = [t \in ConnThreads |-> NoConn]
  /\ connGiven = {} /\ connStuck = FALSE /\ connDamage = {}

ConnGoto(t, label) == connPc' = [connPc EXCEPT ![t] = label]
ConnHold(t, b) == connBuf' = [connBuf EXCEPT ![t] = b]
ConnReturn(t) ==
  ConnGoto(t, "idle") /\ connCall' = [connCall EXCEPT ![t] = NoConn] /\ ConnHold(t, NoConn)

ConnStart(t) ==
  /\ connPc[t] = "idle"
  /\ \E c \in ConnCallsOf[t] : connCall' = [connCall EXCEPT ![t] = c] /\ ConnGoto(t, c.op)
  /\ UNCHANGED <<connSem, connPool, connBus, connBuf, connHistory>>

-----------------------------------------------------------------------------
(* The semaphores.                                                         *)

ConnNeeds(op) == IF op = "add" THEN "msg" ELSE "conn"
ConnLockers == {"add", "transmit", "process_send", "receive"}

\* -EINVAL before the lock, or the -EBUSY of a take that does not wait.
ConnRefuse(t) ==
  /\ connPc[t] \in ConnLockers
  /\ \/ connPc[t] \in {"add", "transmit"} /\ connCall[t].msg = ConnTooLong
     \/ connSem[ConnNeeds(connPc[t])] = 0
  /\ ConnReturn(t)
  /\ UNCHANGED <<connSem, connPool, connBus, connHistory>>

ConnTake(t) ==
  LET s == ConnNeeds(connPc[t])
  IN  /\ connPc[t] \in ConnLockers
      /\ connPc[t] \in {"add", "transmit"} => connCall[t].msg # ConnTooLong
      /\ connSem[s] = 1
      /\ connSem' = [connSem EXCEPT ![s] = 0]
      /\ ConnGoto(t, CASE connPc[t] = "add" -> "alloc" [] connPc[t] = "process_send" -> "look"
                       [] connPc[t] = "receive" -> "recv" [] OTHER -> "send")
      /\ UNCHANGED <<connPool, connBus, connCall, connBuf, connHistory>>

ConnGive(s) == connSem' = [connSem EXCEPT ![s] = 1]

\* The end of a call that gives a semaphore back.
ConnLeave(t) ==
  /\ connPc[t] \in {"unlock", "munlock"}
  /\ ConnGive(IF connPc[t] = "munlock" THEN "msg" ELSE "conn")
  /\ ConnReturn(t)
  /\ UNCHANGED <<connPool, connBus, connHistory>>

-----------------------------------------------------------------------------
(* The list: an operation begins at one label and ends at another.         *)

ConnListEnd ==
  [l \in {"oldest", "append", "get", "drain"} |->
     CASE l = "oldest" -> "oldest2" [] l = "append" -> "append2" [] l = "get" -> "get2" [] OTHER -> "drain2"]
ConnInList == {ConnListEnd[l] : l \in DOMAIN ConnListEnd}

ConnListBegins(t) ==
  /\ connPc[t] \in DOMAIN ConnListEnd
  /\ ConnGoto(t, ConnListEnd[connPc[t]])
  /\ connDamage' = connDamage \cup
       IF \E u \in ConnThreads : connPc[u] \in ConnInList THEN {"raced"} ELSE {}
  /\ UNCHANGED <<connSem, connPool, connBus, connCall, connBuf, connGiven, connStuck>>

\* sys_slist_get: the oldest buffer, if there is one.
ConnGet(t, label, next, none) ==
  /\ connPc[t] = label
  /\ IF connQueue = <<>>
       THEN ConnGoto(t, none) /\ UNCHANGED <<connQueue, connBuf>>
       ELSE ConnGoto(t, next) /\ ConnHold(t, Head(connQueue)) /\ connQueue' = Tail(connQueue)
  /\ UNCHANGED <<connSem, connFree, connData, connBus, connCall, connHistory>>

-----------------------------------------------------------------------------
(* isotp_conn_add_message.                                                 *)

\* net_buf_alloc, K_NO_WAIT.
ConnAlloc(t) ==
  /\ connPc[t] = "alloc"
  /\ IF connFree = {}
       THEN ConnGoto(t, "oldest") /\ UNCHANGED <<connFree, connBuf>>
       ELSE \E b \in connFree : ConnHold(t, b) /\ connFree' = connFree \ {b} /\ ConnGoto(t, "fill")
  /\ UNCHANGED <<connSem, connQueue, connData, connBus, connCall, connHistory>>

\* No buffer free: the oldest message is taken off the queue; -EIO if none.
ConnOldest(t) == ConnGet(t, "oldest2", "recycle", "munlock")

ConnRecycle(t) ==
  /\ connPc[t] = "recycle"
  /\ \E b \in connFree \cup {connBuf[t]} :
       ConnHold(t, b) /\ connFree' = (connFree \cup {connBuf[t]}) \ {b}
  /\ ConnGoto(t, "fill")
  /\ UNCHANGED <<connSem, connQueue, connData, connBus, connCall, connHistory>>

\* The driver reads the buffer it is sending, also when it was freed.
ConnFill(t) ==
  /\ connPc[t] = "fill"
  /\ connData' = [connData EXCEPT ![connBuf[t]] = connCall[t].msg]
  /\ connDamage' = connDamage \cup IF connBus = connBuf[t] THEN {"torn"} ELSE {}
  /\ ConnGoto(t, "append")
  /\ UNCHANGED <<connSem, connQueue, connFree, connBus, connCall, connBuf, connGiven, connStuck>>

\* Seeded fault: put first.
ConnPrepend(t) ==
  /\ connPc[t] = "append2"
  /\ connQueue' = <<connBuf[t]>> \o connQueue
  /\ ConnHold(t, NoConn) /\ ConnGoto(t, "munlock")
  /\ UNCHANGED <<connSem, connFree, connData, connBus, connCall, connHistory>>

ConnAppend(t) ==
  /\ connPc[t] = "append2"
  /\ connQueue' = Append(connQueue, connBuf[t])
  /\ ConnHold(t, NoConn) /\ ConnGoto(t, "munlock")
  /\ UNCHANGED <<connSem, connFree, connData, connBus, connCall, connHistory>>

-----------------------------------------------------------------------------
(* isotp_conn_process_send, isotp_conn_transmit.                           *)

ConnLook(t) ==
  /\ connPc[t] = "look"
  /\ ConnGoto(t, IF connQueue = <<>> THEN "unlock" ELSE "get")
  /\ UNCHANGED <<connSem, connPool, connBus, connCall, connBuf, connHistory>>

ConnGot(t) == ConnGet(t, "get2", "send", "unlock")

ConnSendNext(t) ==
  IF connCall[t].op = "process_send" THEN ConnGoto(t, "unref") /\ UNCHANGED <<connCall, connBuf>>
                                     ELSE ConnReturn(t)

\* isotp_send: under way; a bind that gave the semaphore lets it replace
\* another one.
ConnSend(t) ==
  /\ connPc[t] = "send"
  /\ connBus' = IF connBuf[t] = NoConn THEN connCall[t].msg ELSE connBuf[t]
  /\ ConnSendNext(t)
  /\ UNCHANGED <<connSem, connPool, connHistory>>

\* isotp_send fails: the connection stays locked.
ConnSendFails(t) ==
  /\ connPc[t] = "send"
  /\ connStuck' = TRUE
  /\ ConnSendNext(t)
  /\ UNCHANGED <<connSem, connPool, connBus, connGiven, connDamage>>

\* net_buf_unref, with the driver still sending; once more around the loop.
ConnUnref(t) ==
  /\ connPc[t] = "unref"
  /\ connFree' = connFree \cup {connBuf[t]}
  /\ ConnHold(t, NoConn) /\ ConnGoto(t, "process_send")
  /\ UNCHANGED <<connSem, connQueue, connData, connBus, connCall, connHistory>>

\* Seeded fault: the callback leaves the connection locked.
ConnSentSilently ==
  /\ connBus # NoConn
  /\ connBus' = NoConn
  /\ UNCHANGED <<connSem, connPool, connThread, connHistory>>

\* isotp_conn_tx_callback.
ConnSent ==
  /\ connBus # NoConn
  /\ connBus' = NoConn
  /\ ConnGive("conn")
  /\ connDamage' = connDamage \ {"torn"}
  /\ UNCHANGED <<connPool, connThread, connGiven, connStuck>>

-----------------------------------------------------------------------------
(* isotp_conn_receive, isotp_conn_bind, isotp_conn_unbind.                 *)

\* All that has come is copied, or nothing has come.
ConnReceive(t) ==
  /\ connPc[t] = "recv"
  /\ ConnGoto(t, "unlock")
  /\ UNCHANGED <<connSem, connPool, connBus, connCall, connBuf, connHistory>>

\* More than fits: the loop that frees it never moves on.
ConnReceiveTooMuch(t) ==
  /\ connPc[t] = "recv"
  /\ ConnGoto(t, "spin")
  /\ UNCHANGED <<connSem, connPool, connBus, connCall, connBuf, connHistory>>

\* Gives both semaphores, whoever has taken them.
ConnBind(t) ==
  LET s == IF connPc[t] = "bind" THEN "conn" ELSE "msg"
      kept == s = "conn" /\ connStuck
  IN  /\ connPc[t] \in {"bind", "bind2"}
      /\ ConnGive(s)
      /\ connGiven' = connGiven \cup {s}
      /\ connStuck' = (connStuck /\ s # "conn")
      /\ connDamage' = connDamage \cup
           IF s \in connGiven /\ connSem[s] = 0 /\ ~kept THEN {"forced"} ELSE {}
      /\ IF s = "conn" THEN ConnGoto(t, "bind2") /\ UNCHANGED <<connCall, connBuf>> ELSE ConnReturn(t)
      /\ UNCHANGED <<connPool, connBus>>

ConnUnbind(t) ==
  /\ connPc[t] = "unbind"
  /\ ConnGoto(t, "drain")
  /\ UNCHANGED <<connSem, connPool, connBus, connCall, connBuf, connHistory>>

ConnDrain(t) == ConnGet(t, "drain2", "dunref", "done")

ConnDrained(t) ==
  /\ connPc[t] \in {"dunref", "done"}
  /\ IF connPc[t] = "done"
       THEN ConnReturn(t) /\ UNCHANGED connFree
       ELSE /\ connFree' = connFree \cup {connBuf[t]}
            /\ ConnHold(t, NoConn) /\ ConnGoto(t, "drain") /\ UNCHANGED connCall
  /\ UNCHANGED <<connSem, connQueue, connData, connBus, connHistory>>

ConnStep(t) ==
  \/ ConnStart(t) \/ ConnRefuse(t) \/ ConnTake(t) \/ ConnLeave(t) \/ ConnListBegins(t)
  \/ ConnAlloc(t) \/ ConnOldest(t) \/ ConnRecycle(t) \/ ConnFill(t) \/ ConnAppend(t)
  \/ ConnLook(t) \/ ConnGot(t) \/ ConnSend(t) \/ ConnSendFails(t) \/ ConnUnref(t)
  \/ ConnReceive(t) \/ ConnReceiveTooMuch(t) \/ ConnBind(t) \/ ConnUnbind(t) \/ ConnDrain(t) \/ ConnDrained(t)

ConnNext == ConnSent \/ \E t \in ConnThreads : ConnStep(t)

ConnSpec == ConnInit /\ [][ConnNext]_connVars

\* Runs are followed up to the first of the damages that last.
ConnFollowed == connDamage \subseteq {"torn"}

-----------------------------------------------------------------------------
(* Properties.                                                             *)

ConnHoldsMsg == {"alloc", "oldest", "oldest2", "recycle", "fill", "append", "append2", "munlock"}
ConnHoldsConn == {"look", "get", "get2", "send", "recv", "spin", "unlock"}
ConnFreeOfLocks == {"idle", "unref", "bind", "bind2", "unbind", "drain", "drain2", "dunref", "done"} \cup ConnLockers

ConnTypeOK ==
  /\ connSem \in [ConnSems -> {0, 1}]
  /\ connQueue \in Seq(ConnBuffers) /\ connFree \subseteq ConnBuffers
  /\ connData \in [ConnBuffers -> ConnMessages \cup {NoConn}]
  /\ connBus \in ConnBuffers \cup ConnMessages \cup {NoConn}
  /\ connPc \in [ConnThreads -> ConnHoldsMsg \cup ConnHoldsConn \cup ConnFreeOfLocks]
  /\ connBuf \in [ConnThreads -> ConnBuffers \cup {NoConn}]
  /\ \A t \in ConnThreads : connCall[t] \in ConnCallsOf[t] \cup {NoConn}
  /\ connGiven \subseteq ConnSems /\ connStuck \in BOOLEAN /\ connDamage \subseteq ConnDamages

\* Who keeps a semaphore: the threads in its section, the driver until its
\* callback, and a send that failed.
ConnKeepers(s) ==
  {t \in ConnThreads : connPc[t] \in (IF s = "msg" THEN ConnHoldsMsg ELSE ConnHoldsConn)}
    \cup {k \in {"driver", "failure"} : s = "conn" /\ (IF k = "driver" THEN connBus # NoConn ELSE connStuck)}

\* Neither semaphore is ever lost or free in use: one that bind has given is
\* taken exactly when one thread is in its section, or the driver is sending,
\* or a send has failed; and every buffer is free, queued or in the hands of
\* one thread, once (isotp_conn.c:33-47, :113-139, :191-225, :237-272).  Left
\* out: a bind while a semaphore is in use.
ConnNothingLeaks ==
  "forced" \notin connDamage =>
    /\ \A s \in ConnSems :
         /\ connSem[s] = 0 => s \notin connGiven \/ ConnKeepers(s) # {}
         /\ connSem[s] = 1 => ConnKeepers(s) = {}
         /\ \A j, k \in ConnKeepers(s) : j = k
    /\ "raced" \notin connDamage =>
         \A b \in ConnBuffers :
           LET holders == {t \in ConnThreads : connBuf[t] = b}
               places == {i \in DOMAIN connQueue : connQueue[i] = b}
           IN  /\ \A i, j \in places : i = j
               /\ \A t, u \in holders : t = u
               /\ b \in connFree => places \cup holders = {}
               /\ places = {} \/ holders = {}
               /\ b \in connFree \/ places \cup holders # {}

\* The message being sent: of the thread about to send it, or of the driver.
ConnSending ==
  LET senders == {t \in ConnThreads : connPc[t] = "send"}
      message(x) == IF x \in ConnBuffers THEN connData[x] ELSE x
  IN  IF connBus # NoConn THEN message(connBus)
      ELSE IF senders = {} THEN NoConn
      ELSE LET t == CHOOSE u \in senders : TRUE
           IN  IF connCall[t].op = "transmit" THEN connCall[t].msg ELSE connData[connBuf[t]]

ConnWaiting == [i \in DOMAIN connQueue |-> connData[connQueue[i]]]

Promised == INSTANCE LossyQueue WITH
  Messages <- ConnMessages, NoMessage <- NoConn, waiting <- ConnWaiting, taken <- ConnSending

\* Messages leave in the order they were accepted, one at a time, and only the
\* oldest are dropped (isotp_conn.c:180-275).  Left out: the damages of
\* connDamage, all of which the code can do to itself.
SentInOrder ==
  [][connDamage \cup connDamage' = {} => [Promised!Next]_<<ConnWaiting, ConnSending>>]_connVars
=============================================================================
