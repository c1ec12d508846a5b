--------------------------- MODULE DatabaseProofs ---------------------------
(***************************************************************************)
(* The semaphore of the database guards its critical sections, the list    *)
(* has no group twice, a setter leaves a value of the declared range, and  *)
(* callers see an atomic database: for every set of threads, calls, groups *)
(* and parameters.                                                         *)
(***************************************************************************)
EXTENDS Database, TLAPS

Labels == {"idle", "lock", "wait", "critical", "walk", "unlock", "found", "return"}

Controlled == pc \in [Threads -> Labels] /\ count \in {0, 1} /\ boot \in Nat

\* The queue of the semaphore holds only threads that wait for it.
QueueWaits == \A t \in waitq : t \in Threads /\ pc[t] = "wait"

\* Before db_init the count is zero and no thread gets through: db_init may
\* raise it without letting a second thread in.
ClosedBeforeInit == boot = 0 => count = 0 /\ \A t \in Threads : ~InSection(t)

\* The strengthening that makes MutualExclusion inductive.
IInv == Controlled /\ QueueWaits /\ ClosedBeforeInit /\ MutualExclusion

\* IInv holds before db_init ran (database.c:445).
LEMMA InitInv == Init => IInv
BY DEF Init, IInv, Controlled, QueueWaits, ClosedBeforeInit, MutualExclusion, InSection, Labels

\* A step of thread t from one label to another on the same side of the
\* semaphore, which leaves the semaphore alone, preserves IInv: the bodies of
\* the critical sections and everything outside them.
LEMMA SameSide ==
  ASSUME IInv, NEW t \in Threads, NEW l \in Labels \ {"wait"},
         pc[t] # "wait", pc' = [pc EXCEPT ![t] = l],
         l \in {"critical", "walk", "unlock"} <=> InSection(t),
         UNCHANGED <<count, waitq>>, boot' = boot \/ boot' = boot + 1
  PROVE  IInv'
<1> USE DEF IInv, InSection
<1>1. Controlled' BY DEF Controlled
<1>2. QueueWaits' BY DEF Controlled, QueueWaits
<1>3. \A u \in Threads : InSection(u)' <=> InSection(u) BY DEF Controlled
<1>4. ClosedBeforeInit' BY <1>3 DEF ClosedBeforeInit, Controlled
<1>5. MutualExclusion' BY <1>3 DEF MutualExclusion
<1> QED BY <1>1, <1>2, <1>4, <1>5

\* db_lock without waiting: the count says that nobody is inside.
LEMMA LockInv == ASSUME IInv, NEW t \in Threads, Lock(t) PROVE IInv'
<1> USE DEF IInv, InSection
<1>1. CASE count > 0
  <2>1. count = 1 /\ count' = 0 /\ waitq' = waitq /\ boot' = boot
          /\ pc' = [pc EXCEPT ![t] = "critical"] /\ pc[t] = "lock"
    BY <1>1 DEF Lock, Goto, Controlled
  <2>2. \A u \in Threads : ~ InSection(u) BY <2>1 DEF MutualExclusion
  <2>3. Controlled' BY <2>1 DEF Controlled, Labels
  <2>4. QueueWaits' BY <2>1 DEF Controlled, QueueWaits
  <2>5. ClosedBeforeInit' BY <2>1 DEF ClosedBeforeInit
  <2>6. MutualExclusion' BY <2>1, <2>2 DEF Controlled, MutualExclusion
  <2> QED BY <2>3, <2>4, <2>5, <2>6
<1>2. CASE ~ (count > 0)
  <2>1. count' = count /\ waitq' = waitq \cup {t} /\ boot' = boot
          /\ pc' = [pc EXCEPT ![t] = "wait"] /\ pc[t] = "lock"
    BY <1>2 DEF Lock, Goto
  <2>2. Controlled' BY <2>1 DEF Controlled, Labels
  <2>3. QueueWaits' BY <2>1 DEF Controlled, QueueWaits
  <2>4. \A u \in Threads : InSection(u)' <=> InSection(u) BY <2>1 DEF Controlled
  <2>5. ClosedBeforeInit' BY <2>1, <2>4 DEF ClosedBeforeInit
  <2>6. MutualExclusion' BY <2>1, <2>4 DEF MutualExclusion
  <2> QED BY <2>2, <2>3, <2>5, <2>6
<1> QED BY <1>1, <1>2

\* db_unlock with an empty queue: the one thread inside leaves, then the
\* count may go up.
LEMMA UnlockNobodyInv == ASSUME IInv, NEW t \in Threads, UnlockNobody(t) PROVE IInv'
<1> USE DEF IInv, InSection
<1> PICK l \in {"found", "return"} : pc' = [pc EXCEPT ![t] = l]
  BY DEF UnlockNobody, Goto, AfterUnlock
<1>1. pc[t] = "unlock" /\ count' \in {0, 1} /\ waitq' = {} /\ boot' = boot
  BY DEF UnlockNobody, Controlled
<1>2. \A u \in Threads : ~InSection(u)' BY <1>1 DEF Controlled, MutualExclusion
<1>3. Controlled' BY <1>1 DEF Controlled, Labels
<1>4. QueueWaits' BY <1>1 DEF QueueWaits
<1>5. ClosedBeforeInit' BY <1>1 DEF ClosedBeforeInit
<1>6. MutualExclusion' BY <1>2 DEF MutualExclusion
<1> QED BY <1>3, <1>4, <1>5, <1>6

\* db_unlock with a queue: one thread leaves and one of the queue is inside,
\* the count stays zero.
LEMMA UnlockToInv ==
  ASSUME IInv, NEW t \in Threads, NEW w \in waitq, UnlockTo(t, w) PROVE IInv'
<1> USE DEF IInv, InSection
<1> PICK l \in {"found", "return"} : pc' = [pc EXCEPT ![t] = l, ![w] = "critical"]
  BY DEF UnlockTo, AfterUnlock
<1>1. pc[t] = "unlock" /\ pc[w] = "wait" /\ w \in Threads
        /\ count' = count /\ waitq' = waitq \ {w} /\ boot' = boot
  BY DEF UnlockTo, QueueWaits
<1>2. \A u \in Threads : InSection(u)' <=> u = w BY <1>1 DEF Controlled, MutualExclusion
<1>3. Controlled' BY <1>1 DEF Controlled, Labels
<1>4. QueueWaits' BY <1>1 DEF QueueWaits, Controlled
<1>5. boot # 0 /\ count = 0 BY <1>1 DEF ClosedBeforeInit, MutualExclusion
<1>6. ClosedBeforeInit' BY <1>1, <1>5 DEF ClosedBeforeInit
<1>7. MutualExclusion' BY <1>1, <1>2, <1>5 DEF MutualExclusion
<1> QED BY <1>3, <1>4, <1>6, <1>7

\* A thread that gives up leaves the queue; it never was inside.
LEMMA LockTimeoutInv == ASSUME IInv, NEW t \in Threads, LockTimeout(t) PROVE IInv'
<1> USE DEF IInv, InSection
<1>1. pc[t] = "wait" /\ pc' = [pc EXCEPT ![t] = "return"]
        /\ count' = count /\ waitq' = waitq \ {t} /\ boot' = boot
  BY DEF LockTimeout, Goto
<1>2. \A u \in Threads : InSection(u)' <=> InSection(u) BY <1>1 DEF Controlled
<1>3. Controlled' BY <1>1 DEF Controlled, Labels
<1>4. QueueWaits' BY <1>1 DEF QueueWaits, Controlled
<1>5. ClosedBeforeInit' BY <1>1, <1>2 DEF ClosedBeforeInit
<1>6. MutualExclusion' BY <1>1, <1>2 DEF MutualExclusion
<1> QED BY <1>3, <1>4, <1>5, <1>6

\* db_init: it runs while nobody is inside, so the semaphore may be open after
\* it; the threads it drops from the queue stay where they are.
LEMMA DbInitInv == ASSUME IInv, DbInit PROVE IInv'
<1> USE DEF IInv, InSection
<1>1. boot = 0 /\ boot' = 1 /\ pc' = pc /\ count' \in {0, 1} /\ waitq' \subseteq waitq
  BY DEF DbInit, Controlled
<1>2. \A u \in Threads : ~InSection(u)' BY <1>1 DEF ClosedBeforeInit
<1>3. Controlled' BY <1>1 DEF Controlled
<1>4. QueueWaits' BY <1>1 DEF QueueWaits
<1>5. ClosedBeforeInit' BY <1>1 DEF ClosedBeforeInit
<1>6. MutualExclusion' BY <1>2 DEF MutualExclusion
<1> QED BY <1>3, <1>4, <1>5, <1>6

\* The calls, the bodies of the critical sections and the returns stay on
\* their side of the semaphore.
LEMMA BodyInv ==
  ASSUME IInv, NEW t \in Threads,
         \/ SetupStep /\ t = Main
         \/ UserCall(t) \/ Return(t) \/ GetVarConfig(t) \/ Proceed(t) \/ AccessParam(t)
         \/ GroupAdd(t) \/ GroupRemove(t) \/ BeginWalk(t) \/ EndWalk(t)
  PROVE  IInv'
<1> USE DEF Goto, InSection, Labels
<1>1. CASE SetupStep /\ t = Main
  <2>1. pc[t] = "idle" /\ pc' = [pc EXCEPT ![t] = "lock"] /\ boot' = boot + 1
          /\ UNCHANGED <<count, waitq>>
    BY <1>1 DEF SetupStep, StartCall
  <2> QED BY <2>1, SameSide
<1>2. CASE UserCall(t)
  <2>1. pc[t] = "idle" /\ pc' = [pc EXCEPT ![t] = "lock"] /\ boot' = boot
          /\ UNCHANGED <<count, waitq>>
    BY <1>2 DEF UserCall, StartCall
  <2> QED BY <2>1, SameSide
<1>3. CASE Return(t)
  <2>1. pc[t] = "return" /\ pc' = [pc EXCEPT ![t] = "idle"] /\ boot' = boot
          /\ UNCHANGED <<count, waitq>>
    BY <1>3 DEF Return
  <2> QED BY <2>1, SameSide
<1>4. CASE GetVarConfig(t) \/ AccessParam(t) \/ GroupAdd(t) \/ GroupRemove(t)
  <2>1. pc[t] = "critical" /\ pc' = [pc EXCEPT ![t] = "unlock"] /\ boot' = boot
          /\ UNCHANGED <<count, waitq>>
    BY <1>4 DEF GetVarConfig, AccessParam, GroupAdd, GroupRemove, Finish, InCritical
  <2> QED BY <2>1, SameSide
<1>5. CASE Proceed(t)
  <2> PICK l \in {"lock", "return"} : pc' = [pc EXCEPT ![t] = l] BY <1>5 DEF Proceed
  <2>1. pc[t] = "found" /\ boot' = boot /\ UNCHANGED <<count, waitq>> BY <1>5 DEF Proceed
  <2> QED BY <2>1, SameSide
<1>6. CASE BeginWalk(t)
  <2>1. pc[t] = "critical" /\ pc' = [pc EXCEPT ![t] = "walk"] /\ boot' = boot
          /\ UNCHANGED <<count, waitq>>
    BY <1>6 DEF BeginWalk, InCritical
  <2> QED BY <2>1, SameSide
<1>7. CASE EndWalk(t)
  <2>1. pc[t] = "walk" /\ pc' = [pc EXCEPT ![t] = "unlock"] /\ boot' = boot
          /\ UNCHANGED <<count, waitq>>
    BY <1>7 DEF EndWalk
  <2> QED BY <2>1, SameSide
<1> QED BY <1>1, <1>2, <1>3, <1>4, <1>5, <1>6, <1>7

\* A step that leaves the control of the database alone preserves IInv.
LEMMA Still == ASSUME IInv, UNCHANGED <<pc, count, waitq, boot>> PROVE IInv'
BY DEF IInv, Controlled, QueueWaits, ClosedBeforeInit, MutualExclusion, InSection

-----------------------------------------------------------------------------
\* IInv holds in every state (database.c:86-114, 445-452).
THEOREM Invariance == Spec => []IInv
<1>1. IInv /\ [Next]_vars => IInv'
  <2> SUFFICES ASSUME IInv, [Next]_vars PROVE IInv' OBVIOUS
  <2>1. CASE UNCHANGED vars BY <2>1, Still DEF vars
  <2>2. CASE DbInit BY <2>2, DbInitInv
  <2>3. CASE SetupStep BY <2>3, BodyInv, ThreadAssumption
  <2>4. ASSUME NEW t \in Threads, Step(t) PROVE IInv'
    <3>1. CASE Lock(t) BY <3>1, LockInv
    <3>2. CASE Unlock(t) BY <3>2, UnlockNobodyInv, UnlockToInv DEF Unlock
    <3>3. CASE LoadDefault(t) \/ ShowParam(t)
      BY <3>3, Still DEF LoadDefault, ShowParam
    <3>4. CASE Return(t) \/ GetVarConfig(t) \/ Proceed(t) \/ AccessParam(t)
               \/ GroupAdd(t) \/ GroupRemove(t) \/ BeginWalk(t) \/ EndWalk(t)
      BY <3>4, BodyInv
    <3> QED BY <2>4, <3>1, <3>2, <3>3, <3>4 DEF Step
  <2>5. ASSUME NEW t \in Threads, UserCall(t) PROVE IInv' BY <2>5, BodyInv
  <2>6. ASSUME NEW t \in Threads, LockTimeout(t) PROVE IInv' BY <2>6, LockTimeoutInv
  <2> QED BY <2>1, <2>2, <2>3, <2>4, <2>5, <2>6 DEF Next
<1> QED BY <1>1, InitInv, PTL DEF Spec

\* No two threads are between db_lock and db_unlock, and while one is the
\* semaphore is taken, for any number of threads, calls made before db_init
\* and time-outs included.
THEOREM SectionsExclude == Spec => []MutualExclusion
<1>1. IInv => MutualExclusion BY DEF IInv
<1> QED BY <1>1, Invariance, PTL

-----------------------------------------------------------------------------
(* What a walk still has to visit is listed.                               *)

\* Nobody changes the list while a thread walks through it.
WalkListed ==
  \A t \in Threads : pc[t] = "walk" => \A p \in todo[t] : GroupOf[p] \in Listed

WInv == WalkListed /\ DOMAIN todo = Threads /\ todo = [t \in Threads |-> todo[t]]
          /\ var = [p \in Params |-> var[p]]

\* Nobody walks at the start.
LEMMA WInit == Init => WInv
BY DEF Init, WInv, WalkListed

\* A step that leaves the list alone and starts no walk.
LEMMA NoWalkStarts ==
  ASSUME WInv, task_list' = task_list,
         \A t \in Threads : pc'[t] = "walk" => pc[t] = "walk" /\ todo'[t] \subseteq todo[t]
  PROVE  WalkListed'
BY DEF WInv, WalkListed, Listed

\* The groups are added and removed by a thread that has the database to
\* itself (database.c:454-489).
LEMMA ListChanges ==
  ASSUME IInv, WInv, NEW t \in Threads, GroupAdd(t) \/ GroupRemove(t) PROVE WalkListed'
<1>1. pc[t] = "critical" /\ pc' = [pc EXCEPT ![t] = "unlock"]
  BY DEF GroupAdd, GroupRemove, InCritical, Finish, Goto
<1>2. \A u \in Threads : pc'[u] # "walk"
  BY <1>1 DEF IInv, Controlled, MutualExclusion, InSection
<1> QED BY <1>2 DEF WalkListed

\* A walk begins with parameters of listed groups (database.c:491-538).
LEMMA WalkBegins ==
  ASSUME IInv, WInv, NEW t \in Threads, BeginWalk(t) PROVE WalkListed'
<1>1. /\ pc[t] = "critical" /\ pc' = [pc EXCEPT ![t] = "walk"] /\ task_list' = task_list
      /\ \/ todo' = [todo EXCEPT ![t] = Atomic!Loaded(call[t], Listed)]
         \/ todo' = [todo EXCEPT ![t] = Atomic!ParamsIn(call[t].g, Listed)]
  BY DEF BeginWalk, InCritical, Goto
<1>2. \A u \in Threads \ {t} : pc'[u] # "walk"
  BY <1>1 DEF IInv, Controlled, MutualExclusion, InSection
<1>3. \A p \in Atomic!ParamsIn(call[t].g, Listed) : GroupOf[p] \in Listed
  BY DEF Atomic!ParamsIn, Atomic!Selected
<1>4. Atomic!Loaded(call[t], Listed) \subseteq Atomic!ParamsIn(call[t].g, Listed)
  BY DEF Atomic!Loaded
<1>5. \A p \in todo'[t] : GroupOf[p] \in Listed BY <1>1, <1>3, <1>4 DEF WInv
<1>6. Listed' = Listed BY <1>1 DEF Listed
<1> QED BY <1>2, <1>5, <1>6 DEF WalkListed

\* Every step keeps what a walk has to visit listed.
LEMMA WalkInv == ASSUME IInv, WInv, [Next]_vars PROVE WInv'
<1>1. CASE UNCHANGED vars BY <1>1 DEF vars, WInv, WalkListed, Listed
<1>2. CASE DbInit BY <1>2, NoWalkStarts DEF DbInit, WInv
<1>3. ASSUME NEW t \in Threads, (SetupStep /\ t = Main) \/ UserCall(t) PROVE WInv'
  <2>1. \A u \in Threads : pc'[u] = "walk" => pc[u] = "walk"
    BY <1>3 DEF SetupStep, UserCall, StartCall, Goto, IInv, Controlled
  <2>2. todo' = todo /\ var' = var /\ task_list' = task_list
    BY <1>3 DEF SetupStep, UserCall, StartCall
  <2> QED BY <2>1, <2>2, NoWalkStarts DEF WInv
<1>4. ASSUME NEW t \in Threads,
             Lock(t) \/ UnlockNobody(t) \/ Return(t) \/ GetVarConfig(t) \/ Proceed(t)
               \/ EndWalk(t) \/ LockTimeout(t)
      PROVE  WInv'
  <2>1. \A u \in Threads : pc'[u] = "walk" => pc[u] = "walk"
    BY <1>4 DEF Lock, UnlockNobody, AfterUnlock, Return, GetVarConfig, Proceed, EndWalk,
                LockTimeout, Goto, Finish, IInv, Controlled
  <2>2. todo' = todo /\ var' = var /\ task_list' = task_list
    BY <1>4 DEF Lock, UnlockNobody, Return, GetVarConfig, Proceed, EndWalk, LockTimeout
  <2> QED BY <2>1, <2>2, NoWalkStarts DEF WInv
<1>5. ASSUME NEW t \in Threads, NEW w \in waitq, UnlockTo(t, w) PROVE WInv'
  <2>1. \A u \in Threads : pc'[u] = "walk" => pc[u] = "walk"
    BY <1>5 DEF UnlockTo, AfterUnlock, IInv, Controlled
  <2>2. todo' = todo /\ var' = var /\ task_list' = task_list BY <1>5 DEF UnlockTo
  <2> QED BY <2>1, <2>2, NoWalkStarts DEF WInv
<1>6. ASSUME NEW t \in Threads, AccessParam(t) PROVE WInv'
  <2>1. \A u \in Threads : pc'[u] = "walk" => pc[u] = "walk"
    BY <1>6 DEF AccessParam, Finish, Goto, IInv, Controlled
  <2>2. todo' = todo /\ task_list' = task_list
          /\ \E n : var' = [var EXCEPT ![call[t].p] = n]
    BY <1>6 DEF AccessParam
  <2>3. var' = [p \in Params |-> var'[p]] BY <2>2 DEF WInv
  <2> QED BY <2>1, <2>2, <2>3, NoWalkStarts DEF WInv
<1>7. ASSUME NEW t \in Threads, LoadDefault(t) \/ ShowParam(t) PROVE WInv'
  <2>1. PICK p : todo' = [todo EXCEPT ![t] = @ \ {p}]
                  /\ (var' = var \/ \E n : var' = [var EXCEPT ![p] = n])
    BY <1>7 DEF LoadDefault, ShowParam
  <2>2. pc' = pc /\ task_list' = task_list BY <1>7 DEF LoadDefault, ShowParam
  <2>3. var' = [q \in Params |-> var'[q]] BY <2>1 DEF WInv
  <2>4. todo' = [u \in Threads |-> todo'[u]] /\ DOMAIN todo' = Threads BY <2>1 DEF WInv
  <2>5. \A u \in Threads : todo'[u] \subseteq todo[u] BY <2>1 DEF WInv
  <2> QED BY <2>2, <2>3, <2>4, <2>5, NoWalkStarts DEF WInv
<1>8. ASSUME NEW t \in Threads, GroupAdd(t) \/ GroupRemove(t) PROVE WInv'
  <2>1. todo' = todo /\ var' = var BY <1>8 DEF GroupAdd, GroupRemove
  <2> QED BY <1>8, <2>1, ListChanges DEF WInv
<1>9. ASSUME NEW t \in Threads, BeginWalk(t) PROVE WInv'
  <2>1. var' = var /\ \E s : todo' = [todo EXCEPT ![t] = s] BY <1>9 DEF BeginWalk
  <2>2. todo' = [u \in Threads |-> todo'[u]] /\ DOMAIN todo' = Threads BY <2>1 DEF WInv
  <2> QED BY <1>9, <2>1, <2>2, WalkBegins DEF WInv
<1>10. CASE SetupStep BY <1>10, <1>3, ThreadAssumption
<1>11. ASSUME NEW t \in Threads, Step(t) PROVE WInv'
  BY <1>11, <1>4, <1>5, <1>6, <1>7, <1>8, <1>9 DEF Step, Unlock
<1> QED BY <1>1, <1>2, <1>3, <1>4, <1>10, <1>11 DEF Next

\* A get leaves what is stored.
LEMMA GetStoresNothing ==
  ASSUME NEW c, NEW cur, c.op = "get" PROVE Atomic!Access(c, cur).value = cur
BY DEF Atomic!Access, Atomic!GetString, Atomic!GetNumber, Atomic!Outcome

\* The one step that writes to a parameter of a group which is not listed is
\* a set whose look-up came before the removal.
LeftAlone ==
  \A p \in Params : var'[p] # var[p] /\ GroupOf[p] \notin Listed =>
    \E t \in Threads : /\ pc[t] = "critical" /\ stage[t] = "access"
                      /\ call[t].op \in {"set", "shell_set"} /\ call[t].p = p

\* The two steps that write are the default load and the access.
LEMMA StepLeavesAlone == ASSUME WInv, Next PROVE LeftAlone
<1> SUFFICES ASSUME NEW p \in Params, var'[p] # var[p], GroupOf[p] \notin Listed
             PROVE  \E t \in Threads : /\ pc[t] = "critical" /\ stage[t] = "access"
                      /\ call[t].op \in {"set", "shell_set"} /\ call[t].p = p
  BY DEF LeftAlone
<1>1. PICK t \in Threads : LoadDefault(t) \/ AccessParam(t)
  <2>1. ~DbInit /\ ~SetupStep BY DEF DbInit, SetupStep, StartCall
  <2>2. \A t \in Threads : ~UserCall(t) /\ ~LockTimeout(t)
    BY DEF UserCall, StartCall, LockTimeout
  <2>3. PICK t \in Threads : Step(t) BY <2>1, <2>2 DEF Next
  <2>4. ~(Lock(t) \/ Unlock(t) \/ Return(t) \/ GetVarConfig(t) \/ Proceed(t) \/ EndWalk(t))
    BY DEF Lock, Unlock, UnlockNobody, UnlockTo, Return, GetVarConfig, Proceed, EndWalk
  <2>5. ~(GroupAdd(t) \/ GroupRemove(t) \/ BeginWalk(t) \/ ShowParam(t))
    BY DEF GroupAdd, GroupRemove, BeginWalk, ShowParam
  <2> QED BY <2>3, <2>4, <2>5 DEF Step
<1>2. CASE LoadDefault(t)
  <2>1. PICK q \in todo[t] : var' = [var EXCEPT ![q] = LoadedDefault(q)] BY <1>2 DEF LoadDefault
  <2>2. p = q BY <2>1 DEF WInv
  <2> QED BY <1>2, <2>2 DEF LoadDefault, WInv, WalkListed
<1>3. CASE AccessParam(t)
  <2>1. /\ pc[t] = "critical" /\ stage[t] = "access" /\ call[t].op \in Atomic!AccessOps
        /\ var' = [var EXCEPT ![call[t].p] = Atomic!Access(call[t], var[call[t].p]).value]
    BY <1>3 DEF AccessParam
  <2>2. p = call[t].p /\ Atomic!Access(call[t], var[call[t].p]).value # var[call[t].p]
    BY <2>1 DEF WInv
  <2>3. call[t].op # "get" BY <2>2, GetStoresNothing
  <2> QED BY <2>1, <2>2, <2>3 DEF Atomic!AccessOps
<1> QED BY <1>1, <1>2, <1>3

\* Defaults go to listed groups only: what a walk has still to visit stays
\* listed until it is done, for any number of threads.
THEOREM RemovedLeftAlone == Spec => RemovedGroupsAreLeftAlone
<1>1. WInv /\ [Next]_vars => [LeftAlone]_vars BY StepLeavesAlone DEF vars
<1>2. IInv /\ WInv /\ [Next]_vars => WInv' BY WalkInv
<1>3. Spec => [][LeftAlone]_vars BY <1>1, <1>2, WInit, Invariance, PTL DEF Spec
<1> QED BY <1>3 DEF RemovedGroupsAreLeftAlone, LeftAlone

-----------------------------------------------------------------------------
(* Types.                                                                  *)

\* A call: of a user, by the types of the exported functions, or of the set-up.
WellFormed(c) ==
  \/ c.op \in {"add", "remove"} /\ c.g \in GroupIds
  \/ c.op = "load"
  \/ c.op = "show"
  \/ c.op \in {"set", "get"} /\ c.p \in Params /\ c.kind \in Kinds
       /\ c.n \in IF c.kind = "STR" THEN Nat ELSE Int
  \/ c.op = "shell_set" /\ c.p \in Params /\ c.len \in Nat /\ c.n \in Int

\* The set-up has a call per group and one more.
LEMMA SetupIs ==
  /\ Len(SetupCalls) \in Nat
  /\ \A i \in 1 .. Len(SetupCalls) :
       /\ SetupCalls[i] \in Calls /\ WellFormed(SetupCalls[i]) /\ SetupCalls[i].op \in {"add", "load"}
  <1> DEFINE A == [i \in 1 .. Len(SetupGroups) |-> [op |-> "add", g |-> SetupGroups[i]]]
             L == [op |-> "load", g |-> ALL, access |-> FACTORY]
             S == {A[i] : i \in 1 .. Len(SetupGroups)} \cup {L}
  <1>1. SetupGroups \in Seq(GroupIds)
    BY ThreadAssumption
  <1>2. A \in Seq(S) /\ Len(A) = Len(SetupGroups) /\ <<L>> \in Seq(S)
    BY <1>1
  <1>3. SetupCalls = A \o <<L>>
    BY DEF SetupCalls
  <1>4. SetupCalls \in Seq(S)
    BY <1>2, <1>3
  <1>5. \A c \in S : WellFormed(c) /\ c.op \in {"add", "load"}
    <2>1. \A i \in 1 .. Len(SetupGroups) : SetupGroups[i] \in GroupIds
      BY <1>1
    <2>2. QED
      BY <2>1 DEF WellFormed
  <1>6. DOMAIN SetupCalls = 1 .. Len(SetupCalls) /\ Len(SetupCalls) \in Nat
    BY <1>4
  <1>7. \A i \in 1 .. Len(SetupCalls) : SetupCalls[i] \in S /\ SetupCalls[i] \in Calls
    BY <1>4, <1>6 DEF Calls
  <1>8. QED
    BY <1>5, <1>6, <1>7

\* Every call has its form.
LEMMA CallForms ==
  ASSUME NEW c \in Calls PROVE WellFormed(c) /\ c # NoCall
  <1>1. c # NoCall
    BY ThreadAssumption
  <1>2. CASE \E t \in Threads : c \in CallsOf[t]
    BY <1>1, <1>2, CallAssumption DEF WellFormed
  <1>3. CASE \E i \in DOMAIN SetupCalls : c = SetupCalls[i]
    <2>1. DOMAIN SetupCalls = 1 .. Len(SetupCalls)
      BY ThreadAssumption DEF SetupCalls
    <2>2. QED
      BY <1>1, <1>3, <2>1, SetupIs
  <1>4. QED
    BY <1>2, <1>3 DEF Calls

\* The tables, parameter by parameter.
LEMMA TablesAre ==
  /\ \A p \in Params :
       /\ Min[p] \in Int /\ Max[p] \in Int /\ Default[p] \in Int
       /\ Kind[p] \in Kinds /\ VarSize[p] \in Nat
       /\ Kind[p] = "STR" => VarSize[p] > 4
       /\ Kind[p] # "STR" => Kind[p] \in IntKinds /\ VarSize[p] = Bytes[Kind[p]]
  BY TableAssumption DEF TableAssumption, Kinds

\* A default load writes numbers.
LEMMA LoadedTyped == \A p \in Params : LoadedDefault(p) \in Int
  BY TablesAre DEF LoadedDefault

\* The number of values of one byte and of two.
LEMMA BytePowers ==
  ASSUME NEW w \in Int
  PROVE  /\ w = 1 => 256 ^ w = 256
         /\ w = 2 => 256 ^ w = 65536
  <1>1. ASSUME w = 1 PROVE 256 ^ w = 256
    BY <1>1
  <1>2. ASSUME w = 2 PROVE 256 ^ w = 65536
    BY <1>2
  <1>3. QED
    BY <1>1, <1>2

\* The conversion to each kind, width by width.
LEMMA WrapCases ==
  ASSUME NEW k \in IntKinds, NEW n \in Int
  PROVE  /\ k \in {"U32", "S32"} => Wrap(k, n) = n
         /\ k \in {"U08", "BOL"} => Wrap(k, n) = n % 256
         /\ k = "U16" => Wrap(k, n) = n % 65536
         /\ k = "S08" => Wrap(k, n) = IF n % 256 < 128 THEN n % 256 ELSE (n % 256) - 256
         /\ k = "S16" => Wrap(k, n) = IF n % 65536 < 32768 THEN n % 65536 ELSE (n % 65536) - 65536
  <1>1. /\ Bytes[k] \in Int
        /\ k \in {"U32", "S32"} => Bytes[k] = 4
        /\ k \in {"U08", "S08", "BOL"} => Bytes[k] = 1
        /\ k \in {"U16", "S16"} => Bytes[k] = 2
    BY DEF Bytes, IntKinds
  <1>2. /\ Bytes[k] = 1 => 256 ^ Bytes[k] = 256
        /\ Bytes[k] = 2 => 256 ^ Bytes[k] = 65536
    BY <1>1, BytePowers
  <1>3. Unsigned(Bytes[k], n) = n % (256 ^ Bytes[k])
    BY DEF Unsigned
  <1>4. /\ Bytes[k] = 1 => Unsigned(Bytes[k], n) = n % 256
        /\ Bytes[k] = 2 => Unsigned(Bytes[k], n) = n % 65536
    BY <1>2, <1>3
  <1>5. k \in {"U32", "S32"} => Wrap(k, n) = n
    BY <1>1 DEF Wrap
  <1>6. k \in {"U08", "BOL"} => Wrap(k, n) = n % 256
    <2>1. k \in {"U08", "BOL"} => Wrap(k, n) = Unsigned(Bytes[k], n)
      BY <1>1 DEF Wrap
    <2>2. QED
      BY <2>1, <1>1, <1>4
  <1>7. k = "U16" => Wrap(k, n) = n % 65536
    <2>1. k = "U16" => Wrap(k, n) = Unsigned(Bytes[k], n)
      BY <1>1 DEF Wrap
    <2>2. QED
      BY <2>1, <1>1, <1>4
  <1>8. k \in {"S08", "S16"} =>
          Wrap(k, n) = IF Unsigned(Bytes[k], n) < 256 ^ Bytes[k] \div 2
                         THEN Unsigned(Bytes[k], n) ELSE Unsigned(Bytes[k], n) - 256 ^ Bytes[k]
    BY <1>1 DEF Wrap
  <1>9. k = "S08" => Wrap(k, n) = IF n % 256 < 128 THEN n % 256 ELSE (n % 256) - 256
    BY <1>1, <1>2, <1>4, <1>8
  <1>10. k = "S16" => Wrap(k, n) = IF n % 65536 < 32768 THEN n % 65536 ELSE (n % 65536) - 65536
    BY <1>1, <1>2, <1>4, <1>8
  <1>11. QED
    BY <1>5, <1>6, <1>7, <1>9, <1>10

\* Conversions to 8 bits, unsigned and signed.
U8(n) == n % 256
S8(n) == IF n % 256 < 128 THEN n % 256 ELSE (n % 256) - 256

\* Where they land, and what they make of a value at most one wrap away.
LEMMA To8 ==
  ASSUME NEW n \in Int
  PROVE  /\ U8(n) \in Int /\ 0 <= U8(n) /\ U8(n) < 256
         /\ S8(n) \in Int /\ -128 <= S8(n) /\ S8(n) < 128
         /\ -128 <= n /\ n < 256 => /\ U8(n) = (IF n < 0 THEN n + 256 ELSE n)
                                 /\ S8(n) = (IF n >= 128 THEN n - 256 ELSE n)
  <1>1. PICK u \in Int : u = n % 256 /\ 0 <= u /\ u < 256
    OBVIOUS
  <1>2. -128 <= n /\ n < 256 => u = (IF n < 0 THEN n + 256 ELSE n)
    BY <1>1
  <1>3. U8(n) = u /\ S8(n) = (IF u < 128 THEN u ELSE u - 256)
    BY <1>1 DEF U8, S8
  <1>4. QED
    BY <1>1, <1>2, <1>3

\* A range read as the other of the two is a part of the declared one.
LEMMA Views8 ==
  ASSUME NEW lo \in Int, NEW hi \in Int, NEW n \in Int, lo <= hi
  PROVE  /\ U8(lo) = lo /\ U8(hi) = hi /\ lo <= n /\ n <= hi => lo <= U8(n) /\ U8(n) <= hi
         /\ S8(lo) = lo /\ S8(hi) = hi /\ lo <= n /\ n <= hi => lo <= S8(n) /\ S8(n) <= hi
         /\ S8(lo) = lo /\ S8(hi) = hi /\ U8(lo) <= n /\ n <= U8(hi) => lo <= S8(n) /\ S8(n) <= hi
         /\ U8(lo) = lo /\ U8(hi) = hi /\ S8(lo) <= n /\ n <= S8(hi) => lo <= U8(n) /\ U8(n) <= hi
  <1>1. ASSUME U8(lo) = lo, U8(hi) = hi, lo <= n, n <= hi PROVE U8(n) = n
    <2>1. 0 <= lo /\ hi < 256
      BY <1>1, To8
    <2>2. 0 <= n /\ n < 256
      BY <1>1, <2>1
    <2>3. QED
      BY <2>2, To8
  <1>2. ASSUME S8(lo) = lo, S8(hi) = hi, lo <= n, n <= hi PROVE S8(n) = n
    <2>1. -128 <= lo /\ hi < 128
      BY <1>2, To8
    <2>2. -128 <= n /\ n < 128
      BY <1>2, <2>1
    <2>3. QED
      BY <2>2, To8
  <1>3. ASSUME S8(lo) = lo, S8(hi) = hi, U8(lo) <= n, n <= U8(hi) PROVE lo <= S8(n) /\ S8(n) <= hi
    <2>1. -128 <= lo /\ lo < 128 /\ -128 <= hi /\ hi < 128
      BY <1>3, To8
    <2>2. PICK a \in Int, b \in Int : a = U8(lo) /\ b = U8(hi)
      BY To8
    <2>3. a = (IF lo < 0 THEN lo + 256 ELSE lo)
      BY <2>1, <2>2, To8
    <2>4. b = (IF hi < 0 THEN hi + 256 ELSE hi)
      BY <2>1, <2>2, To8
    <2>5. a <= n /\ n <= b
      BY <1>3, <2>2
    <2>6. /\ 0 <= n /\ n < 256
          /\ lo <= (IF n >= 128 THEN n - 256 ELSE n)
          /\ (IF n >= 128 THEN n - 256 ELSE n) <= hi
      BY <2>1, <2>3, <2>4, <2>5
    <2>7. S8(n) = (IF n >= 128 THEN n - 256 ELSE n)
      BY <2>6, To8
    <2>8. QED
      BY <2>6, <2>7
  <1>4. ASSUME U8(lo) = lo, U8(hi) = hi, S8(lo) <= n, n <= S8(hi) PROVE lo <= U8(n) /\ U8(n) <= hi
    <2>1. 0 <= lo /\ lo < 256 /\ 0 <= hi /\ hi < 256
      BY <1>4, To8
    <2>2. PICK a \in Int, b \in Int : a = S8(lo) /\ b = S8(hi)
      BY To8
    <2>3. a = (IF lo >= 128 THEN lo - 256 ELSE lo)
      BY <2>1, <2>2, To8
    <2>4. b = (IF hi >= 128 THEN hi - 256 ELSE hi)
      BY <2>1, <2>2, To8
    <2>5. a <= n /\ n <= b
      BY <1>4, <2>2
    <2>6. /\ -128 <= n /\ n < 128
          /\ lo <= (IF n < 0 THEN n + 256 ELSE n)
          /\ (IF n < 0 THEN n + 256 ELSE n) <= hi
      BY <2>1, <2>3, <2>4, <2>5
    <2>7. U8(n) = (IF n < 0 THEN n + 256 ELSE n)
      BY <2>6, To8
    <2>8. QED
      BY <2>6, <2>7
  <1>5. QED
    BY <1>1, <1>2, <1>3, <1>4

\* Conversions to 16 bits, unsigned and signed.
U16(n) == n % 65536
S16(n) == IF n % 65536 < 32768 THEN n % 65536 ELSE (n % 65536) - 65536

\* Where they land, and what they make of a value at most one wrap away.
LEMMA To16 ==
  ASSUME NEW n \in Int
  PROVE  /\ U16(n) \in Int /\ 0 <= U16(n) /\ U16(n) < 65536
         /\ S16(n) \in Int /\ -32768 <= S16(n) /\ S16(n) < 32768
         /\ -32768 <= n /\ n < 65536 => /\ U16(n) = (IF n < 0 THEN n + 65536 ELSE n)
                                 /\ S16(n) = (IF n >= 32768 THEN n - 65536 ELSE n)
  <1>1. PICK u \in Int : u = n % 65536 /\ 0 <= u /\ u < 65536
    OBVIOUS
  <1>2. -32768 <= n /\ n < 65536 => u = (IF n < 0 THEN n + 65536 ELSE n)
    BY <1>1
  <1>3. U16(n) = u /\ S16(n) = (IF u < 32768 THEN u ELSE u - 65536)
    BY <1>1 DEF U16, S16
  <1>4. QED
    BY <1>1, <1>2, <1>3

\* A range read as the other of the two is a part of the declared one.
LEMMA Views16 ==
  ASSUME NEW lo \in Int, NEW hi \in Int, NEW n \in Int, lo <= hi
  PROVE  /\ U16(lo) = lo /\ U16(hi) = hi /\ lo <= n /\ n <= hi => lo <= U16(n) /\ U16(n) <= hi
         /\ S16(lo) = lo /\ S16(hi) = hi /\ lo <= n /\ n <= hi => lo <= S16(n) /\ S16(n) <= hi
         /\ S16(lo) = lo /\ S16(hi) = hi /\ U16(lo) <= n /\ n <= U16(hi) => lo <= S16(n) /\ S16(n) <= hi
         /\ U16(lo) = lo /\ U16(hi) = hi /\ S16(lo) <= n /\ n <= S16(hi) => lo <= U16(n) /\ U16(n) <= hi
  <1>1. ASSUME U16(lo) = lo, U16(hi) = hi, lo <= n, n <= hi PROVE U16(n) = n
    <2>1. 0 <= lo /\ hi < 65536
      BY <1>1, To16
    <2>2. 0 <= n /\ n < 65536
      BY <1>1, <2>1
    <2>3. QED
      BY <2>2, To16
  <1>2. ASSUME S16(lo) = lo, S16(hi) = hi, lo <= n, n <= hi PROVE S16(n) = n
    <2>1. -32768 <= lo /\ hi < 32768
      BY <1>2, To16
    <2>2. -32768 <= n /\ n < 32768
      BY <1>2, <2>1
    <2>3. QED
      BY <2>2, To16
  <1>3. ASSUME S16(lo) = lo, S16(hi) = hi, U16(lo) <= n, n <= U16(hi) PROVE lo <= S16(n) /\ S16(n) <= hi
    <2>1. -32768 <= lo /\ lo < 32768 /\ -32768 <= hi /\ hi < 32768
      BY <1>3, To16
    <2>2. PICK a \in Int, b \in Int : a = U16(lo) /\ b = U16(hi)
      BY To16
    <2>3. a = (IF lo < 0 THEN lo + 65536 ELSE lo)
      BY <2>1, <2>2, To16
    <2>4. b = (IF hi < 0 THEN hi + 65536 ELSE hi)
      BY <2>1, <2>2, To16
    <2>5. a <= n /\ n <= b
      BY <1>3, <2>2
    <2>6. /\ 0 <= n /\ n < 65536
          /\ lo <= (IF n >= 32768 THEN n - 65536 ELSE n)
          /\ (IF n >= 32768 THEN n - 65536 ELSE n) <= hi
      BY <2>1, <2>3, <2>4, <2>5
    <2>7. S16(n) = (IF n >= 32768 THEN n - 65536 ELSE n)
      BY <2>6, To16
    <2>8. QED
      BY <2>6, <2>7
  <1>4. ASSUME U16(lo) = lo, U16(hi) = hi, S16(lo) <= n, n <= S16(hi) PROVE lo <= U16(n) /\ U16(n) <= hi
    <2>1. 0 <= lo /\ lo < 65536 /\ 0 <= hi /\ hi < 65536
      BY <1>4, To16
    <2>2. PICK a \in Int, b \in Int : a = S16(lo) /\ b = S16(hi)
      BY To16
    <2>3. a = (IF lo >= 32768 THEN lo - 65536 ELSE lo)
      BY <2>1, <2>2, To16
    <2>4. b = (IF hi >= 32768 THEN hi - 65536 ELSE hi)
      BY <2>1, <2>2, To16
    <2>5. a <= n /\ n <= b
      BY <1>4, <2>2
    <2>6. /\ -32768 <= n /\ n < 32768
          /\ lo <= (IF n < 0 THEN n + 65536 ELSE n)
          /\ (IF n < 0 THEN n + 65536 ELSE n) <= hi
      BY <2>1, <2>3, <2>4, <2>5
    <2>7. U16(n) = (IF n < 0 THEN n + 65536 ELSE n)
      BY <2>6, To16
    <2>8. QED
      BY <2>6, <2>7
  <1>5. QED
    BY <1>1, <1>2, <1>3, <1>4

\* Which conversion each kind makes.
LEMMA WrapIs ==
  ASSUME NEW k \in IntKinds, NEW n \in Int
  PROVE  /\ k \in {"U32", "S32"} => Wrap(k, n) = n
         /\ k \in {"U08", "BOL"} => Wrap(k, n) = U8(n)
         /\ k = "S08" => Wrap(k, n) = S8(n)
         /\ k = "U16" => Wrap(k, n) = U16(n)
         /\ k = "S16" => Wrap(k, n) = S16(n)
  BY WrapCases DEF U8, S8, U16, S16

\* A conversion gives a number.
LEMMA WrapTyped == ASSUME NEW k \in IntKinds, NEW n \in Int PROVE Wrap(k, n) \in Int
  BY WrapIs, To8, To16 DEF IntKinds

\* A range read through a view of the same width as the parameter is a part
\* of the declared one, whatever the signs.
LEMMA WrapViews ==
  ASSUME NEW k \in IntKinds, NEW v \in IntKinds, Bytes[k] = Bytes[v],
         NEW lo \in Int, NEW hi \in Int, NEW n \in Int, lo <= hi,
         Wrap(v, lo) = lo, Wrap(v, hi) = hi, Wrap(k, lo) <= n, n <= Wrap(k, hi)
  PROVE  lo <= Wrap(v, n) /\ Wrap(v, n) <= hi
  <1>1. CASE Bytes[k] = 4
    <2>1. k \in {"U32", "S32"} /\ v \in {"U32", "S32"}
      BY <1>1 DEF Bytes, IntKinds
    <2>2. QED
      BY <2>1, WrapIs
  <1>2. CASE Bytes[k] = 1
    <2>1. k \in {"U08", "BOL", "S08"} /\ v \in {"U08", "BOL", "S08"}
      BY <1>2 DEF Bytes, IntKinds
    <2>2. \A m \in Int : /\ k = "S08" => Wrap(k, m) = S8(m)
                         /\ k # "S08" => Wrap(k, m) = U8(m)
                         /\ v = "S08" => Wrap(v, m) = S8(m)
                         /\ v # "S08" => Wrap(v, m) = U8(m)
      BY <2>1, WrapIs
    <2>3. CASE k = "S08" /\ v = "S08"
      BY <2>2, <2>3, Views8
    <2>4. CASE k = "S08" /\ v # "S08"
      BY <2>2, <2>4, Views8
    <2>5. CASE k # "S08" /\ v = "S08"
      BY <2>2, <2>5, Views8
    <2>6. CASE k # "S08" /\ v # "S08"
      BY <2>2, <2>6, Views8
    <2>7. QED
      BY <2>3, <2>4, <2>5, <2>6
  <1>3. CASE Bytes[k] = 2
    <2>1. k \in {"U16", "S16"} /\ v \in {"U16", "S16"}
      BY <1>3 DEF Bytes, IntKinds
    <2>2. \A m \in Int : /\ k = "S16" => Wrap(k, m) = S16(m)
                         /\ k # "S16" => Wrap(k, m) = U16(m)
                         /\ v = "S16" => Wrap(v, m) = S16(m)
                         /\ v # "S16" => Wrap(v, m) = U16(m)
      BY <2>1, WrapIs
    <2>3. CASE k = "S16" /\ v = "S16"
      BY <2>2, <2>3, Views16
    <2>4. CASE k = "S16" /\ v # "S16"
      BY <2>2, <2>4, Views16
    <2>5. CASE k # "S16" /\ v = "S16"
      BY <2>2, <2>5, Views16
    <2>6. CASE k # "S16" /\ v # "S16"
      BY <2>2, <2>6, Views16
    <2>7. QED
      BY <2>3, <2>4, <2>5, <2>6
  <1>4. QED
    BY <1>1, <1>2, <1>3 DEF Bytes, IntKinds

\* A numeric setter leaves a value of the range, or what was there.
LEMMA SetNumberLegal ==
  ASSUME NEW k \in IntKinds, NEW p \in Params, NEW a, NEW n \in Int, NEW cur \in Int
  PROVE  LET o == SetNumber(k, p, a, n, cur)
         IN  o.code \in Codes /\ o.value \in Int /\ (o.value = cur \/ Legal(p, o.value))
  <1> DEFINE o == SetNumber(k, p, a, n, cur)
  <1>1. o.code \in Codes
    BY DEF SetNumber, Outcome, Codes, Errors
  <1>2. \/ o.value = cur
        \/ o.value = Wrap(Kind[p], n) /\ Bytes[k] = VarSize[p] /\ n \in RangeAs(k, p)
    BY DEF SetNumber, Outcome
  <1>3. ASSUME Bytes[k] = VarSize[p], n \in RangeAs(k, p)
        PROVE  Wrap(Kind[p], n) \in Int /\ Legal(p, Wrap(Kind[p], n))
    <2>1. Bytes[k] \in {1, 2, 4}
      BY DEF Bytes, IntKinds
    <2>2. Kind[p] \in IntKinds /\ Kind[p] # "STR" /\ Bytes[k] = Bytes[Kind[p]]
      <3>1. Kind[p] # "STR"
        BY <1>3, <2>1, TablesAre
      <3>2. QED
        BY <3>1, <1>3, TablesAre
    <2>3. Wrap(Kind[p], Min[p]) = Min[p] /\ Wrap(Kind[p], Max[p]) = Max[p] /\ Min[p] <= Max[p]
      BY <2>2, RangeAssumption
    <2>4. n \in Wrap(k, Min[p]) .. Wrap(k, Max[p])
      BY <1>3 DEF RangeAs
    <2>5. Min[p] \in Int /\ Max[p] \in Int
      BY TablesAre
    <2>8. Wrap(k, Min[p]) <= n /\ n <= Wrap(k, Max[p])
      BY <2>4, <2>5, WrapTyped
    <2>6. Min[p] <= Wrap(Kind[p], n) /\ Wrap(Kind[p], n) <= Max[p] /\ Wrap(Kind[p], n) \in Int
      BY <2>2, <2>3, <2>4, <2>5, <2>8, WrapViews, WrapTyped
    <2>7. QED
      BY <2>2, <2>5, <2>6 DEF Legal, InRange
  <1>4. QED
    BY <1>1, <1>2, <1>3

\* A text setter leaves a text that fits, or what was there.
LEMMA SetStringLegal ==
  ASSUME NEW p \in Params, NEW a, NEW n \in Nat, NEW cur \in Int
  PROVE  LET o == SetString(p, a, n, cur)
         IN  o.code \in Codes /\ o.value \in Int /\ (o.value = cur \/ Legal(p, o.value))
  <1> DEFINE o == SetString(p, a, n, cur)
             cut == IF n < VarSize[p] THEN n ELSE VarSize[p] - 1
  <1>1. o.code \in Codes
    BY DEF SetString, Outcome, Codes, Errors
  <1>2. o.value = cur \/ (o.value = cut /\ Kind[p] = "STR")
    BY DEF SetString, Outcome
  <1>3. Kind[p] = "STR" => cut \in Int /\ cut \in 0 .. VarSize[p] - 1
    <2>1. VarSize[p] \in Nat /\ (Kind[p] = "STR" => VarSize[p] > 4)
      BY TablesAre
    <2>2. QED
      BY <2>1
  <1>4. QED
    BY <1>1, <1>2, <1>3 DEF Legal

\* AtomicDatabase has the same tables.
LEMMA SameTables ==
  /\ \A k, p, a, n, cur : Atomic!SetNumber(k, p, a, n, cur) = SetNumber(k, p, a, n, cur)
  /\ \A p, a, n, cur : Atomic!SetString(p, a, n, cur) = SetString(p, a, n, cur)
  /\ \A k, n : Atomic!Wrap(k, n) = Wrap(k, n)
  <1>1. \A k, n : Atomic!Wrap(k, n) = Wrap(k, n)
    BY DEF Atomic!Wrap, Wrap, Atomic!Unsigned, Unsigned, Atomic!Bytes, Bytes, Atomic!IntKinds, IntKinds
  <1>2. \A k, p : Atomic!RangeAs(k, p) = RangeAs(k, p)
    BY <1>1 DEF Atomic!RangeAs, RangeAs
  <1>3. Atomic!Bytes = Bytes
    BY DEF Atomic!Bytes, Bytes, Atomic!IntKinds, IntKinds
  <1>4. \A k, p, a, n, cur : Atomic!SetNumber(k, p, a, n, cur) = SetNumber(k, p, a, n, cur)
    BY <1>1, <1>2, <1>3 DEF Atomic!SetNumber, SetNumber, Atomic!Outcome, Outcome
  <1>5. \A p, a, n, cur : Atomic!SetString(p, a, n, cur) = SetString(p, a, n, cur)
    BY DEF Atomic!SetString, SetString, Atomic!Outcome, Outcome
  <1>6. QED
    BY <1>1, <1>4, <1>5

\* Whatever a call does to its parameter is legal.
LEMMA AccessLegal ==
  ASSUME NEW c, WellFormed(c), c.op \in Atomic!AccessOps, NEW cur \in Int
  PROVE  LET o == Atomic!Access(c, cur)
         IN  o.code \in Codes /\ o.value \in Int /\ (o.value = cur \/ Legal(c.p, o.value))
  <1> DEFINE o == Atomic!Access(c, cur)
  <1>1. CASE c.op = "set"
    <2>1. c.p \in Params /\ c.kind \in Kinds /\ (c.n \in IF c.kind = "STR" THEN Nat ELSE Int)
      BY <1>1 DEF WellFormed
    <2>2. o = IF c.kind = "STR" THEN SetString(c.p, c.access, c.n, cur)
                                ELSE SetNumber(c.kind, c.p, c.access, c.n, cur)
      BY <1>1, SameTables DEF Atomic!Access
    <2>3. CASE c.kind = "STR"
      BY <2>1, <2>2, <2>3, SetStringLegal
    <2>4. CASE c.kind # "STR"
      <3>1. c.kind \in IntKinds
        BY <2>1, <2>4 DEF Kinds
      <3>2. QED
        BY <2>1, <2>2, <2>4, <3>1, SetNumberLegal
    <2>5. QED
      BY <2>3, <2>4
  <1>2. CASE c.op = "get"
    <2>1. o.value = cur
      BY <1>2, GetStoresNothing
    <2>2. o.code \in Codes
      BY <1>2 DEF Atomic!Access, Atomic!GetString, Atomic!GetNumber, Atomic!Outcome, Codes, Errors
    <2>3. QED
      BY <2>1, <2>2
  <1>3. CASE c.op = "shell_set"
    <2>1. c.p \in Params /\ c.len \in Nat /\ c.n \in Int
      BY <1>3 DEF WellFormed
    <2>2. o = IF Kind[c.p] = "STR" THEN SetString(c.p, c.access, c.len, cur)
                                   ELSE SetNumber(Kind[c.p], c.p, c.access, Atomic!Typed(c), cur)
      BY <1>3, SameTables DEF Atomic!Access
    <2>3. CASE Kind[c.p] = "STR"
      BY <2>1, <2>2, <2>3, SetStringLegal
    <2>4. CASE Kind[c.p] # "STR"
      <3>1. Kind[c.p] \in IntKinds
        BY <2>1, <2>4, TablesAre
      <3>2. Atomic!Typed(c) \in Int
        BY <2>1, <3>1, SameTables, WrapTyped DEF Atomic!Typed
      <3>3. QED
        BY <2>1, <2>2, <2>4, <3>1, <3>2, SetNumberLegal
    <2>5. QED
      BY <2>3, <2>4
  <1>4. QED
    BY <1>1, <1>2, <1>3 DEF Atomic!AccessOps

-----------------------------------------------------------------------------
(* The state keeps its types, the list has no group twice.                 *)

\* A thread is in a call from the invocation to the return.
Calling == \A t \in Threads : pc[t] = "idle" <=> call[t] = NoCall

\* What IInv leaves open of the types.
Data ==
  /\ task_list \in Seq(GroupIds)
  /\ var \in [Params -> Int]
  /\ boot \in 0 .. Len(SetupCalls) + 1
  /\ stage \in [Threads -> {"lookup", "access"}]
  /\ call \in [Threads -> Calls \cup {NoCall}]
  /\ code \in [Threads -> Codes \cup {NoCode}]
  /\ todo \in [Threads -> SUBSET Params]

TInv == Data /\ Calling /\ GroupsListedOnce

\* The list without its i-th group.
LEMMA RemoveAtIs ==
  ASSUME NEW s \in Seq(GroupIds), NEW i \in 1 .. Len(s)
  PROVE  /\ Lists!RemoveAt(s, i) \in Seq(GroupIds)
         /\ Len(Lists!RemoveAt(s, i)) = Len(s) - 1
         /\ \A j \in 1 .. Len(s) - 1 : Lists!RemoveAt(s, i)[j] = IF j < i THEN s[j] ELSE s[j + 1]
  <1> DEFINE a == SubSeq(s, 1, i - 1)
             b == SubSeq(s, i + 1, Len(s))
  <1>0. Len(s) \in Nat /\ i \in Int /\ 1 <= i /\ i <= Len(s)
    OBVIOUS
  <1>1. a \in Seq(GroupIds) /\ Len(a) = i - 1 /\ \A j \in 1 .. i - 1 : a[j] = s[j]
    OBVIOUS
  <1>2. b \in Seq(GroupIds) /\ Len(b) = Len(s) - i /\ \A j \in 1 .. Len(s) - i : b[j] = s[i + j]
    OBVIOUS
  <1>3. Lists!RemoveAt(s, i) = a \o b
    BY DEF Lists!RemoveAt
  <1> HIDE DEF a, b
  <1>4. a \o b \in Seq(GroupIds) /\ Len(a \o b) = Len(s) - 1
    <2>1. a \in Seq(GroupIds) /\ b \in Seq(GroupIds)
      BY <1>1, <1>2
    <2>2. a \o b \in Seq(GroupIds)
      BY <2>1
    <2>3. Len(a \o b) = Len(a) + Len(b)
      BY <2>1
    <2>4. QED
      BY <2>2, <2>3, <1>0, <1>1, <1>2
  <1>5. ASSUME NEW j \in 1 .. Len(s) - 1
        PROVE  (a \o b)[j] = IF j < i THEN s[j] ELSE s[j + 1]
    <2>0. j \in Int /\ 1 <= j /\ j <= Len(s) - 1
      BY <1>0
    <2>1. ASSUME j < i PROVE (a \o b)[j] = s[j]
      BY <1>0, <1>1, <1>2, <2>0, <2>1
    <2>2. ASSUME j >= i PROVE (a \o b)[j] = s[j + 1]
      <3>1. (a \o b)[j] = b[j - (i - 1)] /\ j - (i - 1) \in 1 .. Len(s) - i
        BY <1>0, <1>1, <1>2, <2>0, <2>2
      <3>2. b[j - (i - 1)] = s[i + (j - (i - 1))] /\ i + (j - (i - 1)) = j + 1
        BY <1>0, <1>2, <2>0, <3>1
      <3>3. QED
        BY <2>0, <2>2, <1>0, <3>1, <3>2
    <2>3. CASE j < i
      BY <2>1, <2>3
    <2>4. CASE ~(j < i)
      <3>1. j >= i
        BY <1>0, <2>0, <2>4
      <3>2. QED
        BY <2>2, <2>4, <3>1
    <2>5. QED
      BY <2>3, <2>4
  <1>6. QED
    BY <1>3, <1>4, <1>5

\* A thread inside a call is in one of the calls.
LEMMA InCall ==
  ASSUME TInv, NEW t \in Threads, pc[t] # "idle"
  PROVE  call[t] \in Calls /\ WellFormed(call[t])
  <1>1. call[t] \in Calls
    BY DEF TInv, Data, Calling
  <1>2. QED
    BY <1>1, CallForms

\* The types hold before db_init ran (database.c:445).
LEMMA TInit == Init => TInv
  <1>1. Init => Data
    BY SetupIs DEF Init, Data
  <1>2. Init => Calling
    BY DEF Init, Calling
  <1>3. Init => GroupsListedOnce
    BY DEF Init, GroupsListedOnce
  <1>4. QED
    BY <1>1, <1>2, <1>3 DEF TInv

\* db_group_add (database.c:454-469).
LEMMA AddLists ==
  ASSUME IInv, TInv, NEW t \in Threads, GroupAdd(t)
  PROVE  task_list' \in Seq(GroupIds) /\ GroupsListedOnce'
  <1>1. CASE task_list' = task_list
    BY <1>1 DEF TInv, Data, GroupsListedOnce
  <1>2. CASE task_list' # task_list
    <2>1. call[t].op = "add" /\ pc[t] = "critical" /\ call[t].g \notin Listed
            /\ task_list' = Append(task_list, call[t].g)
      BY <1>2 DEF GroupAdd, InCritical
    <2>2. call[t].g \in GroupIds
      BY <2>1, InCall DEF WellFormed
    <2>3. task_list \in Seq(GroupIds) /\ DOMAIN task_list = 1 .. Len(task_list) /\ Len(task_list) \in Nat
      BY DEF TInv, Data
    <2> DEFINE n == Len(task_list)
    <2>4. /\ task_list' \in Seq(GroupIds) /\ DOMAIN task_list' = 1 .. n + 1
          /\ task_list'[n + 1] = call[t].g /\ \A i \in 1 .. n : task_list'[i] = task_list[i]
      BY <2>1, <2>2, <2>3
    <2>5. \A i \in 1 .. n : task_list[i] # call[t].g
      BY <2>1, <2>3 DEF Listed
    <2>6. \A i, j \in 1 .. n : task_list[i] = task_list[j] => i = j
      BY <2>3 DEF TInv, GroupsListedOnce
    <2> HIDE DEF n
    <2>7. ASSUME NEW i \in 1 .. n + 1, NEW j \in 1 .. n + 1, task_list'[i] = task_list'[j] PROVE i = j
      <3>1. n \in Nat /\ (i = n + 1 \/ i \in 1 .. n) /\ (j = n + 1 \/ j \in 1 .. n)
        BY <2>3 DEF n
      <3>2. QED
        BY <3>1, <2>4, <2>5, <2>6, <2>7
    <2>8. QED
      BY <2>4, <2>7 DEF GroupsListedOnce
  <1>3. QED
    BY <1>1, <1>2

\* db_group_remove (database.c:471-489).
LEMMA RemoveLists ==
  ASSUME IInv, TInv, NEW t \in Threads, GroupRemove(t)
  PROVE  task_list' \in Seq(GroupIds) /\ GroupsListedOnce'
  <1>1. CASE task_list' = task_list
    BY <1>1 DEF TInv, Data, GroupsListedOnce
  <1>2. CASE task_list' # task_list
    <2>1. PICK i \in DOMAIN task_list : task_list' = Lists!RemoveAt(task_list, i)
      BY <1>2 DEF GroupRemove
    <2>2. task_list \in Seq(GroupIds) /\ DOMAIN task_list = 1 .. Len(task_list) /\ Len(task_list) \in Nat
      BY DEF TInv, Data
    <2> DEFINE n == Len(task_list)
    <2>3. /\ task_list' \in Seq(GroupIds) /\ Len(task_list') = n - 1
          /\ \A j \in 1 .. n - 1 : task_list'[j] = IF j < i THEN task_list[j] ELSE task_list[j + 1]
      BY <2>1, <2>2, RemoveAtIs
    <2>4. DOMAIN task_list' = 1 .. n - 1
      BY <2>3
    <2>5. \A j, k \in 1 .. n : task_list[j] = task_list[k] => j = k
      BY <2>2 DEF TInv, GroupsListedOnce
    <2>6. n \in Nat /\ i \in 1 .. n
      BY <2>2
    <2> HIDE DEF n
    <2>7. ASSUME NEW j \in 1 .. n - 1, NEW k \in 1 .. n - 1, task_list'[j] = task_list'[k] PROVE j = k
      <3>1. PICK a \in 1 .. n : task_list'[j] = task_list[a] /\ a = (IF j < i THEN j ELSE j + 1)
        BY <2>3, <2>6
      <3>2. PICK b \in 1 .. n : task_list'[k] = task_list[b] /\ b = (IF k < i THEN k ELSE k + 1)
        BY <2>3, <2>6
      <3>3. a = b
        BY <2>5, <2>7, <3>1, <3>2
      <3>4. QED
        BY <2>6, <3>1, <3>2, <3>3
    <2>8. QED
      BY <2>3, <2>4, <2>7 DEF GroupsListedOnce
  <1>3. QED
    BY <1>1, <1>2

\* What a step may do to the calls: start one, end one or neither.
Unbroken ==
  \/ call' = call /\ \A u \in Threads : pc'[u] = "idle" <=> pc[u] = "idle"
  \/ \E t \in Threads, c \in Calls \cup {NoCall} :
       /\ call' = [call EXCEPT ![t] = c]
       /\ pc'[t] = "idle" <=> c = NoCall
       /\ \A u \in Threads \ {t} : pc'[u] = pc[u]

\* The calls of the state stay calls, and only idle threads have none.
LEMMA UnbrokenCalls ==
  ASSUME TInv, Unbroken PROVE call' \in [Threads -> Calls \cup {NoCall}] /\ Calling'
  <1>1. CASE call' = call /\ \A u \in Threads : pc'[u] = "idle" <=> pc[u] = "idle"
    BY <1>1 DEF TInv, Data, Calling
  <1>2. ASSUME NEW t \in Threads, NEW c \in Calls \cup {NoCall},
               call' = [call EXCEPT ![t] = c], pc'[t] = "idle" <=> c = NoCall,
               \A u \in Threads \ {t} : pc'[u] = pc[u]
        PROVE  call' \in [Threads -> Calls \cup {NoCall}] /\ Calling'
    BY <1>2 DEF TInv, Data, Calling
  <1>3. QED
    BY <1>1, <1>2 DEF Unbroken

\* A step that moves one thread inside its call.
LEMMA Moves ==
  ASSUME IInv, NEW t \in Threads, NEW l \in Labels \ {"idle"}, pc[t] # "idle",
         pc' = [pc EXCEPT ![t] = l], call' = call
  PROVE  Unbroken
  BY DEF IInv, Controlled, Unbroken

\* Every step keeps the calls whole.
LEMMA StepUnbroken == ASSUME IInv, TInv, [Next]_vars PROVE Unbroken
  <1>1. CASE UNCHANGED vars
    BY <1>1 DEF vars, Unbroken
  <1>2. CASE DbInit
    BY <1>2 DEF DbInit, Unbroken
  <1>3. ASSUME NEW t \in Threads, NEW c \in Calls, StartCall(t, c) PROVE Unbroken
    <2>1. call' = [call EXCEPT ![t] = c] /\ pc' = [pc EXCEPT ![t] = "lock"] /\ c # NoCall
      BY <1>3, CallForms DEF StartCall, Goto
    <2>2. QED
      BY <2>1 DEF IInv, Controlled, Unbroken
  <1>4. CASE SetupStep
    BY <1>3, <1>4, SetupIs, ThreadAssumption DEF SetupStep
  <1>5. ASSUME NEW t \in Threads, UserCall(t) PROVE Unbroken
    <2>1. PICK c \in CallsOf[t] : StartCall(t, c)
      BY <1>5 DEF UserCall
    <2>2. c \in Calls
      BY DEF Calls
    <2>3. QED
      BY <1>3, <2>1, <2>2
  <1>6. ASSUME NEW t \in Threads, Return(t) PROVE Unbroken
    <2>1. call' = [call EXCEPT ![t] = NoCall] /\ pc' = [pc EXCEPT ![t] = "idle"]
      BY <1>6 DEF Return, Goto
    <2>2. QED
      BY <2>1 DEF IInv, Controlled, Unbroken
  <1>7. ASSUME NEW t \in Threads, LoadDefault(t) \/ ShowParam(t) PROVE Unbroken
    BY <1>7 DEF LoadDefault, ShowParam, Unbroken
  <1>8. ASSUME NEW t \in Threads, Lock(t) \/ LockTimeout(t) PROVE Unbroken
    <2>1. /\ call' = call /\ pc[t] # "idle"
          /\ \E l \in {"critical", "wait", "return"} : pc' = [pc EXCEPT ![t] = l]
      BY <1>8 DEF Lock, LockTimeout, Goto
    <2>2. QED
      BY <2>1, Moves DEF Labels
  <1>9. ASSUME NEW t \in Threads, UnlockNobody(t) PROVE Unbroken
    <2>1. /\ call' = call /\ pc[t] # "idle"
          /\ \E l \in {"found", "return"} : pc' = [pc EXCEPT ![t] = l]
      BY <1>9 DEF UnlockNobody, AfterUnlock, Goto
    <2>2. QED
      BY <2>1, Moves DEF Labels
  <1>10. ASSUME NEW t \in Threads, NEW w \in waitq, UnlockTo(t, w) PROVE Unbroken
    <2>1. call' = call /\ pc[t] # "idle" /\ w \in Threads /\ pc[w] # "idle"
      BY <1>10 DEF UnlockTo, IInv, QueueWaits
    <2>2. PICK l \in {"found", "return"} : pc' = [pc EXCEPT ![t] = l, ![w] = "critical"]
      BY <1>10 DEF UnlockTo, AfterUnlock
    <2>3. QED
      BY <2>1, <2>2 DEF IInv, Controlled, Unbroken
  <1>11. ASSUME NEW t \in Threads,
                GetVarConfig(t) \/ AccessParam(t) \/ GroupAdd(t) \/ GroupRemove(t) \/ EndWalk(t)
         PROVE  Unbroken
    <2>1. call' = call /\ pc[t] # "idle" /\ pc' = [pc EXCEPT ![t] = "unlock"]
      BY <1>11 DEF GetVarConfig, AccessParam, GroupAdd, GroupRemove, EndWalk, InCritical, Finish, Goto
    <2>2. QED
      BY <2>1, Moves DEF Labels
  <1>12. ASSUME NEW t \in Threads, BeginWalk(t) PROVE Unbroken
    <2>1. call' = call /\ pc[t] # "idle" /\ pc' = [pc EXCEPT ![t] = "walk"]
      BY <1>12 DEF BeginWalk, InCritical, Goto
    <2>2. QED
      BY <2>1, Moves DEF Labels
  <1>13. ASSUME NEW t \in Threads, Proceed(t) PROVE Unbroken
    <2>1. /\ call' = call /\ pc[t] # "idle"
          /\ \E l \in {"lock", "return"} : pc' = [pc EXCEPT ![t] = l]
      BY <1>13 DEF Proceed, Goto
    <2>2. QED
      BY <2>1, Moves DEF Labels
  <1>14. QED
    BY <1>1, <1>2, <1>4, <1>5, <1>6, <1>7, <1>8, <1>9, <1>10, <1>11, <1>12, <1>13 DEF Next, Step, Unlock

\* The rest of the data, action by action.
Values ==
  /\ var \in [Params -> Int]
  /\ boot \in 0 .. Len(SetupCalls) + 1
  /\ stage \in [Threads -> {"lookup", "access"}]
  /\ code \in [Threads -> Codes \cup {NoCode}]
  /\ todo \in [Threads -> SUBSET Params]

\* The return codes, one by one.
LEMMA ErrorCodes == Errors \subseteq Codes /\ {"OK", "DB_UPDATED", "EACCES", "EINVAL", "ENOENT", "EEXIST", "ETIMEDOUT"} = Codes
  BY DEF Codes, Errors

\* No step writes a value of another type.
LEMMA StepValues == ASSUME IInv, TInv, [Next]_vars PROVE Values'
  <1> USE DEF Values
  <1>0. Values
    BY DEF TInv, Data
  <1>1. CASE UNCHANGED vars
    BY <1>0, <1>1 DEF vars
  <1>2. CASE DbInit
    <2>1. boot' = 1 /\ UNCHANGED <<var, stage, code, todo>>
      BY <1>2 DEF DbInit
    <2>2. boot' \in 0 .. Len(SetupCalls) + 1
      BY <2>1, SetupIs
    <2>3. QED
      BY <1>0, <2>1, <2>2
  <1>3. ASSUME NEW t \in Threads, NEW c \in Calls, StartCall(t, c), boot' \in 0 .. Len(SetupCalls) + 1 PROVE Values'
    BY <1>0, <1>3 DEF StartCall
  <1>4. CASE SetupStep
    <2>1. boot' \in 0 .. Len(SetupCalls) + 1
      BY <1>4, SetupIs DEF SetupStep
    <2>2. QED
      BY <1>3, <1>4, <2>1, SetupIs, ThreadAssumption DEF SetupStep
  <1>5. ASSUME NEW t \in Threads, UserCall(t) PROVE Values'
    <2>1. PICK c \in CallsOf[t] : StartCall(t, c)
      BY <1>5 DEF UserCall
    <2>2. c \in Calls /\ boot' = boot
      BY <1>5 DEF Calls, UserCall
    <2>3. QED
      BY <1>0, <1>3, <2>1, <2>2
  <1>6. ASSUME NEW t \in Threads, Return(t) PROVE Values'
    BY <1>0, <1>6 DEF Return
  <1>7. ASSUME NEW t \in Threads, LoadDefault(t) PROVE Values'
    <2>1. PICK p \in todo[t] : /\ var' = [var EXCEPT ![p] = LoadedDefault(p)]
                              /\ todo' = [todo EXCEPT ![t] = @ \ {p}]
      BY <1>7 DEF LoadDefault
    <2>2. p \in Params /\ LoadedDefault(p) \in Int
      BY <1>0, LoadedTyped
    <2>3. var' \in [Params -> Int]
      BY <1>0, <2>1, <2>2
    <2>4. todo' \in [Threads -> SUBSET Params]
      BY <1>0, <2>1
    <2>5. UNCHANGED <<boot, stage, code>>
      BY <1>7 DEF LoadDefault
    <2>6. QED
      BY <1>0, <2>3, <2>4, <2>5
  <1>8. ASSUME NEW t \in Threads, ShowParam(t) PROVE Values'
    <2>1. PICK p \in todo[t] : todo' = [todo EXCEPT ![t] = @ \ {p}]
      BY <1>8 DEF ShowParam
    <2>2. UNCHANGED <<var, boot, stage, code>>
      BY <1>8 DEF ShowParam
    <2>3. todo' \in [Threads -> SUBSET Params]
      BY <1>0, <2>1
    <2>4. QED
      BY <1>0, <2>2, <2>3
  <1>9. ASSUME NEW t \in Threads, UNCHANGED <<var, boot, stage, todo>>,
               code' = code \/ \E r \in Codes : code' = [code EXCEPT ![t] = r]
        PROVE  Values'
    BY <1>0, <1>9
  <1>10. ASSUME NEW t \in Threads, Lock(t) \/ Unlock(t) \/ EndWalk(t) PROVE Values'
    <2>1. UNCHANGED <<var, boot, stage, todo, code>>
      BY <1>10 DEF Lock, Unlock, UnlockNobody, UnlockTo, EndWalk
    <2>2. QED
      BY <1>9, <2>1
  <1>11. ASSUME NEW t \in Threads, LockTimeout(t) \/ GetVarConfig(t) \/ GroupAdd(t) \/ GroupRemove(t) PROVE Values'
    <2>1. UNCHANGED <<var, boot, stage, todo>>
      BY <1>11 DEF LockTimeout, GetVarConfig, GroupAdd, GroupRemove
    <2>2. code' = code \/ \E r \in {"ETIMEDOUT", "ENOENT", "OK", "EEXIST"} : code' = [code EXCEPT ![t] = r]
      BY <1>11 DEF LockTimeout, GetVarConfig, GroupAdd, GroupRemove, Finish
    <2>3. QED
      BY <1>9, <2>1, <2>2, ErrorCodes
  <1>12. ASSUME NEW t \in Threads, Proceed(t) PROVE Values'
    <2>1. UNCHANGED <<var, boot, todo>>
      BY <1>12 DEF Proceed
    <2>2. stage' = stage \/ stage' = [stage EXCEPT ![t] = "access"]
      BY <1>12 DEF Proceed
    <2>3. code' = code \/ \E r \in {"EINVAL", "OK"} : code' = [code EXCEPT ![t] = r]
      BY <1>12 DEF Proceed
    <2>4. stage' \in [Threads -> {"lookup", "access"}]
      BY <1>0, <2>2
    <2>5. code' \in [Threads -> Codes \cup {NoCode}]
      BY <1>0, <2>3, ErrorCodes
    <2>6. QED
      BY <1>0, <2>1, <2>4, <2>5
  <1>13. ASSUME NEW t \in Threads, BeginWalk(t) PROVE Values'
    <2>1. UNCHANGED <<var, boot, stage>>
      BY <1>13 DEF BeginWalk
    <2>2. \E r \in {"ENOENT", "OK"} : code' = [code EXCEPT ![t] = r]
      BY <1>13 DEF BeginWalk
    <2>3. \E s \in SUBSET Params : todo' = [todo EXCEPT ![t] = s]
      <3>1. Atomic!ParamsIn(call[t].g, Listed) \subseteq Params
        BY DEF Atomic!ParamsIn
      <3>2. Atomic!Loaded(call[t], Listed) \subseteq Params
        BY DEF Atomic!ParamsIn, Atomic!Loaded
      <3>3. QED
        BY <1>13, <3>1, <3>2 DEF BeginWalk
    <2>4. code' \in [Threads -> Codes \cup {NoCode}]
      BY <1>0, <2>2, ErrorCodes
    <2>5. todo' \in [Threads -> SUBSET Params]
      BY <1>0, <2>3
    <2>6. QED
      BY <1>0, <2>1, <2>4, <2>5
  <1>14. ASSUME NEW t \in Threads, AccessParam(t) PROVE Values'
    <2>1. /\ pc[t] = "critical" /\ call[t].op \in Atomic!AccessOps
          /\ UNCHANGED <<boot, stage, todo>>
      BY <1>14 DEF AccessParam
    <2>2. WellFormed(call[t])
      BY <2>1, InCall
    <2>3. call[t].p \in Params
      BY <2>1, <2>2 DEF WellFormed, Atomic!AccessOps
    <2> DEFINE o == Atomic!Access(call[t], var[call[t].p])
    <2>4. o.code \in Codes /\ o.value \in Int
      BY <1>0, <2>1, <2>2, <2>3, AccessLegal
    <2>5. var' = [var EXCEPT ![call[t].p] = o.value] /\ code' = [code EXCEPT ![t] = o.code]
      BY <1>14 DEF AccessParam, Finish
    <2> HIDE DEF o
    <2>6. QED
      BY <1>0, <2>1, <2>3, <2>4, <2>5
  <1>15. QED
    BY <1>1, <1>2, <1>4, <1>5, <1>6, <1>7, <1>8, <1>10, <1>11, <1>12, <1>13, <1>14 DEF Next, Step

\* The list changes by db_group_add and db_group_remove only.
LEMMA StepLists ==
  ASSUME IInv, TInv, [Next]_vars PROVE task_list' \in Seq(GroupIds) /\ GroupsListedOnce'
  <1>1. CASE task_list' = task_list
    BY <1>1 DEF TInv, Data, GroupsListedOnce
  <1>2. CASE task_list' # task_list
    <2>1. ~UNCHANGED vars /\ ~DbInit /\ ~SetupStep
      BY <1>2 DEF vars, DbInit, SetupStep, StartCall
    <2>2. \A t \in Threads : ~UserCall(t) /\ ~LockTimeout(t)
      BY <1>2 DEF UserCall, StartCall, LockTimeout
    <2>3. PICK t \in Threads : Step(t)
      BY <2>1, <2>2 DEF Next
    <2>4. ~(Lock(t) \/ Unlock(t) \/ Return(t) \/ GetVarConfig(t) \/ Proceed(t) \/ EndWalk(t))
      BY <1>2 DEF Lock, Unlock, UnlockNobody, UnlockTo, Return, GetVarConfig, Proceed, EndWalk
    <2>5. ~(AccessParam(t) \/ LoadDefault(t) \/ BeginWalk(t) \/ ShowParam(t))
      BY <1>2 DEF AccessParam, LoadDefault, BeginWalk, ShowParam
    <2>6. GroupAdd(t) \/ GroupRemove(t)
      BY <2>3, <2>4, <2>5 DEF Step
    <2>7. QED
      BY <2>6, AddLists, RemoveLists
  <1>3. QED
    BY <1>1, <1>2

\* Every step keeps the types and the list.
LEMMA TStep == IInv /\ TInv /\ [Next]_vars => TInv'
  <1> SUFFICES ASSUME IInv, TInv, [Next]_vars PROVE TInv'
    OBVIOUS
  <1>1. Values'
    BY StepValues
  <1>2. call' \in [Threads -> Calls \cup {NoCall}] /\ Calling'
    BY StepUnbroken, UnbrokenCalls
  <1>3. task_list' \in Seq(GroupIds) /\ GroupsListedOnce'
    BY StepLists
  <1>4. QED
    BY <1>1, <1>2, <1>3 DEF TInv, Data, Values

\* The types hold and the list has no group twice, in every state
\* (database.c:454-489).
THEOREM DataInvariance == Spec => []TInv
  BY TInit, TStep, Invariance, PTL DEF Spec

\* No group is in the list twice, whoever adds it and however often
\* (database.c:454-469).
THEOREM ListedOnce == Spec => []GroupsListedOnce
  <1>1. TInv => GroupsListedOnce
    BY DEF TInv
  <1>2. QED
    BY <1>1, DataInvariance, PTL

\* The state keeps its types, and only waiting threads are queued on the
\* binary semaphore.
THEOREM TypeCorrect == Spec => []TypeOK
  <1>1. IInv /\ TInv => TypeOK
    BY DEF TInv, Data, IInv, Controlled, QueueWaits, Labels, TypeOK
  <1>2. QED
    BY <1>1, Invariance, DataInvariance, PTL

\* A write is legal unless a default load made it.
Legally ==
  \A p \in Params : var'[p] # var[p] =>
    \/ Legal(p, var'[p])
    \/ \E t \in Threads : pc[t] = "walk" /\ call[t].op = "load" /\ p \in todo[t]

\* The two steps that write a parameter are the access and the default load.
LEMMA StepLegal == ASSUME TInv, Next PROVE Legally
  <1> SUFFICES ASSUME NEW p \in Params, var'[p] # var[p],
                      ~ \E t \in Threads : pc[t] = "walk" /\ call[t].op = "load" /\ p \in todo[t]
               PROVE  Legal(p, var'[p])
    BY DEF Legally
  <1>1. PICK t \in Threads : LoadDefault(t) \/ AccessParam(t)
    <2>1. ~DbInit /\ ~SetupStep
      BY DEF DbInit, SetupStep, StartCall
    <2>2. \A t \in Threads : ~UserCall(t) /\ ~LockTimeout(t)
      BY DEF UserCall, StartCall, LockTimeout
    <2>3. PICK t \in Threads : Step(t)
      BY <2>1, <2>2 DEF Next
    <2>4. ~(Lock(t) \/ Unlock(t) \/ Return(t) \/ GetVarConfig(t) \/ Proceed(t) \/ EndWalk(t))
      BY DEF Lock, Unlock, UnlockNobody, UnlockTo, Return, GetVarConfig, Proceed, EndWalk
    <2>5. ~(GroupAdd(t) \/ GroupRemove(t) \/ BeginWalk(t) \/ ShowParam(t))
      BY DEF GroupAdd, GroupRemove, BeginWalk, ShowParam
    <2>6. QED
      BY <2>3, <2>4, <2>5 DEF Step
  <1>2. var \in [Params -> Int]
    BY DEF TInv, Data
  <1>3. CASE LoadDefault(t)
    <2>1. PICK q \in todo[t] : var' = [var EXCEPT ![q] = LoadedDefault(q)]
      BY <1>3 DEF LoadDefault
    <2>2. p = q
      BY <1>2, <2>1
    <2>3. QED
      BY <1>3, <2>2 DEF LoadDefault
  <1>4. CASE AccessParam(t)
    <2>1. /\ pc[t] = "critical" /\ call[t].op \in Atomic!AccessOps
          /\ var' = [var EXCEPT ![call[t].p] = Atomic!Access(call[t], var[call[t].p]).value]
      BY <1>4 DEF AccessParam
    <2>2. p = call[t].p /\ var'[p] = Atomic!Access(call[t], var[p]).value
      BY <1>2, <2>1
    <2>3. WellFormed(call[t]) /\ var[p] \in Int
      BY <1>2, <2>1, InCall
    <2>4. \/ Atomic!Access(call[t], var[p]).value = var[p]
          \/ Legal(call[t].p, Atomic!Access(call[t], var[p]).value)
      BY <2>1, <2>3, AccessLegal
    <2>5. QED
      BY <2>2, <2>4
  <1>5. QED
    BY <1>1, <1>3, <1>4

\* A write other than a default load leaves a value of the declared range, by
\* whichever typed setter, access level or shell text (database.c:236-1005).
THEOREM WritesLegal == Spec => WritesAreLegal
  <1>1. TInv /\ [Next]_vars => [Legally]_vars
    BY StepLegal DEF vars
  <1>2. Spec => [][Legally]_vars
    BY <1>1, DataInvariance, PTL DEF Spec
  <1>3. QED
    BY <1>2 DEF WritesAreLegal, Legally

-----------------------------------------------------------------------------
(* The database is atomic.                                                 *)

\* Nothing in the firmware calls db_group_remove.
NoRemove == \A t \in Threads : \A c \in CallsOf[t] : c.op # "remove"

\* What a call may still do: nothing, or the access its look-up allowed.
Refused(c) == c.op = "shell_set" /\ (Atomic!TextRefused(c) \/ Atomic!TextTooLong(c))
Seen(t) == call[t].op \in Atomic!AccessOps /\ Atomic!Found(call[t], Listed)

\* Where a thread is in its call tells whether the call took effect.
Fits(t) ==
  /\ pc[t] \in {"idle", "lock", "wait", "critical", "found"} => code[t] = NoCode /\ out[t] = Atomic!Nothing
  /\ pc[t] \in {"walk", "return"} => code[t] # NoCode
  /\ pc[t] = "unlock" /\ code[t] = NoCode => stage[t] = "lookup" /\ Seen(t) /\ out[t] = Atomic!Nothing
  /\ pc[t] = "found" => stage[t] = "lookup" /\ Seen(t)
  /\ pc[t] \in {"lock", "wait", "critical"} =>
       IF stage[t] = "lookup" THEN call[t].op \in Atomic!AccessOps
       ELSE call[t].op \in Atomic!AccessOps => Seen(t) /\ ~Refused(call[t])
  /\ pc[t] = "walk" => /\ call[t].op \in {"load", "show"}
                       /\ out[t] = [p \in DOMAIN out[t] |-> out[t][p]]

AllFit == \A t \in Threads : Fits(t)
FInv == AllFit /\ out = [t \in Threads |-> out[t]]

\* At the start nobody is in a call.
LEMMA FInit == Init => FInv
  BY DEF Init, FInv, AllFit, Fits

\* Without a removal a call is never one.
LEMMA NeverRemove == ASSUME NoRemove, TInv, NEW t \in Threads PROVE ~GroupRemove(t)
  <1> SUFFICES ASSUME GroupRemove(t) PROVE FALSE
    OBVIOUS
  <1>1. pc[t] = "critical" /\ call[t].op = "remove"
    BY DEF GroupRemove, InCritical
  <1>2. call[t] \in Calls
    BY <1>1, InCall
  <1>3. DOMAIN SetupCalls = 1 .. Len(SetupCalls)
    BY ThreadAssumption DEF SetupCalls
  <1>4. QED
    BY <1>1, <1>2, <1>3, SetupIs DEF NoRemove, Calls

\* What the addition of a group makes of the list.
LEMMA AddedIs ==
  ASSUME TInv, NEW t \in Threads, GroupAdd(t)
  PROVE  Listed' = Listed \cup {call[t].g}
  <1>1. CASE call[t].g \in Listed
    BY <1>1 DEF GroupAdd, Listed
  <1>2. CASE call[t].g \notin Listed
    <2>1. call[t].op = "add" /\ pc[t] = "critical" /\ task_list' = Append(task_list, call[t].g)
      BY <1>2 DEF GroupAdd, InCritical
    <2>2. call[t].g \in GroupIds
      BY <2>1, InCall DEF WellFormed
    <2>3. task_list \in Seq(GroupIds) /\ Len(task_list) \in Nat /\ DOMAIN task_list = 1 .. Len(task_list)
      BY DEF TInv, Data
    <2> DEFINE n == Len(task_list)
    <2>4. /\ DOMAIN task_list' = 1 .. n + 1
          /\ task_list'[n + 1] = call[t].g /\ \A i \in 1 .. n : task_list'[i] = task_list[i]
      BY <2>1, <2>2, <2>3
    <2>5. Listed = {task_list[i] : i \in 1 .. n}
      BY <2>3 DEF Listed
    <2>6. Listed' = {task_list'[i] : i \in 1 .. n + 1}
      BY <2>4 DEF Listed
    <2>7. 1 .. n + 1 = (1 .. n) \cup {n + 1}
      BY <2>3
    <2> HIDE DEF n
    <2>8. QED
      BY <2>4, <2>5, <2>6, <2>7
  <1>3. QED
    BY <1>1, <1>2

\* The list only grows.
LEMMA ListGrows == ASSUME NoRemove, TInv, [Next]_vars PROVE Listed \subseteq Listed'
  <1>1. CASE task_list' = task_list
    BY <1>1 DEF Listed
  <1>2. CASE task_list' # task_list
    <2>1. ~UNCHANGED vars /\ ~DbInit /\ ~SetupStep
      BY <1>2 DEF vars, DbInit, SetupStep, StartCall
    <2>2. \A t \in Threads : ~UserCall(t) /\ ~LockTimeout(t)
      BY <1>2 DEF UserCall, StartCall, LockTimeout
    <2>3. PICK t \in Threads : Step(t)
      BY <2>1, <2>2 DEF Next
    <2>4. ~(Lock(t) \/ Unlock(t) \/ Return(t) \/ GetVarConfig(t) \/ Proceed(t) \/ EndWalk(t))
      BY <1>2 DEF Lock, Unlock, UnlockNobody, UnlockTo, Return, GetVarConfig, Proceed, EndWalk
    <2>5. ~(AccessParam(t) \/ LoadDefault(t) \/ BeginWalk(t) \/ ShowParam(t))
      BY <1>2 DEF AccessParam, LoadDefault, BeginWalk, ShowParam
    <2>6. GroupAdd(t)
      BY <2>3, <2>4, <2>5, NeverRemove DEF Step
    <2>7. QED
      BY <2>6, AddedIs
  <1>3. QED
    BY <1>1, <1>2

\* Nothing of thread u's moves.
Stays(u) ==
  pc'[u] = pc[u] /\ code'[u] = code[u] /\ out'[u] = out[u] /\ stage'[u] = stage[u] /\ call'[u] = call[u]

\* A thread that does not move keeps its look-up: its group stays listed.
LEMMA StaysFit ==
  ASSUME NEW u, Fits(u), Stays(u), Listed \subseteq Listed' PROVE Fits(u)'
  <1>1. Atomic!Found(call[u], Listed) => Atomic!Found(call[u], Listed')
    BY DEF Atomic!Found
  <1>2. Seen(u) => Seen(u)'
    BY <1>1 DEF Seen, Stays, Atomic!Found
  <1>3. QED
    BY <1>2 DEF Fits, Stays, Refused

\* One thread moves.
LEMMA OneFits ==
  ASSUME FInv, NEW t \in Threads, \A u \in Threads \ {t} : Stays(u), Listed \subseteq Listed', Fits(t)',
         out' = [u \in Threads |-> out'[u]]
  PROVE  FInv'
  <1>1. ASSUME NEW u \in Threads PROVE Fits(u)'
    BY StaysFit DEF FInv, AllFit
  <1>2. QED
    BY <1>1 DEF FInv, AllFit

\* The functions of the state, for the steps below.
LEMMA Functions ==
  ASSUME IInv, TInv, FInv
  PROVE  /\ pc \in [Threads -> Labels] /\ stage \in [Threads -> {"lookup", "access"}]
         /\ call \in [Threads -> Calls \cup {NoCall}] /\ code \in [Threads -> Codes \cup {NoCode}]
         /\ out = [t \in Threads |-> out[t]] /\ todo \in [Threads -> SUBSET Params]
         /\ var \in [Params -> Int]
  BY DEF IInv, Controlled, TInv, Data, FInv

\* A return code closes the call.
LEMMA CodesOpen == NoCode \notin Codes /\ \A c \in Errors \cup {"OK", "DB_UPDATED"} : c # NoCode
  BY ThreadAssumption, ErrorCodes DEF Errors

\* The accesses.
LEMMA Ops == Atomic!AccessOps = {"set", "get", "shell_set"}
  BY DEF Atomic!AccessOps

\* A call begins with its look-up, or with its critical section if it has none.
LEMMA StartFits ==
  ASSUME NoRemove, IInv, TInv, FInv, [Next]_vars, NEW t \in Threads, NEW c, StartCall(t, c) PROVE FInv'
  <1>1. /\ pc[t] = "idle" /\ pc' = [pc EXCEPT ![t] = "lock"] /\ call' = [call EXCEPT ![t] = c]
        /\ stage' = [stage EXCEPT ![t] = IF c.op \in Atomic!AccessOps THEN "lookup" ELSE "access"]
        /\ code' = code /\ out' = out
    BY DEF StartCall, Goto
  <1>2. \A u \in Threads \ {t} : Stays(u)
    BY <1>1, Functions DEF Stays
  <1>3. /\ pc'[t] = "lock" /\ code'[t] = NoCode /\ out'[t] = Atomic!Nothing /\ call'[t] = c
        /\ stage'[t] = IF c.op \in Atomic!AccessOps THEN "lookup" ELSE "access"
    BY <1>1, Functions DEF FInv, AllFit, Fits
  <1>4. Fits(t)'
    BY <1>3 DEF Fits
  <1>5. QED
    BY <1>1, <1>2, <1>4, ListGrows, OneFits DEF FInv

\* db_lock (database.c:86-105).
LEMMA LockFits ==
  ASSUME NoRemove, IInv, TInv, FInv, [Next]_vars, NEW t \in Threads, Lock(t) PROVE FInv'
  <1>1. /\ pc[t] = "lock" /\ \E l \in {"critical", "wait"} : pc' = [pc EXCEPT ![t] = l]
        /\ call' = call /\ stage' = stage /\ code' = code /\ out' = out /\ task_list' = task_list
    BY DEF Lock, Goto
  <1>2. \A u \in Threads \ {t} : Stays(u)
    BY <1>1, Functions DEF Stays
  <1>3. pc'[t] \in {"critical", "wait"} /\ Listed' = Listed
    BY <1>1, Functions DEF Listed
  <1>4. Seen(t)' <=> Seen(t)
    BY <1>1, <1>3 DEF Seen
  <1>5. Fits(t)'
    BY <1>1, <1>3, <1>4 DEF Fits, FInv, AllFit
  <1>6. QED
    BY <1>1, <1>2, <1>5, ListGrows, OneFits DEF FInv

\* A thread that gives up has its answer.
LEMMA TimeoutFits ==
  ASSUME NoRemove, IInv, TInv, FInv, [Next]_vars, NEW t \in Threads, LockTimeout(t) PROVE FInv'
  <1>1. /\ pc[t] = "wait" /\ pc' = [pc EXCEPT ![t] = "return"]
        /\ call' = call /\ stage' = stage /\ code' = [code EXCEPT ![t] = "ETIMEDOUT"] /\ out' = out
    BY DEF LockTimeout, Goto
  <1>2. \A u \in Threads \ {t} : Stays(u)
    BY <1>1, Functions DEF Stays
  <1>3. pc'[t] = "return" /\ code'[t] # NoCode
    BY <1>1, Functions, CodesOpen DEF Errors
  <1>4. Fits(t)'
    BY <1>3 DEF Fits
  <1>5. QED
    BY <1>1, <1>2, <1>4, ListGrows, OneFits DEF FInv

\* db_unlock (database.c:107-114): a look-up that found goes on, any other call returns.
LEMMA UnlockFits ==
  ASSUME NoRemove, IInv, TInv, FInv, [Next]_vars, NEW t \in Threads, Unlock(t) PROVE FInv'
  <1>1. /\ pc[t] = "unlock" /\ call' = call /\ stage' = stage /\ code' = code /\ out' = out
        /\ task_list' = task_list
    BY DEF Unlock, UnlockNobody, UnlockTo
  <1>2. Listed' = Listed
    BY <1>1 DEF Listed
  <1>3. pc'[t] = AfterUnlock(t) /\ \A u \in Threads \ {t} : pc'[u] = pc[u] \/ (pc[u] = "wait" /\ pc'[u] = "critical")
    <2>1. CASE UnlockNobody(t)
      BY <2>1, Functions DEF UnlockNobody, Goto
    <2>2. ASSUME NEW w \in waitq, UnlockTo(t, w)
          PROVE  pc'[t] = AfterUnlock(t) /\ \A u \in Threads \ {t} : pc'[u] = pc[u] \/ (pc[u] = "wait" /\ pc'[u] = "critical")
      <3>1. w \in Threads /\ pc[w] = "wait" /\ w # t
        BY <1>1 DEF IInv, QueueWaits
      <3>2. pc' = [pc EXCEPT ![t] = AfterUnlock(t), ![w] = "critical"]
        BY <2>2 DEF UnlockTo
      <3>3. QED
        BY <3>1, <3>2, Functions
    <2>3. QED
      BY <2>1, <2>2 DEF Unlock
  <1>4. \A u \in Threads : Seen(u)' <=> Seen(u)
    BY <1>1, <1>2 DEF Seen
  <1>5. ASSUME NEW u \in Threads \ {t} PROVE Fits(u)'
    BY <1>1, <1>3, <1>4 DEF Fits, FInv, AllFit
  <1>6. Fits(t)'
    BY <1>1, <1>3, <1>4 DEF Fits, FInv, AllFit, AfterUnlock
  <1>7. QED
    BY <1>1, <1>5, <1>6 DEF FInv, AllFit

\* The return forgets the answer.
LEMMA ReturnFits ==
  ASSUME NoRemove, IInv, TInv, FInv, [Next]_vars, NEW t \in Threads, Return(t) PROVE FInv'
  <1>1. /\ pc[t] = "return" /\ pc' = [pc EXCEPT ![t] = "idle"]
        /\ call' = [call EXCEPT ![t] = NoCall] /\ stage' = [stage EXCEPT ![t] = "access"]
        /\ code' = [code EXCEPT ![t] = NoCode] /\ out' = [out EXCEPT ![t] = Atomic!Nothing]
    BY DEF Return, Goto
  <1>2. \A u \in Threads \ {t} : Stays(u)
    BY <1>1, Functions DEF Stays
  <1>3. pc'[t] = "idle" /\ code'[t] = NoCode /\ out'[t] = Atomic!Nothing /\ out' = [u \in Threads |-> out'[u]]
    BY <1>1, Functions
  <1>4. Fits(t)'
    BY <1>3 DEF Fits
  <1>5. QED
    BY <1>2, <1>3, <1>4, ListGrows, OneFits

\* db_get_var_config (database.c:540-564).
LEMMA LookUpFits ==
  ASSUME NoRemove, IInv, TInv, FInv, [Next]_vars, NEW t \in Threads, GetVarConfig(t) PROVE FInv'
  <1>1. /\ pc[t] = "critical" /\ stage[t] = "lookup" /\ pc' = [pc EXCEPT ![t] = "unlock"]
        /\ call' = call /\ stage' = stage /\ out' = out /\ task_list' = task_list
        /\ IF Atomic!Found(call[t], Listed) THEN code' = code ELSE code' = [code EXCEPT ![t] = "ENOENT"]
    BY DEF GetVarConfig, Finish, Goto
  <1>2. \A u \in Threads \ {t} : Stays(u)
    BY <1>1, Functions DEF Stays
  <1>3. pc'[t] = "unlock" /\ Listed' = Listed
    BY <1>1, Functions DEF Listed
  <1>4. out[t] = Atomic!Nothing /\ call[t].op \in Atomic!AccessOps
    BY <1>1 DEF FInv, AllFit, Fits
  <1>5. code'[t] = NoCode => Seen(t)'
    BY <1>1, <1>3, <1>4, Functions, CodesOpen DEF Seen, Errors
  <1>6. Fits(t)'
    BY <1>1, <1>3, <1>4, <1>5 DEF Fits
  <1>7. QED
    BY <1>1, <1>2, <1>6, ListGrows, OneFits DEF FInv

\* Between the sections the shell may still refuse its text.
LEMMA ProceedFits ==
  ASSUME NoRemove, IInv, TInv, FInv, [Next]_vars, NEW t \in Threads, Proceed(t) PROVE FInv'
  <1>1. pc[t] = "found" /\ call' = call /\ out' = out /\ task_list' = task_list
    BY DEF Proceed
  <1>2. Listed' = Listed
    BY <1>1 DEF Listed
  <1>3. stage[t] = "lookup" /\ Seen(t) /\ code[t] = NoCode /\ out[t] = Atomic!Nothing
    BY <1>1 DEF FInv, AllFit, Fits
  <1>4. Seen(t)'
    BY <1>1, <1>2, <1>3 DEF Seen
  <1>5. CASE Refused(call[t])
    <2>1. /\ pc' = [pc EXCEPT ![t] = "return"] /\ stage' = stage
          /\ \E r \in {"EINVAL", "OK"} : code' = [code EXCEPT ![t] = r]
      BY <1>5 DEF Proceed, Goto, Refused
    <2>2. pc'[t] = "return" /\ code'[t] # NoCode
      BY <2>1, Functions, CodesOpen DEF Errors
    <2>3. Fits(t)'
      BY <2>2 DEF Fits
    <2>4. \A u \in Threads \ {t} : Stays(u)
      BY <1>1, <2>1, Functions DEF Stays
    <2>5. QED
      BY <1>1, <2>3, <2>4, ListGrows, OneFits DEF FInv
  <1>6. CASE ~Refused(call[t])
    <2>1. pc' = [pc EXCEPT ![t] = "lock"] /\ stage' = [stage EXCEPT ![t] = "access"] /\ code' = code
      BY <1>6 DEF Proceed, Goto, Refused
    <2>2. pc'[t] = "lock" /\ stage'[t] = "access"
      BY <2>1, Functions
    <2>3. Fits(t)'
      BY <1>1, <1>3, <1>4, <1>6, <2>1, <2>2 DEF Fits
    <2>4. \A u \in Threads \ {t} : Stays(u)
      BY <1>1, <2>1, Functions DEF Stays
    <2>5. QED
      BY <1>1, <2>3, <2>4, ListGrows, OneFits DEF FInv
  <1>7. QED
    BY <1>5, <1>6

\* The end of a critical section that took effect.
LEMMA FinishFits ==
  ASSUME NoRemove, IInv, TInv, FInv, [Next]_vars, NEW t \in Threads, NEW r \in Codes,
         pc' = [pc EXCEPT ![t] = "unlock"], code' = [code EXCEPT ![t] = r],
         stage' = stage, call' = call, out' = out \/ \E f : out' = [out EXCEPT ![t] = f]
  PROVE  FInv'
  <1>1. pc'[t] = "unlock" /\ code'[t] # NoCode
    BY Functions, CodesOpen
  <1>2. Fits(t)'
    BY <1>1 DEF Fits
  <1>3. \A u \in Threads \ {t} : Stays(u)
    BY Functions DEF Stays
  <1>4. out' = [u \in Threads |-> out'[u]]
    BY Functions
  <1>5. QED
    BY <1>2, <1>3, <1>4, ListGrows, OneFits

\* db_group_add ends with a code (database.c:454-469).
LEMMA AddFits ==
  ASSUME NoRemove, IInv, TInv, FInv, [Next]_vars, NEW t \in Threads, GroupAdd(t) PROVE FInv'
  <1>1. /\ pc' = [pc EXCEPT ![t] = "unlock"] /\ stage' = stage /\ call' = call /\ out' = out
        /\ \E r \in {"OK", "EEXIST"} : code' = [code EXCEPT ![t] = r]
    BY DEF GroupAdd, Finish, Goto
  <1>2. QED
    BY <1>1, FinishFits, ErrorCodes

\* The setters and getters end with a code.
LEMMA AccessFits ==
  ASSUME NoRemove, IInv, TInv, FInv, [Next]_vars, NEW t \in Threads, AccessParam(t) PROVE FInv'
  <1> DEFINE o == Atomic!Access(call[t], var[call[t].p])
  <1>1. /\ pc[t] = "critical" /\ call[t].op \in Atomic!AccessOps
        /\ pc' = [pc EXCEPT ![t] = "unlock"] /\ stage' = stage /\ call' = call
        /\ code' = [code EXCEPT ![t] = o.code] /\ \E f : out' = [out EXCEPT ![t] = f]
    BY DEF AccessParam, Finish, Goto
  <1>2. WellFormed(call[t])
    BY <1>1, InCall
  <1>3. call[t].p \in Params
    BY <1>1, <1>2, Ops DEF WellFormed
  <1>4. o.code \in Codes
    BY <1>1, <1>2, <1>3, AccessLegal, Functions
  <1> HIDE DEF o
  <1>5. QED
    BY <1>1, <1>4, FinishFits

\* A walk begins with an empty answer.
LEMMA BeginFits ==
  ASSUME NoRemove, IInv, TInv, FInv, [Next]_vars, NEW t \in Threads, BeginWalk(t) PROVE FInv'
  <1>1. /\ pc[t] = "critical" /\ call[t].op \in {"load", "show"} /\ pc' = [pc EXCEPT ![t] = "walk"]
        /\ \E r \in {"ENOENT", "OK"} : code' = [code EXCEPT ![t] = r]
        /\ stage' = stage /\ call' = call /\ out' = out
    BY DEF BeginWalk, InCritical, Goto
  <1>2. \A u \in Threads \ {t} : Stays(u)
    BY <1>1, Functions DEF Stays
  <1>3. pc'[t] = "walk" /\ code'[t] # NoCode
    BY <1>1, Functions, CodesOpen DEF Errors
  <1>4. out'[t] = Atomic!Nothing
    BY <1>1 DEF FInv, AllFit, Fits
  <1>5. out'[t] = [p \in DOMAIN out'[t] |-> out'[t][p]]
    BY <1>4 DEF Atomic!Nothing
  <1>6. Fits(t)'
    BY <1>1, <1>3, <1>5 DEF Fits
  <1>7. QED
    BY <1>1, <1>2, <1>6, ListGrows, OneFits DEF FInv

\* A step of a walk extends the answer.
LEMMA WalkFits ==
  ASSUME NoRemove, IInv, TInv, FInv, [Next]_vars, NEW t \in Threads, LoadDefault(t) \/ ShowParam(t) PROVE FInv'
  <1>1. /\ pc[t] = "walk" /\ pc' = pc /\ code' = code /\ stage' = stage /\ call' = call
        /\ out' = out \/ \E D, e : out' = [out EXCEPT ![t] = [q \in D |-> e[q]]]
    <2>1. CASE LoadDefault(t)
      BY <2>1 DEF LoadDefault
    <2>2. CASE ShowParam(t)
      <3>1. PICK p : out' = [out EXCEPT ![t] = [q \in DOMAIN @ \cup {p} |-> IF q = p THEN var[p] ELSE @[q]]]
        BY <2>2 DEF ShowParam
      <3> DEFINE D == DOMAIN out[t] \cup {p}
                 e == [q \in D |-> IF q = p THEN var[p] ELSE out[t][q]]
      <3>2. out' = [out EXCEPT ![t] = [q \in D |-> e[q]]]
        BY <3>1, Functions
      <3> HIDE DEF D, e
      <3>3. /\ pc[t] = "walk" /\ pc' = pc /\ code' = code /\ stage' = stage /\ call' = call
        BY <2>2 DEF ShowParam
      <3>4. QED
        BY <3>2, <3>3, Zenon
    <2>3. QED
      BY <2>1, <2>2
  <1>2. \A u \in Threads \ {t} : Stays(u)
    BY <1>1, Functions DEF Stays
  <1>3. out' = [u \in Threads |-> out'[u]]
    BY <1>1, Functions
  <1>4. out'[t] = [p \in DOMAIN out'[t] |-> out'[t][p]]
    BY <1>1, Functions DEF FInv, AllFit, Fits
  <1>5. Fits(t)'
    BY <1>1, <1>4 DEF Fits, FInv, AllFit
  <1>6. QED
    BY <1>2, <1>3, <1>5, ListGrows, OneFits

\* The end of a walk keeps its code.
LEMMA EndFits ==
  ASSUME NoRemove, IInv, TInv, FInv, [Next]_vars, NEW t \in Threads, EndWalk(t) PROVE FInv'
  <1>1. /\ pc[t] = "walk" /\ pc' = [pc EXCEPT ![t] = "unlock"]
        /\ code' = code /\ stage' = stage /\ call' = call /\ out' = out
    BY DEF EndWalk, Goto
  <1>2. code[t] \in Codes
    BY <1>1, Functions DEF FInv, AllFit, Fits
  <1>3. code' = [code EXCEPT ![t] = code[t]]
    BY <1>1, Functions
  <1>4. QED
    BY <1>1, <1>2, <1>3, FinishFits

\* Every step keeps every thread in one of these places.
LEMMA FStep == ASSUME NoRemove PROVE IInv /\ TInv /\ FInv /\ [Next]_vars => FInv'
  <1> SUFFICES ASSUME IInv, TInv, FInv, [Next]_vars PROVE FInv'
    OBVIOUS
  <1>1. ASSUME \A u \in Threads : Stays(u), out' = out PROVE FInv'
    BY <1>1, ListGrows, StaysFit DEF FInv, AllFit
  <1>2. CASE UNCHANGED vars
    BY <1>1, <1>2 DEF vars, Stays
  <1>3. CASE DbInit
    BY <1>1, <1>3 DEF DbInit, Stays
  <1>4. CASE SetupStep
    BY <1>4, StartFits, ThreadAssumption DEF SetupStep
  <1>5. ASSUME NEW t \in Threads, UserCall(t) PROVE FInv'
    BY <1>5, StartFits DEF UserCall
  <1>6. ASSUME NEW t \in Threads, LockTimeout(t) PROVE FInv'
    BY <1>6, TimeoutFits
  <1>7. ASSUME NEW t \in Threads, Step(t) PROVE FInv'
    BY <1>7, LockFits, UnlockFits, ReturnFits, LookUpFits, ProceedFits, AccessFits, AddFits, NeverRemove,
       BeginFits, WalkFits, EndFits DEF Step
  <1>8. QED
    BY <1>2, <1>3, <1>4, <1>5, <1>6, <1>7 DEF Next

\* Where a thread is in its call tells, in every state, whether it took effect.
LEMMA FitInvariance == ASSUME NoRemove PROVE Spec => []FInv
  BY FInit, FStep, Invariance, DataInvariance, PTL DEF Spec

\* The values and answers the atomic database shows: a walk that began is done.
AVar == [p \in Params |->
           IF \E t \in Threads : pc[t] = "walk" /\ call[t].op = "load" /\ p \in todo[t]
             THEN LoadedDefault(p) ELSE var[p]]
AOut == [t \in Threads |->
           IF pc[t] = "walk" /\ call[t].op = "show"
             THEN [p \in DOMAIN out[t] \cup todo[t] |-> IF p \in todo[t] THEN var[p] ELSE out[t][p]]
             ELSE out[t]]

AnAnswer(t, r, f) ==
  code' = [code EXCEPT ![t] = r] /\ AOut' = [AOut EXCEPT ![t] = f] /\ call' = call

\* The actions of AtomicDatabase over these.
LEMMA AtomicInit ==
  ASSUME Listed = {}, AVar = [p \in Params |-> 0], call = [t \in Threads |-> NoCall],
         code = [t \in Threads |-> NoCode], AOut = [t \in Threads |-> Atomic!Nothing]
  PROVE  Atomic!Init
  BY DEF Atomic!Init, AVar, AOut

\* Nothing a caller sees changes.
LEMMA AtomicStutters ==
  ASSUME Listed' = Listed, AVar' = AVar, call' = call, code' = code, AOut' = AOut
  PROVE  UNCHANGED Atomic!avars
  BY DEF Atomic!avars, AVar, AOut

\* A call begins.
LEMMA AtomicInvokes ==
  ASSUME NEW t \in Threads, NEW c \in Calls, call[t] = NoCall, call' = [call EXCEPT ![t] = c],
         Listed' = Listed, AVar' = AVar, code' = code, AOut' = AOut
  PROVE  Atomic!Next
  <1>1. Atomic!Invoke(t)
    BY DEF Atomic!Invoke, AVar, AOut
  <1>2. QED
    BY <1>1 DEF Atomic!Next

\* A call gives up on the semaphore.
LEMMA AtomicGivesUp ==
  ASSUME NEW t \in Threads, call[t] # NoCall, code[t] = NoCode,
         AnAnswer(t, "ETIMEDOUT", Atomic!Nothing), Listed' = Listed, AVar' = AVar
  PROVE  Atomic!Next
  <1>1. Atomic!GiveUp(t)
    BY DEF Atomic!GiveUp, Atomic!Answer, AnAnswer, AVar, AOut
  <1>2. QED
    BY <1>1 DEF Atomic!Next

\* A call returns.
LEMMA AtomicReturns ==
  ASSUME NEW t \in Threads, code[t] # NoCode, call' = [call EXCEPT ![t] = NoCall],
         code' = [code EXCEPT ![t] = NoCode], AOut' = [AOut EXCEPT ![t] = Atomic!Nothing],
         Listed' = Listed, AVar' = AVar
  PROVE  Atomic!Next
  <1>1. Atomic!Return(t)
    BY DEF Atomic!Return, AVar, AOut
  <1>2. QED
    BY <1>1 DEF Atomic!Next

\* The thread is in a call that did not take effect yet.
Open(t) == call[t] \in Calls /\ code[t] = NoCode

\* An open call is pending.
LEMMA AtomicPending == ASSUME NEW t, Open(t) PROVE Atomic!Pending(t, call[t])
  BY CallForms DEF Open, Atomic!Pending

\* A group is added at one instant.
LEMMA AtomicAdds ==
  ASSUME NEW t \in Threads, Open(t), call[t].op = "add",
         AnAnswer(t, IF call[t].g \in Listed THEN "EEXIST" ELSE "OK", Atomic!Nothing),
         Listed' = Listed \cup {call[t].g}, AVar' = AVar
  PROVE  Atomic!Next
  <1>1. Atomic!Pending(t, call[t]) /\ call[t] \in Calls
    BY AtomicPending DEF Open
  <1>2. Atomic!CommitAdd(t)
    BY <1>1 DEF Atomic!CommitAdd, Atomic!Answer, AnAnswer, AVar, AOut
  <1>3. QED
    BY <1>2 DEF Atomic!Next

\* A set or a get happens at one instant, or is refused at one.
LEMMA AtomicAccesses ==
  ASSUME NEW t \in Threads, Open(t), call[t].op \in Atomic!AccessOps, Listed' = Listed,
         LET c == call[t]
             o == Atomic!Access(c, AVar[c.p])
         IN  \/ ~Atomic!Found(c, Listed) /\ AnAnswer(t, "ENOENT", Atomic!Nothing) /\ AVar' = AVar
             \/ /\ c.op = "shell_set" /\ Atomic!TextRefused(c) /\ Atomic!Found(c, Listed)
                /\ AnAnswer(t, "EINVAL", Atomic!Nothing) /\ AVar' = AVar
             \/ /\ c.op = "shell_set" /\ ~Atomic!TextRefused(c) /\ Atomic!TextTooLong(c) /\ Atomic!Found(c, Listed)
                /\ AnAnswer(t, "OK", Atomic!Nothing) /\ AVar' = AVar
             \/ /\ ~Refused(c) /\ Atomic!Found(c, Listed)
                /\ AnAnswer(t, o.code, [p \in {c.p} |-> o.out]) /\ AVar' = [AVar EXCEPT ![c.p] = o.value]
  PROVE  Atomic!Next
  <1>1. Atomic!Pending(t, call[t]) /\ call[t] \in Calls
    BY AtomicPending DEF Open
  <1>2. Atomic!CommitAccess(t)
    <2>1. CASE ~Atomic!Found(call[t], Listed) /\ AnAnswer(t, "ENOENT", Atomic!Nothing) /\ AVar' = AVar
      BY <1>1, <2>1 DEF Atomic!CommitAccess, Atomic!Answer, AnAnswer, AVar, AOut
    <2>2. CASE /\ call[t].op = "shell_set" /\ Atomic!TextRefused(call[t]) /\ Atomic!Found(call[t], Listed)
               /\ AnAnswer(t, "EINVAL", Atomic!Nothing) /\ AVar' = AVar
      BY <1>1, <2>2 DEF Atomic!CommitAccess, Atomic!Answer, AnAnswer, AVar, AOut
    <2>3. CASE /\ call[t].op = "shell_set" /\ ~Atomic!TextRefused(call[t]) /\ Atomic!TextTooLong(call[t])
               /\ Atomic!Found(call[t], Listed) /\ AnAnswer(t, "OK", Atomic!Nothing) /\ AVar' = AVar
      BY <1>1, <2>3 DEF Atomic!CommitAccess, Atomic!Answer, AnAnswer, AVar, AOut
    <2>4. CASE LET c == call[t]
                   o == Atomic!Access(c, AVar[c.p])
               IN  /\ ~Refused(c) /\ Atomic!Found(c, Listed)
                   /\ AnAnswer(t, o.code, [p \in {c.p} |-> o.out]) /\ AVar' = [AVar EXCEPT ![c.p] = o.value]
      BY <1>1, <2>4 DEF Atomic!CommitAccess, Atomic!Answer, AnAnswer, AVar, AOut, Refused
    <2>5. QED
      BY <2>1, <2>2, <2>3, <2>4
  <1>3. QED
    BY <1>2 DEF Atomic!Next

\* AtomicDatabase loads the same bytes.
LEMMA SameDefaults == \A p \in Params : Atomic!LoadedDefault(p) = LoadedDefault(p)
  BY DEF Atomic!LoadedDefault, LoadedDefault, Atomic!StandarOffset, StandarOffset, Atomic!PointerSize, PointerSize

ScanCode(t) == IF Atomic!Selected(call[t].g, Listed) = {} THEN "ENOENT" ELSE "OK"

\* A default load happens at one instant.
LEMMA AtomicLoads ==
  ASSUME NEW t \in Threads, Open(t), call[t].op = "load", Listed' = Listed,
         AnAnswer(t, ScanCode(t), Atomic!Nothing),
         AVar' = [p \in Params |-> IF p \in Atomic!Loaded(call[t], Listed) THEN LoadedDefault(p) ELSE AVar[p]]
  PROVE  Atomic!Next
  <1>1. Atomic!Pending(t, call[t]) /\ call[t] \in Calls
    BY AtomicPending DEF Open
  <1>2. AVar' = [p \in Params |-> IF p \in Atomic!Loaded(call[t], Listed) THEN Atomic!LoadedDefault(p) ELSE AVar[p]]
    BY SameDefaults
  <1>3. Atomic!CommitLoad(t)
    BY <1>1, <1>2 DEF Atomic!CommitLoad, Atomic!Answer, Atomic!ScanCode, ScanCode, AnAnswer, AVar, AOut
  <1>4. QED
    BY <1>3 DEF Atomic!Next

\* A show happens at one instant.
LEMMA AtomicShows ==
  ASSUME NEW t \in Threads, Open(t), call[t].op = "show", Listed' = Listed,
         AnAnswer(t, ScanCode(t), [p \in Atomic!ParamsIn(call[t].g, Listed) |-> AVar[p]]), AVar' = AVar
  PROVE  Atomic!Next
  <1>1. Atomic!Pending(t, call[t]) /\ call[t] \in Calls
    BY AtomicPending DEF Open
  <1>2. Atomic!CommitShow(t)
    BY <1>1 DEF Atomic!CommitShow, Atomic!Answer, Atomic!ScanCode, ScanCode, AnAnswer, AVar, AOut
  <1>3. QED
    BY <1>2 DEF Atomic!Next

Quiet == \A u \in Threads : pc[u] # "walk"

\* A thread in a critical section that is no walk is the only one in any.
LEMMA AloneIsQuiet ==
  ASSUME IInv, NEW t \in Threads, pc[t] \in {"critical", "unlock"} PROVE Quiet
  BY DEF IInv, MutualExclusion, InSection, Quiet

\* The atomic database is the one of the code.
Plain == AVar = var /\ AOut = out

\* While nobody walks it is.
LEMMA QuietIsPlain == Quiet /\ TInv /\ FInv => Plain
  <1> SUFFICES ASSUME Quiet, TInv, FInv PROVE AVar = var /\ AOut = out
    BY DEF Plain
  <1>1. AVar = [p \in Params |-> var[p]]
    BY DEF AVar, Quiet
  <1>2. AOut = [t \in Threads |-> out[t]]
    BY DEF AOut, Quiet
  <1>3. QED
    BY <1>1, <1>2 DEF TInv, Data, FInv

\* The same after the step.
LEMMA QuietIsPlainNext == Quiet' /\ TInv' /\ FInv' => Plain'
  BY QuietIsPlain, PTL

\* A step of a thread outside the walks leaves the walks of others alone.
LEMMA Outside ==
  ASSUME IInv, TInv, FInv, NEW t \in Threads, pc[t] # "walk", pc'[t] # "walk",
         \A u \in Threads \ {t} : pc'[u] = pc[u] /\ call'[u] = call[u] /\ out'[u] = out[u],
         todo' = todo, var' = var
  PROVE  AVar' = AVar /\ AOut' = [AOut EXCEPT ![t] = out'[t]]
  <1>1. \A u \in Threads, p \in Params :
          (pc'[u] = "walk" /\ call'[u].op = "load" /\ p \in todo'[u])
            <=> (pc[u] = "walk" /\ call[u].op = "load" /\ p \in todo[u])
    OBVIOUS
  <1>2. AVar' = AVar
    BY <1>1 DEF AVar
  <1>3. ASSUME NEW u \in Threads
        PROVE  (IF pc'[u] = "walk" /\ call'[u].op = "show"
                  THEN [p \in DOMAIN out'[u] \cup todo'[u] |-> IF p \in todo'[u] THEN var'[p] ELSE out'[u][p]]
                  ELSE out'[u])
               = IF u = t THEN out'[t] ELSE AOut[u]
    <2>1. CASE u = t
      BY <2>1
    <2>2. CASE u # t
      <3>1. pc'[u] = pc[u] /\ call'[u] = call[u] /\ out'[u] = out[u]
        BY <2>2
      <3>2. AOut[u] = IF pc[u] = "walk" /\ call[u].op = "show"
                        THEN [p \in DOMAIN out[u] \cup todo[u] |-> IF p \in todo[u] THEN var[p] ELSE out[u][p]]
                        ELSE out[u]
        BY DEF AOut
      <3>3. QED
        BY <2>2, <3>1, <3>2
    <2>3. QED
      BY <2>1, <2>2
  <1>4. AOut' = [u \in Threads |-> IF u = t THEN out'[t] ELSE AOut[u]]
    BY <1>3 DEF AOut
  <1>5. QED
    BY <1>2, <1>4 DEF AOut

\* The same when the thread keeps its answer.
LEMMA OutsideKeeps ==
  ASSUME IInv, TInv, FInv, NEW t \in Threads, pc[t] # "walk", pc'[t] # "walk",
         \A u \in Threads \ {t} : pc'[u] = pc[u] /\ call'[u] = call[u],
         out' = out, todo' = todo, var' = var
  PROVE  AVar' = AVar /\ AOut' = AOut
  <1>1. AVar' = AVar /\ AOut' = [AOut EXCEPT ![t] = out'[t]]
    BY Outside
  <1>2. out'[t] = AOut[t]
    BY DEF AOut
  <1>3. AOut = [u \in Threads |-> AOut[u]]
    BY DEF AOut
  <1>4. QED
    BY <1>1, <1>2, <1>3

\* Up to its effect a call is open and its answer empty.
LEMMA OpenCall ==
  ASSUME TInv, FInv, NEW t \in Threads, pc[t] \in {"lock", "wait", "critical", "found"}
  PROVE  Open(t) /\ out[t] = Atomic!Nothing
  BY InCall DEF Open, FInv, AllFit, Fits

Matched == Atomic!Next \/ UNCHANGED Atomic!avars

\* A call that starts is an invocation.
LEMMA StartMatches ==
  ASSUME IInv, TInv, FInv, NEW t \in Threads, NEW c \in Calls, StartCall(t, c) PROVE Matched
  <1>1. /\ pc[t] = "idle" /\ pc' = [pc EXCEPT ![t] = "lock"] /\ call' = [call EXCEPT ![t] = c]
        /\ task_list' = task_list /\ var' = var /\ code' = code /\ todo' = todo /\ out' = out
    BY DEF StartCall, Goto
  <1>2. pc'[t] # "walk" /\ \A u \in Threads \ {t} : pc'[u] = pc[u] /\ call'[u] = call[u]
    BY <1>1, Functions
  <1>3. AVar' = AVar /\ AOut' = AOut
    BY <1>1, <1>2, OutsideKeeps
  <1>4. call[t] = NoCall /\ Listed' = Listed
    BY <1>1 DEF TInv, Calling, Listed
  <1>5. QED
    BY <1>1, <1>3, <1>4, AtomicInvokes DEF Matched

\* Callers do not see db_lock.
LEMMA LockMatches ==
  ASSUME IInv, TInv, FInv, NEW t \in Threads, Lock(t) PROVE Matched
  <1>1. /\ pc[t] = "lock" /\ \E l \in {"critical", "wait"} : pc' = [pc EXCEPT ![t] = l]
        /\ call' = call /\ task_list' = task_list /\ var' = var /\ code' = code /\ todo' = todo /\ out' = out
    BY DEF Lock, Goto
  <1>2. pc'[t] # "walk" /\ \A u \in Threads \ {t} : pc'[u] = pc[u] /\ call'[u] = call[u]
    BY <1>1, Functions
  <1>3. AVar' = AVar /\ AOut' = AOut /\ Listed' = Listed
    BY <1>1, <1>2, OutsideKeeps DEF Listed
  <1>4. QED
    BY <1>1, <1>3, AtomicStutters DEF Matched

\* A timeout is a call that gives up.
LEMMA TimeoutMatches ==
  ASSUME IInv, TInv, FInv, NEW t \in Threads, LockTimeout(t) PROVE Matched
  <1>1. /\ pc[t] = "wait" /\ pc' = [pc EXCEPT ![t] = "return"]
        /\ call' = call /\ task_list' = task_list /\ var' = var /\ todo' = todo /\ out' = out
        /\ code' = [code EXCEPT ![t] = "ETIMEDOUT"]
    BY DEF LockTimeout, Goto
  <1>2. pc'[t] # "walk" /\ \A u \in Threads \ {t} : pc'[u] = pc[u] /\ call'[u] = call[u] /\ out'[u] = out[u]
    BY <1>1, Functions
  <1>3. Open(t) /\ out[t] = Atomic!Nothing
    BY <1>1, OpenCall
  <1>4. AVar' = AVar /\ AOut' = [AOut EXCEPT ![t] = Atomic!Nothing] /\ Listed' = Listed
    BY <1>1, <1>2, <1>3, Outside DEF Listed
  <1>5. call[t] # NoCall
    BY <1>3, CallForms DEF Open
  <1>6. QED
    BY <1>1, <1>3, <1>4, <1>5, AtomicGivesUp DEF Matched, AnAnswer, Open

\* Callers do not see db_unlock.
LEMMA UnlockMatches ==
  ASSUME IInv, TInv, FInv, IInv', TInv', FInv', NEW t \in Threads, Unlock(t) PROVE Matched
  <1>1. /\ pc[t] = "unlock" /\ call' = call /\ task_list' = task_list /\ var' = var /\ code' = code
        /\ todo' = todo /\ out' = out
    BY DEF Unlock, UnlockNobody, UnlockTo
  <1>2. Quiet
    BY <1>1, AloneIsQuiet
  <1>3. Quiet'
    <2>1. CASE UnlockNobody(t)
      BY <1>2, <2>1, Functions DEF UnlockNobody, Goto, AfterUnlock, Quiet
    <2>2. ASSUME NEW w \in waitq, UnlockTo(t, w) PROVE Quiet'
      BY <1>2, <2>2, Functions DEF UnlockTo, AfterUnlock, Quiet
    <2>3. QED
      BY <2>1, <2>2 DEF Unlock
  <1>4. AVar' = AVar /\ AOut' = AOut /\ Listed' = Listed
    BY <1>1, <1>2, <1>3, QuietIsPlain, QuietIsPlainNext DEF Plain, Listed
  <1>5. QED
    BY <1>1, <1>4, AtomicStutters DEF Matched

\* A return is a return.
LEMMA ReturnMatches ==
  ASSUME IInv, TInv, FInv, NEW t \in Threads, Return(t) PROVE Matched
  <1>1. /\ pc[t] = "return" /\ pc' = [pc EXCEPT ![t] = "idle"] /\ call' = [call EXCEPT ![t] = NoCall]
        /\ task_list' = task_list /\ var' = var /\ todo' = todo /\ out' = [out EXCEPT ![t] = Atomic!Nothing]
        /\ code' = [code EXCEPT ![t] = NoCode]
    BY DEF Return, Goto
  <1>2. /\ pc'[t] # "walk" /\ out'[t] = Atomic!Nothing
        /\ \A u \in Threads \ {t} : pc'[u] = pc[u] /\ call'[u] = call[u] /\ out'[u] = out[u]
    BY <1>1, Functions
  <1>3. AVar' = AVar /\ AOut' = [AOut EXCEPT ![t] = Atomic!Nothing] /\ Listed' = Listed
    BY <1>1, <1>2, Outside DEF Listed
  <1>4. code[t] # NoCode
    BY <1>1 DEF FInv, AllFit, Fits
  <1>5. QED
    BY <1>1, <1>3, <1>4, AtomicReturns DEF Matched

\* A text the shell refuses is an access without effect; any other is not seen here.
LEMMA ProceedMatches ==
  ASSUME IInv, TInv, FInv, NEW t \in Threads, Proceed(t) PROVE Matched
  <1>1. /\ pc[t] = "found" /\ call' = call /\ task_list' = task_list /\ var' = var /\ todo' = todo /\ out' = out
        /\ \E l \in {"lock", "return"} : pc' = [pc EXCEPT ![t] = l]
    BY DEF Proceed, Goto
  <1>2. pc'[t] # "walk" /\ \A u \in Threads \ {t} : pc'[u] = pc[u] /\ call'[u] = call[u] /\ out'[u] = out[u]
    BY <1>1, Functions
  <1>3. Open(t) /\ out[t] = Atomic!Nothing /\ Seen(t)
    BY <1>1, OpenCall DEF FInv, AllFit, Fits
  <1>4. AVar' = AVar /\ AOut' = AOut /\ AOut' = [AOut EXCEPT ![t] = Atomic!Nothing] /\ Listed' = Listed
    BY <1>1, <1>2, <1>3, Outside, OutsideKeeps DEF Listed
  <1>5. CASE ~Refused(call[t])
    <2>1. code' = code
      BY <1>5 DEF Proceed, Refused
    <2>2. QED
      BY <1>1, <1>4, <2>1, AtomicStutters DEF Matched
  <1>6. CASE Refused(call[t])
    <2>1. code' = [code EXCEPT ![t] = IF Atomic!TextRefused(call[t]) THEN "EINVAL" ELSE "OK"]
      BY <1>6 DEF Proceed, Refused
    <2>2. QED
      BY <1>1, <1>3, <1>4, <1>6, <2>1, AtomicAccesses DEF Matched, AnAnswer, Seen, Refused
  <1>7. QED
    BY <1>5, <1>6

\* A look-up that finds nothing is the instant of its call; another is not seen.
LEMMA LookUpMatches ==
  ASSUME IInv, TInv, FInv, TInv', FInv', NEW t \in Threads, GetVarConfig(t) PROVE Matched
  <1>1. /\ pc[t] = "critical" /\ stage[t] = "lookup" /\ pc' = [pc EXCEPT ![t] = "unlock"]
        /\ call' = call /\ task_list' = task_list /\ var' = var /\ todo' = todo /\ out' = out
        /\ IF Atomic!Found(call[t], Listed) THEN code' = code ELSE code' = [code EXCEPT ![t] = "ENOENT"]
    BY DEF GetVarConfig, Finish, Goto
  <1>2. Quiet /\ Quiet'
    BY <1>1, AloneIsQuiet, Functions DEF Quiet
  <1>3. AVar = var /\ AOut = out /\ AVar' = AVar /\ AOut' = AOut /\ Listed' = Listed
    BY <1>1, <1>2, QuietIsPlain, QuietIsPlainNext DEF Plain, Listed
  <1>4. CASE Atomic!Found(call[t], Listed)
    BY <1>1, <1>3, <1>4, AtomicStutters DEF Matched
  <1>5. CASE ~Atomic!Found(call[t], Listed)
    <2>1. Open(t) /\ out[t] = Atomic!Nothing /\ call[t].op \in Atomic!AccessOps
      BY <1>1, OpenCall DEF FInv, AllFit, Fits
    <2>2. AOut' = [AOut EXCEPT ![t] = Atomic!Nothing]
      BY <1>3, <2>1, Functions
    <2>3. AnAnswer(t, "ENOENT", Atomic!Nothing)
      BY <1>1, <1>5, <2>2 DEF AnAnswer
    <2>4. QED
      BY <1>3, <1>5, <2>1, <2>3, AtomicAccesses DEF Matched
  <1>6. QED
    BY <1>4, <1>5

\* The access is the instant of a set or get: its group is still listed.
LEMMA AccessMatches ==
  ASSUME IInv, TInv, FInv, TInv', FInv', NEW t \in Threads, AccessParam(t) PROVE Matched
  <1> DEFINE o == Atomic!Access(call[t], var[call[t].p])
  <1>1. /\ pc[t] = "critical" /\ stage[t] = "access" /\ call[t].op \in Atomic!AccessOps
        /\ pc' = [pc EXCEPT ![t] = "unlock"]
        /\ call' = call /\ task_list' = task_list /\ todo' = todo
        /\ var' = [var EXCEPT ![call[t].p] = o.value] /\ code' = [code EXCEPT ![t] = o.code]
        /\ out' = [out EXCEPT ![t] = [p \in {call[t].p} |-> o.out]]
    BY DEF AccessParam, Finish, Goto
  <1>2. Quiet /\ Quiet'
    BY <1>1, AloneIsQuiet, Functions DEF Quiet
  <1>3. AVar = var /\ AOut = out /\ AVar' = var' /\ AOut' = out' /\ Listed' = Listed
    BY <1>1, <1>2, QuietIsPlain, QuietIsPlainNext DEF Plain, Listed
  <1>4. Open(t) /\ Seen(t) /\ ~Refused(call[t])
    BY <1>1, OpenCall DEF FInv, AllFit, Fits
  <1>5. AnAnswer(t, o.code, [p \in {call[t].p} |-> o.out]) /\ AVar' = [AVar EXCEPT ![call[t].p] = o.value]
    BY <1>1, <1>3 DEF AnAnswer
  <1>6. o = Atomic!Access(call[t], AVar[call[t].p])
    BY <1>3
  <1>7. QED
    BY <1>1, <1>3, <1>4, <1>5, <1>6, AtomicAccesses DEF Matched, Seen

\* The addition is the instant of its call.
LEMMA AddMatches ==
  ASSUME IInv, TInv, FInv, TInv', FInv', NEW t \in Threads, GroupAdd(t) PROVE Matched
  <1>1. /\ pc[t] = "critical" /\ call[t].op = "add" /\ pc' = [pc EXCEPT ![t] = "unlock"]
        /\ call' = call /\ var' = var /\ todo' = todo /\ out' = out
        /\ code' = [code EXCEPT ![t] = IF call[t].g \in Listed THEN "EEXIST" ELSE "OK"]
    BY DEF GroupAdd, InCritical, Finish, Goto
  <1>2. Quiet /\ Quiet'
    BY <1>1, AloneIsQuiet, Functions DEF Quiet
  <1>3. AVar = var /\ AOut = out /\ AVar' = AVar /\ AOut' = AOut
    BY <1>1, <1>2, QuietIsPlain, QuietIsPlainNext DEF Plain
  <1>4. Listed' = Listed \cup {call[t].g}
    BY AddedIs
  <1>5. Open(t) /\ out[t] = Atomic!Nothing
    BY <1>1, OpenCall
  <1>6. AOut' = [AOut EXCEPT ![t] = Atomic!Nothing]
    BY <1>3, <1>5, Functions
  <1>7. AnAnswer(t, IF call[t].g \in Listed THEN "EEXIST" ELSE "OK", Atomic!Nothing)
    BY <1>1, <1>6 DEF AnAnswer
  <1>8. QED
    BY <1>1, <1>3, <1>4, <1>5, <1>7, AtomicAdds DEF Matched

\* The instant of a walk is its start.
LEMMA BeginMatches ==
  ASSUME IInv, TInv, FInv, TInv', FInv', NEW t \in Threads, BeginWalk(t) PROVE Matched
  <1>1. /\ pc[t] = "critical" /\ pc' = [pc EXCEPT ![t] = "walk"]
        /\ code' = [code EXCEPT ![t] = ScanCode(t)]
        /\ call' = call /\ task_list' = task_list /\ var' = var /\ out' = out
        /\ \/ /\ call[t].op = "load"
              /\ todo' = [todo EXCEPT ![t] = Atomic!Loaded(call[t], Listed)]
           \/ /\ call[t].op = "show"
              /\ todo' = [todo EXCEPT ![t] = Atomic!ParamsIn(call[t].g, Listed)]
    BY DEF BeginWalk, InCritical, Goto, ScanCode
  <1>2. Quiet
    BY <1>1, AloneIsQuiet
  <1>3. AVar = var /\ AOut = out /\ Listed' = Listed
    BY <1>1, <1>2, QuietIsPlain DEF Plain, Listed
  <1>4. Open(t) /\ out[t] = Atomic!Nothing
    BY <1>1, OpenCall
  <1>5. pc'[t] = "walk" /\ \A u \in Threads \ {t} : pc'[u] # "walk"
    BY <1>1, <1>2, Functions DEF Quiet
  <1>6. CASE call[t].op = "load"
    <2>1. todo'[t] = Atomic!Loaded(call[t], Listed)
      BY <1>1, <1>6, Functions
    <2>2. \A p \in Params : (\E u \in Threads : pc'[u] = "walk" /\ call'[u].op = "load" /\ p \in todo'[u])
                              <=> p \in Atomic!Loaded(call[t], Listed)
      BY <1>1, <1>5, <1>6, <2>1
    <2>3. AVar' = [p \in Params |-> IF p \in Atomic!Loaded(call[t], Listed) THEN LoadedDefault(p) ELSE AVar[p]]
      BY <1>1, <1>3, <2>2 DEF AVar
    <2>4. \A u \in Threads : ~(pc'[u] = "walk" /\ call'[u].op = "show")
      BY <1>1, <1>5, <1>6
    <2>5. AOut' = [u \in Threads |-> out'[u]]
      BY <2>4 DEF AOut
    <2>6. AOut' = [AOut EXCEPT ![t] = Atomic!Nothing]
      BY <1>1, <1>3, <1>4, <2>5, Functions
    <2>7. AnAnswer(t, ScanCode(t), Atomic!Nothing)
      BY <1>1, <2>6 DEF AnAnswer
    <2>8. QED
      BY <1>3, <1>4, <1>6, <2>3, <2>7, AtomicLoads DEF Matched
  <1>7. CASE call[t].op = "show"
    <2>1. todo'[t] = Atomic!ParamsIn(call[t].g, Listed)
      BY <1>1, <1>7, Functions
    <2>2. \A p \in Params : ~ \E u \in Threads : pc'[u] = "walk" /\ call'[u].op = "load" /\ p \in todo'[u]
      BY <1>1, <1>5, <1>7
    <2>3. AVar' = [p \in Params |-> var'[p]]
      BY <2>2 DEF AVar
    <2>4. AVar' = AVar
      BY <1>1, <1>3, <2>3, Functions
    <2> DEFINE shown == [p \in Atomic!ParamsIn(call[t].g, Listed) |-> AVar[p]]
    <2>5. [p \in DOMAIN out'[t] \cup todo'[t] |-> IF p \in todo'[t] THEN var'[p] ELSE out'[t][p]] = shown
      <3>1. DOMAIN out'[t] = {}
        BY <1>1, <1>4 DEF Atomic!Nothing
      <3>2. QED
        BY <1>1, <1>3, <2>1, <3>1
    <2>6. ASSUME NEW u \in Threads
          PROVE  (IF pc'[u] = "walk" /\ call'[u].op = "show"
                    THEN [p \in DOMAIN out'[u] \cup todo'[u] |-> IF p \in todo'[u] THEN var'[p] ELSE out'[u][p]]
                    ELSE out'[u])
                 = IF u = t THEN shown ELSE AOut[u]
      <3>1. CASE u = t
        BY <3>1, <1>1, <1>5, <1>7, <2>5
      <3>2. CASE u # t
        BY <3>2, <1>1, <1>3, <1>5
      <3>3. QED
        BY <3>1, <3>2
    <2>7. AOut' = [u \in Threads |-> IF u = t THEN shown ELSE AOut[u]]
      BY <2>6 DEF AOut
    <2>8. AOut' = [AOut EXCEPT ![t] = shown]
      <3> HIDE DEF shown
      <3>1. AOut = [u \in Threads |-> AOut[u]]
        BY DEF AOut
      <3>2. QED
        BY <2>7, <3>1
    <2>9. AnAnswer(t, ScanCode(t), shown)
      BY <1>1, <2>8 DEF AnAnswer
    <2>10. QED
      BY <1>3, <1>4, <1>7, <2>4, <2>9, AtomicShows DEF Matched
  <1>8. QED
    BY <1>1, <1>6, <1>7

\* The only walk there is.
LEMMA WalkIsAlone ==
  ASSUME IInv, NEW t \in Threads, pc[t] = "walk" PROVE \A u \in Threads \ {t} : pc[u] # "walk"
  BY DEF IInv, MutualExclusion, InSection

\* The steps of a walk show nothing new.
LEMMA LoadMatches == ASSUME IInv, TInv, FInv, NEW t \in Threads, LoadDefault(t) PROVE Matched
  <1>1. PICK q \in todo[t] : /\ var' = [var EXCEPT ![q] = LoadedDefault(q)]
                            /\ todo' = [todo EXCEPT ![t] = @ \ {q}]
    BY DEF LoadDefault
  <1>2. /\ pc[t] = "walk" /\ call[t].op = "load" /\ pc' = pc /\ call' = call /\ code' = code /\ out' = out
        /\ task_list' = task_list
    BY DEF LoadDefault
  <1>3. \A u \in Threads \ {t} : pc[u] # "walk"
    BY <1>2, WalkIsAlone
  <1>4. todo'[t] = todo[t] \ {q} /\ q \in Params /\ var'[q] = LoadedDefault(q)
          /\ \A p \in Params \ {q} : var'[p] = var[p]
    BY <1>1, Functions
  <1>5. AVar = [p \in Params |-> IF p \in todo[t] THEN LoadedDefault(p) ELSE var[p]]
    BY <1>2, <1>3 DEF AVar
  <1>6. AVar' = [p \in Params |-> IF p \in todo'[t] THEN LoadedDefault(p) ELSE var'[p]]
    BY <1>2, <1>3 DEF AVar
  <1>7. \A p \in Params : (IF p \in todo'[t] THEN LoadedDefault(p) ELSE var'[p])
                          = (IF p \in todo[t] THEN LoadedDefault(p) ELSE var[p])
    BY <1>1, <1>4
  <1>8. AVar' = AVar
    BY <1>5, <1>6, <1>7
  <1>9. \A u \in Threads : ~(pc[u] = "walk" /\ call[u].op = "show")
    BY <1>2, <1>3
  <1>10. AOut = [u \in Threads |-> out[u]] /\ AOut' = [u \in Threads |-> out'[u]]
    BY <1>2, <1>9 DEF AOut
  <1>11. AOut' = AOut /\ Listed' = Listed
    BY <1>2, <1>10 DEF Listed
  <1>12. QED
    BY <1>2, <1>8, <1>11, AtomicStutters DEF Matched

\* A shown parameter holds what it held when the show began.
LEMMA ShowMatches == ASSUME IInv, TInv, FInv, NEW t \in Threads, ShowParam(t) PROVE Matched
  <1>1. PICK q \in todo[t] :
          /\ out' = [out EXCEPT ![t] = [p \in DOMAIN @ \cup {q} |-> IF p = q THEN var[q] ELSE @[p]]]
          /\ todo' = [todo EXCEPT ![t] = @ \ {q}]
    BY DEF ShowParam
  <1>2. /\ pc[t] = "walk" /\ call[t].op = "show" /\ pc' = pc /\ call' = call /\ code' = code /\ var' = var
        /\ task_list' = task_list
    BY DEF ShowParam
  <1>3. \A u \in Threads \ {t} : pc[u] # "walk"
    BY <1>2, WalkIsAlone
  <1>4. \A p \in Params : ~ \E u \in Threads : pc[u] = "walk" /\ call[u].op = "load" /\ p \in todo[u]
    BY <1>2, <1>3
  <1>5. AVar = [p \in Params |-> var[p]] /\ AVar' = [p \in Params |-> var'[p]]
    <2>1. \A p \in Params : ~ \E u \in Threads : pc'[u] = "walk" /\ call'[u].op = "load" /\ p \in todo'[u]
      BY <1>2, <1>3
    <2>2. QED
      BY <1>4, <2>1 DEF AVar
  <1>6. AVar' = AVar /\ Listed' = Listed
    BY <1>2, <1>5 DEF Listed
  <1>7. /\ todo'[t] = todo[t] \ {q}
        /\ out'[t] = [p \in DOMAIN out[t] \cup {q} |-> IF p = q THEN var[q] ELSE out[t][p]]
        /\ \A u \in Threads \ {t} : out'[u] = out[u]
    BY <1>1, Functions
  <1>8. DOMAIN out'[t] \cup todo'[t] = DOMAIN out[t] \cup todo[t]
    BY <1>1, <1>7
  <1>9. ASSUME NEW p \in DOMAIN out[t] \cup todo[t]
        PROVE  (IF p \in todo'[t] THEN var'[p] ELSE out'[t][p]) = (IF p \in todo[t] THEN var[p] ELSE out[t][p])
    BY <1>1, <1>2, <1>7
  <1>10. [p \in DOMAIN out'[t] \cup todo'[t] |-> IF p \in todo'[t] THEN var'[p] ELSE out'[t][p]]
         = [p \in DOMAIN out[t] \cup todo[t] |-> IF p \in todo[t] THEN var[p] ELSE out[t][p]]
    BY <1>8, <1>9
  <1>11. ASSUME NEW u \in Threads
         PROVE  (IF pc'[u] = "walk" /\ call'[u].op = "show"
                   THEN [p \in DOMAIN out'[u] \cup todo'[u] |-> IF p \in todo'[u] THEN var'[p] ELSE out'[u][p]]
                   ELSE out'[u])
                = (IF pc[u] = "walk" /\ call[u].op = "show"
                   THEN [p \in DOMAIN out[u] \cup todo[u] |-> IF p \in todo[u] THEN var[p] ELSE out[u][p]]
                   ELSE out[u])
    <2>1. CASE u = t
      BY <2>1, <1>2, <1>10
    <2>2. CASE u # t
      BY <2>2, <1>2, <1>3, <1>7
    <2>3. QED
      BY <2>1, <2>2
  <1>12. AOut' = AOut
    BY <1>11 DEF AOut
  <1>13. QED
    BY <1>2, <1>6, <1>12, AtomicStutters DEF Matched

\* At its end a walk has done what it was to do.
LEMMA EndMatches ==
  ASSUME IInv, TInv, FInv, TInv', FInv', NEW t \in Threads, EndWalk(t) PROVE Matched
  <1>1. /\ pc[t] = "walk" /\ todo[t] = {} /\ pc' = [pc EXCEPT ![t] = "unlock"]
        /\ call' = call /\ code' = code /\ out' = out /\ var' = var /\ todo' = todo /\ task_list' = task_list
    BY DEF EndWalk, Goto
  <1>2. \A u \in Threads \ {t} : pc[u] # "walk"
    BY <1>1, WalkIsAlone
  <1>3. Quiet'
    BY <1>1, <1>2, Functions DEF Quiet
  <1>4. AVar' = var /\ AOut' = out
    BY <1>1, <1>3, QuietIsPlainNext DEF Plain
  <1>5. \A p \in Params : ~ \E u \in Threads : pc[u] = "walk" /\ call[u].op = "load" /\ p \in todo[u]
    BY <1>1, <1>2
  <1>6. AVar = [p \in Params |-> var[p]]
    BY <1>5 DEF AVar
  <1>7. out[t] = [p \in DOMAIN out[t] |-> out[t][p]]
    BY <1>1 DEF FInv, AllFit, Fits
  <1>8. [p \in DOMAIN out[t] \cup todo[t] |-> IF p \in todo[t] THEN var[p] ELSE out[t][p]] = out[t]
    BY <1>1, <1>7
  <1>9. ASSUME NEW u \in Threads
        PROVE  (IF pc[u] = "walk" /\ call[u].op = "show"
                   THEN [p \in DOMAIN out[u] \cup todo[u] |-> IF p \in todo[u] THEN var[p] ELSE out[u][p]]
                   ELSE out[u]) = out[u]
    <2>1. CASE u = t
      BY <2>1, <1>8
    <2>2. CASE u # t
      BY <2>2, <1>2
    <2>3. QED
      BY <2>1, <2>2
  <1>10. AOut = [u \in Threads |-> out[u]]
    BY <1>9 DEF AOut
  <1>11. AVar' = AVar /\ AOut' = AOut /\ Listed' = Listed
    BY <1>1, <1>4, <1>6, <1>10, Functions DEF Listed
  <1>12. QED
    BY <1>1, <1>11, AtomicStutters DEF Matched

\* Callers see nothing of a step that leaves the data and the calls.
LEMMA StillMatches ==
  ASSUME UNCHANGED <<task_list, var, pc, call, code, todo, out>> PROVE Matched
  <1>1. AVar' = AVar /\ AOut' = AOut /\ Listed' = Listed
    BY DEF AVar, AOut, Listed
  <1>2. QED
    BY <1>1, AtomicStutters DEF Matched

\* The initial states map to initial states.
LEMMA InitMatches == Init => Atomic!Init
  <1> SUFFICES ASSUME Init PROVE Atomic!Init
    OBVIOUS
  <1>1. \A u \in Threads : pc[u] = "idle"
    BY DEF Init
  <1>2. Listed = {} /\ AVar = [p \in Params |-> 0] /\ AOut = [t \in Threads |-> Atomic!Nothing]
    BY <1>1 DEF Init, Listed, AVar, AOut
  <1>3. QED
    BY <1>2, AtomicInit DEF Init

\* Every step maps to a step or a stutter.
LEMMA StepMatches ==
  ASSUME NoRemove
  PROVE  IInv /\ IInv' /\ TInv /\ TInv' /\ FInv /\ FInv' /\ [Next]_vars => Matched
  <1> SUFFICES ASSUME IInv, IInv', TInv, TInv', FInv, FInv', [Next]_vars PROVE Matched
    OBVIOUS
  <1>1. CASE UNCHANGED vars
    BY <1>1, StillMatches DEF vars
  <1>2. CASE DbInit
    BY <1>2, StillMatches DEF DbInit
  <1>3. CASE SetupStep
    BY <1>3, StartMatches, SetupIs, ThreadAssumption DEF SetupStep
  <1>4. ASSUME NEW t \in Threads, UserCall(t) PROVE Matched
    BY <1>4, StartMatches DEF UserCall, Calls
  <1>5. ASSUME NEW t \in Threads, LockTimeout(t) PROVE Matched
    BY <1>5, TimeoutMatches
  <1>6. ASSUME NEW t \in Threads, Step(t) PROVE Matched
    BY <1>6, LockMatches, UnlockMatches, ReturnMatches, LookUpMatches, ProceedMatches, AccessMatches, AddMatches,
       NeverRemove, BeginMatches, LoadMatches, ShowMatches, EndMatches DEF Step
  <1>7. QED
    BY <1>1, <1>2, <1>3, <1>4, <1>5, <1>6 DEF Next

\* Callers see an atomic database, for any number of threads: each call takes
\* effect at one instant while it runs, as long as no group is removed between
\* a look-up and its access; the firmware removes none.
THEOREM DatabaseIsAtomic == ASSUME NoRemove PROVE Spec => Linearizable
  <1>1. IInv /\ IInv' /\ TInv /\ TInv' /\ FInv /\ FInv' /\ [Next]_vars => [Atomic!Next]_(Atomic!avars)
    BY StepMatches DEF Matched
  <1>2. Spec => Atomic!Init /\ [][Atomic!Next]_(Atomic!avars)
    BY <1>1, InitMatches, Invariance, DataInvariance, FitInvariance, PTL DEF Spec
  <1>3. QED
    BY <1>2 DEF Linearizable, Atomic!Spec
=============================================================================
