------------------------------ MODULE Database ------------------------------
(***************************************************************************)
(* libraries/database/database.c and its set-up in src/setup_database.c:   *)
(* groups of typed parameters in a list guarded by one semaphore, used by  *)
(* the main loop, the shell and the Modbus server.  A set or a get is TWO  *)
(* critical sections, one that looks the parameter up and one that uses    *)
(* the pointer found; a default load and a show walk many parameters       *)
(* inside one.                                                             *)
(***************************************************************************)
EXTENDS DatabaseTypes

CONSTANTS
  Threads,
  Main,          \* the thread that runs main()
  EarlyThreads,  \* the threads that run before the set-up is over (shell)
  SetupGroups,   \* the groups setup_database_init adds, in order
  FACTORY,       \* ACC_LEVEL_FACTORY
  CallsOf,       \* the calls a thread may make after the set-up
  NoCall,
  NoCode

VARIABLES
  task_list,  \* the sequence of the groups added
  count,      \* the count of the semaphore
  waitq,      \* the threads queued on the semaphore
  var,        \* the value of every parameter
  boot,       \* how many steps of setup_database_init were made
  pc,         \* where a thread is in its call
  stage,      \* the critical section it is in: the look-up or the access
  call,       \* the call itself
  code,       \* the return code, NoCode while open
  todo,       \* the parameters a walk has still to visit
  out         \* what the call hands to its caller

vars == <<task_list, count, waitq, var, boot, pc, stage, call, code, todo, out>>

Lists == INSTANCE SequencesExt

-----------------------------------------------------------------------------
Listed == {task_list[i] : i \in DOMAIN task_list}

SetupCalls ==
  [i \in 1 .. Len(SetupGroups) |-> [op |-> "add", g |-> SetupGroups[i]]]
    \o <<[op |-> "load", g |-> ALL, access |-> FACTORY]>>

\* Step 0 of the set-up is db_init, step i the i-th of SetupCalls.
SetupOver == boot = Len(SetupCalls) + 1 /\ call[Main] \notin {SetupCalls[i] : i \in DOMAIN SetupCalls}

Calls == (UNION {CallsOf[t] : t \in Threads}) \cup {SetupCalls[i] : i \in DOMAIN SetupCalls}

ASSUME ThreadAssumption ==
  /\ Main \in Threads /\ EarlyThreads \subseteq Threads \ {Main}
  /\ SetupGroups \in Seq(GroupIds)
  /\ FACTORY \in Nat
  /\ NoCall \notin Calls /\ NoCode \notin Codes

\* The arguments have the C types of the exported functions (database.h).
ASSUME CallAssumption ==
  \A t \in Threads : \A c \in CallsOf[t] :
    \/ c.op \in {"add", "remove"} /\ c.g \in GroupIds
    \/ c.op = "load" /\ c.access \in Nat
    \/ c.op = "show"
    \/ c.op \in {"set", "get"} /\ c.p \in Params /\ c.kind \in Kinds
         /\ c.n \in IF c.kind = "STR" THEN Nat ELSE Int
    \/ c.op = "shell_set" /\ c.p \in Params /\ c.len \in Nat /\ c.n \in Int

\* The tables write the range of a number as values of its type, the lower
\* end first.
ASSUME RangeAssumption ==
  \A p \in Params : Kind[p] # "STR" =>
    Wrap(Kind[p], Min[p]) = Min[p] /\ Wrap(Kind[p], Max[p]) = Max[p] /\ Min[p] <= Max[p]

Atomic == INSTANCE AtomicDatabase
            WITH listed <- Listed,
                 var <- [p \in Params |->
                           IF \E t \in Threads : pc[t] = "walk" /\ call[t].op = "load" /\ p \in todo[t]
                             THEN LoadedDefault(p) ELSE var[p]],
                 out <- [t \in Threads |->
                           IF pc[t] = "walk" /\ call[t].op = "show"
                             THEN [p \in DOMAIN out[t] \cup todo[t] |-> IF p \in todo[t] THEN var[p] ELSE out[t][p]]
                             ELSE out[t]]

-----------------------------------------------------------------------------
Init ==
  /\ task_list = <<>>
  /\ count = 0 /\ waitq = {}
  /\ var = [p \in Params |-> 0]
  /\ boot = 0
  /\ pc = [t \in Threads |-> "idle"]
  /\ stage = [t \in Threads |-> "access"]
  /\ call = [t \in Threads |-> NoCall]
  /\ code = [t \in Threads |-> NoCode]
  /\ todo = [t \in Threads |-> {}]
  /\ out = [t \in Threads |-> Atomic!Nothing]

Goto(t, label) == pc' = [pc EXCEPT ![t] = label]

\* db_init: the list is empty at the start, so the semaphore is initialised,
\* its count to one and its queue to empty.
DbInit ==
  /\ boot = 0 /\ boot' = 1
  /\ IF task_list = <<>> THEN count' = 1 /\ waitq' = {} ELSE UNCHANGED <<count, waitq>>
  /\ UNCHANGED <<task_list, var, pc, stage, call, code, todo, out>>

StartCall(t, c) ==
  /\ pc[t] = "idle"
  /\ Goto(t, "lock")
  /\ call' = [call EXCEPT ![t] = c]
  /\ stage' = [stage EXCEPT ![t] = IF c.op \in Atomic!AccessOps THEN "lookup" ELSE "access"]
  /\ UNCHANGED <<task_list, count, waitq, var, code, todo, out>>

SetupStep ==
  /\ boot \in 1 .. Len(SetupCalls)
  /\ StartCall(Main, SetupCalls[boot])
  /\ boot' = boot + 1

UserCall(t) ==
  /\ t \in EarlyThreads \/ SetupOver
  /\ \E c \in CallsOf[t] : StartCall(t, c)
  /\ UNCHANGED boot

-----------------------------------------------------------------------------
(* db_lock and db_unlock.                                                  *)

Lock(t) ==
  /\ pc[t] = "lock"
  /\ IF count > 0
       THEN count' = count - 1 /\ Goto(t, "critical") /\ UNCHANGED waitq
       ELSE waitq' = waitq \cup {t} /\ Goto(t, "wait") /\ UNCHANGED count
  /\ UNCHANGED <<task_list, var, boot, stage, call, code, todo, out>>

\* Seeded fault: a caller ignores the error of db_lock.
LockTimeoutIgnored(t) ==
  /\ pc[t] = "wait"
  /\ waitq' = waitq \ {t}
  /\ Goto(t, "critical")
  /\ UNCHANGED <<task_list, count, var, boot, stage, call, code, todo, out>>

\* Seeded fault: a thread that gave up keeps its place in the queue.
LockTimeoutStaysQueued(t) ==
  /\ pc[t] = "wait"
  /\ Goto(t, "return")
  /\ code' = [code EXCEPT ![t] = "ETIMEDOUT"]
  /\ UNCHANGED <<task_list, count, waitq, var, boot, stage, call, todo, out>>

\* k_sem_take gives up after DB_LOCK_TIMEOUT_MS: every caller returns the error.
LockTimeout(t) ==
  /\ pc[t] = "wait"
  /\ waitq' = waitq \ {t}
  /\ Goto(t, "return")
  /\ code' = [code EXCEPT ![t] = "ETIMEDOUT"]
  /\ UNCHANGED <<task_list, count, var, boot, stage, call, todo, out>>

\* A look-up that found its parameter goes on; any other call returns.
AfterUnlock(t) == IF code[t] = NoCode THEN "found" ELSE "return"

UnlockNobody(t) ==
  /\ pc[t] = "unlock" /\ waitq = {}
  /\ count' = IF count < 1 THEN count + 1 ELSE count
  /\ Goto(t, AfterUnlock(t))
  /\ UNCHANGED <<task_list, waitq, var, boot, stage, call, code, todo, out>>

\* k_sem_give hands the semaphore to a thread of the queue.
UnlockTo(t, w) ==
  /\ pc[t] = "unlock" /\ w \in waitq
  /\ waitq' = waitq \ {w}
  /\ pc' = [pc EXCEPT ![t] = AfterUnlock(t), ![w] = "critical"]
  /\ UNCHANGED <<task_list, count, var, boot, stage, call, code, todo, out>>

Unlock(t) == UnlockNobody(t) \/ \E w \in waitq : UnlockTo(t, w)

Return(t) ==
  /\ pc[t] = "return"
  /\ Goto(t, "idle")
  /\ call' = [call EXCEPT ![t] = NoCall]
  /\ code' = [code EXCEPT ![t] = NoCode]
  /\ stage' = [stage EXCEPT ![t] = "access"]
  /\ out' = [out EXCEPT ![t] = Atomic!Nothing]
  /\ UNCHANGED <<task_list, count, waitq, var, boot, todo>>

-----------------------------------------------------------------------------
(* Critical sections.  Each ends with the unlock every path of the code    *)
(* reaches.                                                                *)

InCritical(t, op) == pc[t] = "critical" /\ stage[t] = "access" /\ call[t].op = op

Finish(t, ret) ==
  /\ Goto(t, "unlock")
  /\ code' = [code EXCEPT ![t] = ret]

\* Seeded fault: db_group_add does not look for the group first.
GroupAddTwice(t) ==
  /\ InCritical(t, "add")
  /\ Finish(t, "OK") /\ task_list' = Append(task_list, call[t].g)
  /\ UNCHANGED <<count, waitq, var, boot, stage, call, todo, out>>

GroupAdd(t) ==
  /\ InCritical(t, "add")
  /\ IF call[t].g \in Listed
       THEN Finish(t, "EEXIST") /\ UNCHANGED task_list
       ELSE Finish(t, "OK") /\ task_list' = Append(task_list, call[t].g)
  /\ UNCHANGED <<count, waitq, var, boot, stage, call, todo, out>>

\* The first group with that id goes: the one the search finds.
GroupRemove(t) ==
  /\ InCritical(t, "remove")
  /\ IF call[t].g \in Listed
       THEN /\ Finish(t, "OK")
            /\ \E i \in DOMAIN task_list :
                 /\ task_list[i] = call[t].g /\ \A j \in 1 .. i - 1 : task_list[j] # call[t].g
                 /\ task_list' = Lists!RemoveAt(task_list, i)
       ELSE Finish(t, "ENOENT") /\ UNCHANGED task_list
  /\ UNCHANGED <<count, waitq, var, boot, stage, call, todo, out>>

\* Seeded fault: the walk runs after the semaphore was given back.
BeginWalkUnlocked(t) ==
  \E op \in {"load", "show"} :
    /\ InCritical(t, op)
    /\ Goto(t, "walk") /\ count' = 1
    /\ code' = [code EXCEPT ![t] =
                  IF Atomic!Selected(call[t].g, Listed) = {} THEN "ENOENT" ELSE "OK"]
    /\ todo' = [todo EXCEPT ![t] = IF op = "load" THEN Atomic!Loaded(call[t], Listed)
                                                 ELSE Atomic!ParamsIn(call[t].g, Listed)]
    /\ UNCHANGED <<task_list, waitq, var, boot, stage, call, out>>

\* The loops of db_group_load_default and db_shell_show_group choose their
\* parameters here and visit them one by one, under the semaphore.
BeginWalk(t) ==
  \E op \in {"load", "show"} :
    /\ InCritical(t, op)
    /\ Goto(t, "walk")
    /\ code' = [code EXCEPT ![t] =
                  IF Atomic!Selected(call[t].g, Listed) = {} THEN "ENOENT" ELSE "OK"]
    /\ todo' = [todo EXCEPT ![t] = IF op = "load" THEN Atomic!Loaded(call[t], Listed)
                                                 ELSE Atomic!ParamsIn(call[t].g, Listed)]
    /\ UNCHANGED <<task_list, count, waitq, var, boot, stage, call, out>>

LoadDefault(t) ==
  /\ pc[t] = "walk" /\ call[t].op = "load"
  /\ \E p \in todo[t] :
       /\ var' = [var EXCEPT ![p] = LoadedDefault(p)]
       /\ todo' = [todo EXCEPT ![t] = @ \ {p}]
  /\ UNCHANGED <<task_list, count, waitq, boot, pc, stage, call, code, out>>

ShowParam(t) ==
  /\ pc[t] = "walk" /\ call[t].op = "show"
  /\ \E p \in todo[t] :
       /\ out' = [out EXCEPT ![t] = [q \in DOMAIN @ \cup {p} |-> IF q = p THEN var[p] ELSE @[q]]]
       /\ todo' = [todo EXCEPT ![t] = @ \ {p}]
  /\ UNCHANGED <<task_list, count, waitq, var, boot, pc, stage, call, code>>

\* Seeded fault: the show returns without db_unlock.
EndWalkLeaks(t) ==
  /\ pc[t] = "walk" /\ todo[t] = {}
  /\ Goto(t, IF call[t].op = "show" THEN "return" ELSE "unlock")
  /\ UNCHANGED <<task_list, count, waitq, var, boot, stage, call, code, todo, out>>

EndWalk(t) ==
  /\ pc[t] = "walk" /\ todo[t] = {}
  /\ Goto(t, "unlock")
  /\ UNCHANGED <<task_list, count, waitq, var, boot, stage, call, code, todo, out>>

\* Seeded fault: the error path returns without db_unlock.
GetVarConfigLeaks(t) ==
  /\ pc[t] = "critical" /\ stage[t] = "lookup"
  /\ IF Atomic!Found(call[t], Listed)
       THEN Goto(t, "unlock") /\ UNCHANGED code
       ELSE Goto(t, "return") /\ code' = [code EXCEPT ![t] = "ENOENT"]
  /\ UNCHANGED <<task_list, count, waitq, var, boot, stage, call, todo, out>>

\* db_get_var_config
GetVarConfig(t) ==
  /\ pc[t] = "critical" /\ stage[t] = "lookup"
  /\ IF Atomic!Found(call[t], Listed)
       THEN Goto(t, "unlock") /\ UNCHANGED code
       ELSE Finish(t, "ENOENT")
  /\ UNCHANGED <<task_list, count, waitq, var, boot, stage, call, todo, out>>

\* Between the two critical sections; the shell parses its text here.
Proceed(t) ==
  /\ pc[t] = "found"
  /\ LET c == call[t]
         refused == c.op = "shell_set" /\ Atomic!TextRefused(c)
         dropped == c.op = "shell_set" /\ Atomic!TextTooLong(c)
     IN  IF refused \/ dropped
           THEN /\ Goto(t, "return")
                /\ code' = [code EXCEPT ![t] = IF refused THEN "EINVAL" ELSE "OK"]
                /\ UNCHANGED stage
           ELSE /\ Goto(t, "lock")
                /\ stage' = [stage EXCEPT ![t] = "access"]
                /\ UNCHANGED code
  /\ UNCHANGED <<task_list, count, waitq, var, boot, call, todo, out>>

\* db_param_set_xx, db_param_get_xx
AccessParam(t) ==
  /\ pc[t] = "critical" /\ stage[t] = "access" /\ call[t].op \in Atomic!AccessOps
  /\ LET o == Atomic!Access(call[t], var[call[t].p])
     IN  /\ var' = [var EXCEPT ![call[t].p] = o.value]
         /\ Finish(t, o.code)
         /\ out' = [out EXCEPT ![t] = [p \in {call[t].p} |-> o.out]]
  /\ UNCHANGED <<task_list, count, waitq, boot, stage, call, todo>>

Step(t) ==
  \/ Lock(t) \/ Unlock(t) \/ Return(t) \/ GetVarConfig(t) \/ Proceed(t) \/ AccessParam(t)
  \/ GroupAdd(t) \/ GroupRemove(t) \/ BeginWalk(t) \/ LoadDefault(t) \/ ShowParam(t) \/ EndWalk(t)

Next ==
  \/ DbInit \/ SetupStep
  \/ \E t \in Threads : UserCall(t) \/ Step(t) \/ LockTimeout(t)

Spec == Init /\ [][Next]_vars

\* The scheduler runs every ready thread; k_sem_give serves a queued thread
\* and no thread calls so often that another one is passed over for ever.
\* Nothing is assumed of the users' calls nor of the timeouts.
Fairness ==
  /\ WF_vars(DbInit) /\ WF_vars(SetupStep)
  /\ \A t \in Threads : WF_vars(Step(t))
  /\ \A w \in Threads : SF_vars(\E t \in Threads : UnlockTo(t, w))

FairSpec == Spec /\ Fairness

-----------------------------------------------------------------------------
(* Properties.                                                             *)

\* The shape of the state: the semaphore is binary and nobody is queued
\* twice or out of place.
TypeOK ==
  /\ task_list \in Seq(GroupIds)
  /\ count \in {0, 1}
  /\ waitq \subseteq {t \in Threads : pc[t] = "wait"}
  /\ var \in [Params -> Int]
  /\ boot \in 0 .. Len(SetupCalls) + 1
  /\ pc \in [Threads -> {"idle", "lock", "wait", "critical", "walk", "unlock", "found", "return"}]
  /\ stage \in [Threads -> {"lookup", "access"}]
  /\ call \in [Threads -> Calls \cup {NoCall}]
  /\ code \in [Threads -> Codes \cup {NoCode}]
  /\ todo \in [Threads -> SUBSET Params]

InSection(t) == pc[t] \in {"critical", "walk", "unlock"}

\* At most one thread is between db_lock and db_unlock, and while one is the
\* semaphore cannot be taken: whatever db_init, timeouts and hand-overs do,
\* no two walks or accesses of the tables overlap (database.c:86-114).
MutualExclusion ==
  /\ \A t, u \in Threads : InSection(t) /\ InSection(u) => t = u
  /\ \A t \in Threads : InSection(t) => count = 0

\* No group is in the list twice, whoever adds it and however often: a node
\* appended twice would cut or close the intrusive list (database.c:454-469).
GroupsListedOnce ==
  \A i, j \in DOMAIN task_list : task_list[i] = task_list[j] => i = j

\* A default load writes the parameters of groups that are listed at that very
\* step only; the one write a removed group can still see is that of a call
\* that looked its parameter up before (database.c:471-564).
RemovedGroupsAreLeftAlone ==
  [][\A p \in Params : var'[p] # var[p] /\ GroupOf[p] \notin Listed =>
       \E t \in Threads : /\ pc[t] = "critical" /\ stage[t] = "access"
                         /\ call[t].op \in {"set", "shell_set"} /\ call[t].p = p]_vars

\* Callers see an atomic database: each call of the API, walks and two-step
\* accesses included, takes effect at one instant while it runs
\* (AtomicDatabase).  This holds because nothing in the firmware removes a
\* group between the look-up and the access of another thread.
Linearizable == Atomic!Spec

\* What a parameter may hold once it was set: a number of its declared range,
\* a text that leaves room for its terminator.
Legal(p, n) == IF Kind[p] = "STR" THEN n \in 0 .. VarSize[p] - 1 ELSE InRange(p, n)

\* A write other than a default load leaves a legal value, whichever typed
\* setter, access level or shell text it came through (database.c:236-1005).
WritesAreLegal ==
  [][\A p \in Params : var'[p] # var[p] =>
       \/ Legal(p, var'[p])
       \/ \E t \in Threads : pc[t] = "walk" /\ call[t].op = "load" /\ p \in todo[t]]_vars

\* The set-up finishes even when the shell already uses the database, and a
\* call made after it returns: no semaphore is lost on any path.
SetupFinishes == <>SetupOver
CallsReturn == \A t \in Threads : (pc[t] = "lock" /\ SetupOver) ~> pc[t] = "idle"

\* Claim of the macros' _def_value (database.h:56-93): a default load gives
\* every parameter it visits the default its table entry declares.
DefaultsAreLoaded ==
  [][\A t \in Threads : \A p \in Params :
       pc[t] = "walk" /\ call[t].op = "load" /\ p \in todo[t] /\ p \notin todo'[t]
       => var'[p] = Default[p]]_vars

\* Claim of the shell's help (database.c:388, "VALUE: New value of
\* parameter."): a set reported as updated stored the number typed.
ShellStoresTheValue ==
  [][\A t \in Threads :
       pc[t] = "critical" /\ stage[t] = "access" /\ call[t].op = "shell_set"
         /\ code'[t] = "DB_UPDATED"
       => var'[call[t].p] = call[t].n]_vars
=============================================================================
