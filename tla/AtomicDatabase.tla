--------------------------- MODULE AtomicDatabase ---------------------------
(***************************************************************************)
(* What the database promises its callers: every call takes effect at one  *)
(* instant between its invocation and its return, whatever the threads do. *)
(* A call may also give up on the semaphore (-ETIMEDOUT) without effect.   *)
(***************************************************************************)
EXTENDS DatabaseTypes

CONSTANTS
  Threads,
  Calls,      \* the calls a thread may make
  NoCall,
  NoCode

VARIABLES
  listed,     \* the groups of task_list
  var,        \* the value of every parameter
  call,       \* the call a thread is in
  code,       \* its return code, NoCode until it takes effect
  out         \* what it hands to its caller, parameter by parameter

avars == <<listed, var, call, code, out>>

-----------------------------------------------------------------------------
(* The calls and what one of them does to the listed groups and values.    *)

Selected(g, groups) == IF g = ALL THEN groups ELSE {g} \cap groups
ParamsIn(g, groups) == {p \in Params : GroupOf[p] \in Selected(g, groups)}

\* db_get_var_config: a listed group that holds the parameter.
Found(c, groups) == c.g \in groups /\ GroupOf[c.p] = c.g

\* The parameters db_group_load_default writes, those it may access.
Loaded(c, groups) == {p \in ParamsIn(c.g, groups) : c.access >= AccessOf[p]}

\* db_parse_and_set_param: a text the kind of the parameter refuses is
\* -EINVAL, one with too many digits is dropped without an error, any other
\* goes to the setter, converted to its argument type.
TextRefused(c) == Kind[c.p] # "STR" /\ ~c.numeric
TextTooLong(c) ==
  LET k == Kind[c.p]
  IN  CASE k = "STR" -> FALSE
        [] k = "BOL" -> c.len # MaxDigits[k]
        [] OTHER     -> c.len > MaxDigits[k]
Typed(c) == IF Kind[c.p] = "BOL" THEN IF c.n # 0 THEN 1 ELSE 0
                                 ELSE Wrap(Kind[c.p], c.n)

\* The access a set, get or shell set makes once its parameter is found.
Access(c, cur) ==
  CASE c.op = "set" -> IF c.kind = "STR" THEN SetString(c.p, c.access, c.n, cur)
                                         ELSE SetNumber(c.kind, c.p, c.access, c.n, cur)
    [] c.op = "get" -> IF c.kind = "STR" THEN GetString(c.p, c.access, c.n, cur)
                                         ELSE GetNumber(c.kind, c.p, c.access, c.n, cur)
    [] OTHER -> IF Kind[c.p] = "STR" THEN SetString(c.p, c.access, c.len, cur)
                                     ELSE SetNumber(Kind[c.p], c.p, c.access, Typed(c), cur)

AccessOps == {"set", "get", "shell_set"}

Nothing == [p \in {} |-> 0]

-----------------------------------------------------------------------------
Init ==
  /\ listed = {}
  /\ var = [p \in Params |-> 0]
  /\ call = [t \in Threads |-> NoCall]
  /\ code = [t \in Threads |-> NoCode]
  /\ out = [t \in Threads |-> Nothing]

Invoke(t) ==
  /\ call[t] = NoCall
  /\ \E c \in Calls : call' = [call EXCEPT ![t] = c]
  /\ UNCHANGED <<listed, var, code, out>>

Pending(t, c) == call[t] = c /\ c # NoCall /\ code[t] = NoCode

Answer(t, ret, value) ==
  /\ code' = [code EXCEPT ![t] = ret]
  /\ out' = [out EXCEPT ![t] = value]
  /\ UNCHANGED call

CommitAccess(t) ==
  \E c \in Calls :
    /\ Pending(t, c) /\ c.op \in AccessOps
    /\ UNCHANGED listed
    /\ \/ ~Found(c, listed) /\ Answer(t, "ENOENT", Nothing) /\ UNCHANGED var
       \/ /\ c.op = "shell_set" /\ TextRefused(c)
          /\ Found(c, listed) /\ Answer(t, "EINVAL", Nothing) /\ UNCHANGED var
       \/ /\ c.op = "shell_set" /\ ~TextRefused(c) /\ TextTooLong(c)
          /\ Found(c, listed) /\ Answer(t, "OK", Nothing) /\ UNCHANGED var
       \/ /\ c.op = "shell_set" => ~TextRefused(c) /\ ~TextTooLong(c)
          /\ Found(c, listed)
          /\ LET o == Access(c, var[c.p])
             IN  Answer(t, o.code, [p \in {c.p} |-> o.out]) /\ var' = [var EXCEPT ![c.p] = o.value]

CommitAdd(t) ==
  \E c \in Calls :
    /\ Pending(t, c) /\ c.op = "add"
    /\ Answer(t, IF c.g \in listed THEN "EEXIST" ELSE "OK", Nothing)
    /\ listed' = listed \cup {c.g}
    /\ UNCHANGED var

CommitRemove(t) ==
  \E c \in Calls :
    /\ Pending(t, c) /\ c.op = "remove"
    /\ Answer(t, IF c.g \in listed THEN "OK" ELSE "ENOENT", Nothing)
    /\ listed' = listed \ {c.g}
    /\ UNCHANGED var

ScanCode(c) == IF Selected(c.g, listed) = {} THEN "ENOENT" ELSE "OK"

CommitLoad(t) ==
  \E c \in Calls :
    /\ Pending(t, c) /\ c.op = "load"
    /\ Answer(t, ScanCode(c), Nothing)
    /\ var' = [p \in Params |-> IF p \in Loaded(c, listed) THEN LoadedDefault(p)
                                                           ELSE var[p]]
    /\ UNCHANGED listed

CommitShow(t) ==
  \E c \in Calls :
    /\ Pending(t, c) /\ c.op = "show"
    /\ Answer(t, ScanCode(c), [p \in ParamsIn(c.g, listed) |-> var[p]])
    /\ UNCHANGED <<listed, var>>

GiveUp(t) ==
  /\ call[t] # NoCall /\ code[t] = NoCode
  /\ Answer(t, "ETIMEDOUT", Nothing)
  /\ UNCHANGED <<listed, var>>

Return(t) ==
  /\ code[t] # NoCode
  /\ call' = [call EXCEPT ![t] = NoCall]
  /\ code' = [code EXCEPT ![t] = NoCode]
  /\ out' = [out EXCEPT ![t] = Nothing]
  /\ UNCHANGED <<listed, var>>

Next ==
  \E t \in Threads : \/ Invoke(t) \/ CommitAccess(t) \/ CommitAdd(t)
                     \/ CommitRemove(t) \/ CommitLoad(t) \/ CommitShow(t)
                     \/ GiveUp(t) \/ Return(t)

Spec == Init /\ [][Next]_avars

=============================================================================
