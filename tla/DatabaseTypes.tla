--------------------------- MODULE DatabaseTypes ---------------------------
(***************************************************************************)
(* The parameter tables of the database and what one access to a parameter *)
(* computes: the C integer conversions, the range and access checks of the *)
(* db_param_set_xx and db_param_get_xx families, and the bytes that        *)
(* db_group_load_default copies.  Pure operators only: Database, the       *)
(* concurrent component, and AtomicDatabase, what it promises, share them. *)
(*                                                                         *)
(* Values are C integers.  A string parameter is represented by the length *)
(* of the text it holds, which is all its get and set decide upon.         *)
(***************************************************************************)
EXTENDS Integers, FiniteSets, Sequences

CONSTANTS
  Params,     \* the parameters of all tables
  GroupIds,   \* the identifiers of the groups they belong to
  ALL,        \* DB_GROUP_SELECT_ALL
  GroupOf,    \* the group of a parameter
  Kind,       \* its enum variable_type, as a string of Kinds
  VarSize,    \* config.var_size, in bytes
  Min, Max,   \* its declared range, as written in the table
  Default,    \* its declared default, as written in the table
  AccessOf    \* config.info.access

\* The kinds that rows of the tables have.  The functions of the 64-bit kinds
\* are compiled too (TYPEDEF_ENABLE_VAR_B64), but no row has one.
IntKinds == {"BOL", "U08", "S08", "U16", "S16", "U32", "S32"}
Kinds == IntKinds \cup {"STR"}

\* sizeof of the C type behind a kind.
Bytes == [k \in IntKinds |-> CASE k \in {"BOL", "U08", "S08"} -> 1
                               [] k \in {"U16", "S16"} -> 2
                               [] OTHER -> 4]

\* VAR_NUN_DIG_xx: the longest text the shell parses for a kind.
MaxDigits == [BOL |-> 1, U08 |-> 3, U16 |-> 5, U32 |-> 10,
              S08 |-> 4, S16 |-> 6, S32 |-> 11]

ASSUME TableAssumption ==
  /\ ALL \notin GroupIds
  /\ GroupOf \in [Params -> GroupIds]
  /\ Kind \in [Params -> Kinds]
  /\ VarSize \in [Params -> Nat \ {0}]
  /\ Min \in [Params -> Int] /\ Max \in [Params -> Int]
  /\ Default \in [Params -> Int]
  /\ AccessOf \in [Params -> Nat]
  /\ \A p \in Params : IF Kind[p] = "STR"
                         THEN /\ VarSize[p] > 4
                              /\ Default[p] \in 0 .. VarSize[p] - 1
                         ELSE VarSize[p] = Bytes[Kind[p]]

-----------------------------------------------------------------------------
(* C conversions.                                                          *)

Unsigned(w, n) == n % (256 ^ w)

\* Conversion of n to the C type of kind k.  Four-byte kinds keep n: the
\* instances keep such values below 2^31, the widest integer TLC holds.  So
\* the range 0 .. 2^32 - 1 of a U32, which a signed setter reads as 0 .. -1 and
\* refuses everything by, is one of the model's setters that accept.
Wrap(k, n) ==
  CASE Bytes[k] = 4 -> n
    [] k \in {"U08", "U16", "BOL"} -> Unsigned(Bytes[k], n)
    [] OTHER -> LET u == Unsigned(Bytes[k], n)
                    m == 256 ^ Bytes[k]
                IN  IF u < m \div 2 THEN u ELSE u - m

\* The bytes of parameter p read through the union view of kind k.
RangeAs(k, p) == Wrap(k, Min[p]) .. Wrap(k, Max[p])

InRange(p, n) == n \in Min[p] .. Max[p]

-----------------------------------------------------------------------------
(* Return codes: 0, DB_UPDATED and the negative errno values.              *)

Errors == {"EACCES", "EINVAL", "ENOENT", "EEXIST", "ETIMEDOUT"}
Codes == {"OK", "DB_UPDATED"} \cup Errors

\* What an access to a parameter does: its return code, the value of the
\* parameter afterwards, and the value handed to the caller.
Outcome(code, value, out) == [code |-> code, value |-> value, out |-> out]

\* Seeded fault: the setter forgets the range check.
SetNumberUnchecked(k, p, access, n, cur) ==
  IF access < AccessOf[p] THEN Outcome("EACCES", cur, 0)
  ELSE IF Bytes[k] # VarSize[p] THEN Outcome("EINVAL", cur, 0)
  ELSE IF Wrap(k, cur) = n THEN Outcome("OK", cur, 0)
  ELSE Outcome("DB_UPDATED", Wrap(Kind[p], n), 0)

\* db_param_set_xx of kind k with argument n, the parameter holding cur.
SetNumber(k, p, access, n, cur) ==
  IF access < AccessOf[p] THEN Outcome("EACCES", cur, 0)
  ELSE IF Bytes[k] # VarSize[p] \/ n \notin RangeAs(k, p) THEN Outcome("EINVAL", cur, 0)
  ELSE IF Wrap(k, cur) = n THEN Outcome("OK", cur, 0)
  ELSE Outcome("DB_UPDATED", Wrap(Kind[p], n), 0)

\* db_param_get_xx of kind k into a variable of the caller holding n.
GetNumber(k, p, access, n, cur) ==
  IF access < AccessOf[p] THEN Outcome("EACCES", cur, n)
  ELSE IF Bytes[k] # VarSize[p] THEN Outcome("EINVAL", cur, n)
  ELSE IF Wrap(k, cur) = n THEN Outcome("OK", cur, n)
  ELSE Outcome("DB_UPDATED", cur, Wrap(k, cur))

\* db_param_set_str with a text of len bytes: always terminated, cut short.
SetString(p, access, len, cur) ==
  IF access < AccessOf[p] THEN Outcome("EACCES", cur, 0)
  ELSE IF Kind[p] # "STR" THEN Outcome("EINVAL", cur, 0)
  ELSE Outcome("OK", IF len < VarSize[p] THEN len ELSE VarSize[p] - 1, 0)

\* db_param_get_str into a buffer of len bytes: snprintf leaves room for NUL.
GetString(p, access, len, cur) ==
  IF access < AccessOf[p] THEN Outcome("EACCES", cur, 0)
  ELSE IF Kind[p] # "STR" THEN Outcome("EINVAL", cur, 0)
  ELSE LET room == (IF len < VarSize[p] THEN len ELSE VarSize[p]) - 1
       IN  Outcome("OK", cur, IF cur < room THEN cur ELSE room)

-----------------------------------------------------------------------------
(* The default values.  A table entry stores min, max and standar side by  *)
(* side in a union, each as wide as the parameter; the load copies the     *)
(* bytes found where the view of three pointers keeps its standar.         *)

PointerSize == 4
StandarOffset(p) == 2 * VarSize[p]
LoadedDefault(p) ==
  IF Kind[p] = "STR" \/ StandarOffset(p) = 2 * PointerSize THEN Default[p] ELSE 0

=============================================================================
