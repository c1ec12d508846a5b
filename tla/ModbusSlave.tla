---------------------------- MODULE ModbusSlave ----------------------------
(***************************************************************************)
(* libraries/modbus_slave/mdb_table_parse.c behind the callbacks of        *)
(* src/slave_modbus.c: the server looks the requested address up in a      *)
(* sorted register table by bisection, checks that the request covers      *)
(* whole, contiguous variables, and reads or writes them one by one in the *)
(* database while the main loop and the shell write there too.             *)
(*                                                                         *)
(* An access to the database is one step here, as Database!Linearizable    *)
(* allows.  Registers are indexed from 0, as in the code.                  *)
(***************************************************************************)
EXTENDS DatabaseTypes

CONSTANTS
  Tables,       \* the register tables
  TableLen,     \* their .len
  Regs,         \* their .regs: the parameter and the address of each row
  Requests,     \* the requests a client may send
  OtherWrites,  \* <<p, n>>: the values other threads set
  FACTORY,      \* ACC_LEVEL_FACTORY, which every callback passes
  None

VARIABLES
  pc,           \* where the server is in a request
  req,          \* the request: fn, tb, addr, num and, for a write, words
  idx_min, idx_max, idx_cur,  \* bisection
  index,        \* the row found
  cur,          \* the row a loop is at
  tot_regs,     \* ctrl.tot_regs of that loop
  index_buf,    \* ctrl.index_buf of that loop, in bytes
  reply,        \* the registers written to the reply, by offset
  resp,         \* the eMBErrorCode returned
  applied,      \* history: the values this request stored, by row
  held,         \* history: the values each parameter had since a read began
  var           \* the database

search == <<idx_min, idx_max, idx_cur>>
walk == <<cur, tot_regs, index_buf>>
vars == <<pc, req, search, index, walk, reply, resp, applied, held, var>>

-----------------------------------------------------------------------------
U16 == 65536

\* mdb_slv_get_num_regs_used
RegsUsed(size) == (size + 1) \div 2

Rows(tb) == 0 .. TableLen[tb] - 1
Addr(tb, i) == Regs[tb][i].addr
Size(tb, i) == VarSize[Regs[tb][i].p]
NumRegs(tb, i) == RegsUsed(Size(tb, i))

ASSUME TablesAssumption ==
  \A tb \in Tables : /\ TableLen[tb] \in 1 .. U16 - 1
                     /\ DOMAIN Regs[tb] = Rows(tb)

ASSUME RowsAssumption ==
  \A tb \in Tables : \A i \in Rows(tb) :
    /\ Regs[tb][i].p \in Params
    /\ Kind[Regs[tb][i].p] \in IntKinds
    /\ Size(tb, i) \in {1, 2, 4}
    /\ Addr(tb, i) \in Nat /\ Addr(tb, i) + NumRegs(tb, i) < U16

\* The rows are sorted and do not overlap.
ASSUME SortedAssumption ==
  \A tb \in Tables : \A i, j \in Rows(tb) :
    i < j => Addr(tb, i) + NumRegs(tb, i) <= Addr(tb, j)

ASSUME RequestsAssumption ==
  \A r \in Requests : /\ r.tb \in Tables
                      /\ r.fn \in {"read", "write"}
                      /\ r.addr \in 0 .. U16 - 1
                      /\ r.num \in 0 .. U16 - 1
                      /\ r.fn = "write" => r.words \in [0 .. r.num - 1 -> 0 .. U16 - 1]

ASSUME OthersAssumption ==
  /\ OtherWrites \subseteq Params \X Int
  /\ FACTORY \in Nat
  /\ None \notin Requests /\ None \notin {"MB_ENOERR", "MB_ENOREG", "MB_EPORTERR"}

\* n is a value of the C type of p.
Fits(p, n) == Wrap(Kind[p], n) = n

RowParams == UNION {{Regs[tb][i].p : i \in Rows(tb)} : tb \in Tables}

\* The tables of setup_database.c write the ranges of the parameters with
\* registers, and their defaults, as values of their type, and a setter
\* leaves one behind.
ASSUME ValuesAssumption ==
  /\ \A p \in RowParams : Fits(p, Min[p]) /\ Fits(p, Max[p]) /\ Fits(p, LoadedDefault(p))
  /\ \A w \in OtherWrites : w[1] \in RowParams => Fits(w[1], w[2])

-----------------------------------------------------------------------------
(* Registers on the wire: what be16dec, be32dec and their encoders compute *)
(* for a parameter whose first register is at offset w.                    *)

Decode(k, words, w) ==
  CASE k \in {"U08", "S08", "BOL"} -> Wrap(IF k = "BOL" THEN "U08" ELSE k, words[w] % 256)
    [] k \in {"U16", "S16"} -> Wrap(k, words[w])
    [] OTHER -> words[w] * U16 + words[w + 1]

Encode(k, w, n) ==
  IF Bytes[k] = 4 THEN [i \in {w, w + 1} |-> IF i = w THEN (n \div U16) % U16 ELSE n % U16]
                  ELSE [i \in {w} |-> n % U16]

\* The typed setter a row is written with: eBOL goes through that of a byte.
SetterKind(k) == IF k = "BOL" THEN "U08" ELSE k

Merge(f, g) == [x \in DOMAIN f \cup DOMAIN g |-> IF x \in DOMAIN g THEN g[x] ELSE f[x]]

-----------------------------------------------------------------------------
Init ==
  /\ pc = "idle" /\ req = None
  /\ idx_min = 0 /\ idx_max = 0 /\ idx_cur = 0 /\ index = 0
  /\ cur = 0 /\ tot_regs = 0 /\ index_buf = 0
  /\ reply = [i \in {} |-> 0]
  /\ resp = None
  /\ applied = [i \in {} |-> 0]
  /\ held = [p \in Params |-> {}]
  /\ var = [p \in Params |-> LoadedDefault(p)]

\* Seeded fault: an error path sets the answer but does not return.
RespondGoesOn(code) == resp' = code /\ UNCHANGED pc

Respond(code) == pc' = "done" /\ resp' = code

\* Seeded fault: the bounds of the table are not checked before the search.
ReceiveUnchecked ==
  /\ pc = "idle"
  /\ \E r \in Requests :
       /\ req' = r /\ pc' = "search"
       /\ idx_min' = 0 /\ idx_max' = TableLen[r.tb] - 1
  /\ UNCHANGED <<idx_cur, index, walk, reply, resp, applied, held, var>>

\* Seeded fault: the last address of the table is refused.
ReceiveOffByOne ==
  /\ pc = "idle"
  /\ \E r \in Requests :
       /\ req' = r
       /\ idx_min' = 0 /\ idx_max' = TableLen[r.tb] - 1
       /\ IF r.addr < Addr(r.tb, 0) \/ r.addr >= Addr(r.tb, TableLen[r.tb] - 1)
            THEN Respond("MB_ENOREG")
            ELSE pc' = "search" /\ UNCHANGED resp
  /\ UNCHANGED <<idx_cur, index, walk, reply, applied, held, var>>

\* A callback is called; mdb_slv_search_reg refuses at once an address
\* outside the table.
Receive ==
  /\ pc = "idle"
  /\ \E r \in Requests :
       /\ req' = r
       /\ idx_min' = 0 /\ idx_max' = TableLen[r.tb] - 1
       /\ IF r.addr < Addr(r.tb, 0) \/ r.addr > Addr(r.tb, TableLen[r.tb] - 1)
            THEN Respond("MB_ENOREG")
            ELSE pc' = "search" /\ UNCHANGED resp
  /\ UNCHANGED <<idx_cur, index, walk, reply, applied, held, var>>

Middle == ((idx_max + idx_min) \div 2) % U16

\* Seeded fault: the lower bound stays on the row just tried.
AtMiddle == Middle

AboveMiddle == (Middle + 1) % U16
BelowMiddle == (Middle - 1) % U16

\* One turn of the loop of mdb_slv_search_reg, which goes on for as long as
\* find_result is -ENOENT: an empty interval leaves it so.
SearchStep ==
  /\ pc = "search"
  /\ idx_cur' = Middle
  /\ \/ /\ idx_max < idx_min
        /\ UNCHANGED <<pc, idx_min, idx_max, index, walk>>
     \/ /\ idx_max >= idx_min /\ Addr(req.tb, Middle) < req.addr
        /\ idx_min' = AboveMiddle
        /\ UNCHANGED <<pc, idx_max, index, walk>>
     \/ /\ idx_max >= idx_min /\ Addr(req.tb, Middle) > req.addr
        /\ idx_max' = BelowMiddle
        /\ UNCHANGED <<pc, idx_min, index, walk>>
     \/ /\ idx_max >= idx_min /\ Addr(req.tb, Middle) = req.addr
        /\ index' = Middle /\ cur' = Middle
        /\ tot_regs' = 0 /\ index_buf' = 0
        /\ pc' = "check"
        /\ UNCHANGED <<idx_min, idx_max>>
  /\ UNCHANGED <<req, reply, resp, applied, held, var>>

\* Seeded fault: the access goes on from the last row checked.
StartAccessAtCur ==
  /\ pc' = req.fn
  /\ tot_regs' = 0 /\ index_buf' = 0
  /\ held' = [p \in Params |-> IF req.fn = "read" THEN {var[p]} ELSE {}]
  /\ UNCHANGED <<cur, resp>>

\* The access starts over at the row found, with a ctrl of its own.
StartAccess ==
  /\ pc' = req.fn
  /\ cur' = index /\ tot_regs' = 0 /\ index_buf' = 0
  /\ held' = [p \in Params |-> IF req.fn = "read" THEN {var[p]} ELSE {}]
  /\ UNCHANGED resp

\* Seeded fault: the check takes any next row.
NextRowAnywhere == cur + 1 < TableLen[req.tb]

\* There is a next row and its address is the next one.
NextRowFollows ==
  /\ cur + 1 < TableLen[req.tb]
  /\ Addr(req.tb, cur) + NumRegs(req.tb, cur) = Addr(req.tb, cur + 1)

\* One turn of the loop of mdb_slv_check_list_regs.
CheckStep ==
  /\ pc = "check"
  /\ LET n == NumRegs(req.tb, cur)
         tot == tot_regs + n
     IN  \/ tot = req.num /\ StartAccess
         \/ tot > req.num /\ Respond("MB_EPORTERR") /\ UNCHANGED <<walk, held>>
         \/ /\ tot < req.num /\ ~NextRowFollows
            /\ Respond("MB_EPORTERR") /\ UNCHANGED <<walk, held>>
         \/ /\ tot < req.num /\ NextRowFollows
            /\ tot_regs' = tot /\ cur' = cur + 1
            /\ UNCHANGED <<pc, resp, index_buf, held>>
  /\ UNCHANGED <<req, search, index, reply, applied, var>>

\* Seeded fault: a byte does not take a whole register of the buffer.
AdvanceWithoutPad ==
  /\ tot_regs' = tot_regs + NumRegs(req.tb, cur)
  /\ index_buf' = index_buf + Size(req.tb, cur)
  /\ cur' = cur + 1

\* index_buf moves by the size of the variable, and one more for a byte.
Advance ==
  /\ tot_regs' = tot_regs + NumRegs(req.tb, cur)
  /\ index_buf' = index_buf + Size(req.tb, cur) + (IF Size(req.tb, cur) = 1 THEN 1 ELSE 0)
  /\ cur' = cur + 1

\* One turn of the loop of mdb_slv_parse_string_and_set_register.
WriteStep ==
  /\ pc = "write" /\ tot_regs < req.num
  /\ LET p == Regs[req.tb][cur].p
         n == Decode(Kind[p], req.words, index_buf \div 2)
         o == SetNumber(SetterKind(Kind[p]), p, FACTORY, n, var[p])
     IN  IF o.code \in Errors
           THEN /\ Respond("MB_EPORTERR")
                /\ UNCHANGED <<walk, applied, var>>
           ELSE /\ Advance
                /\ var' = [var EXCEPT ![p] = o.value]
                /\ applied' = Merge(applied, [i \in {cur} |-> o.value])
                /\ UNCHANGED <<pc, resp>>
  /\ UNCHANGED <<req, search, index, reply, held>>

\* One turn of the loop of mdb_slv_get_register_and_mount_string.
ReadStep ==
  /\ pc = "read" /\ tot_regs < req.num
  /\ LET p == Regs[req.tb][cur].p
         o == GetNumber(SetterKind(Kind[p]), p, FACTORY, 0, var[p])
     IN  IF o.code \in Errors
           THEN Respond("MB_EPORTERR") /\ UNCHANGED <<walk, reply>>
           ELSE /\ Advance
                /\ reply' = Merge(reply, Encode(Kind[p], index_buf \div 2, o.out))
                /\ UNCHANGED <<pc, resp>>
  /\ UNCHANGED <<req, search, index, applied, held, var>>

\* A loop ends once it has handled as many registers as were asked for.
AccessDone ==
  /\ pc \in {"read", "write"} /\ tot_regs >= req.num
  /\ Respond("MB_ENOERR")
  /\ UNCHANGED <<req, search, index, walk, reply, applied, held, var>>

\* db_get_var_config or the access itself gives up on the semaphore.
DbTimeout ==
  /\ pc \in {"check", "read", "write"}
  /\ pc # "check" => tot_regs < req.num
  /\ Respond("MB_EPORTERR")
  /\ UNCHANGED <<req, search, index, walk, reply, applied, held, var>>

\* The callback returns to the server.
Return ==
  /\ pc = "done"
  /\ pc' = "idle" /\ req' = None /\ resp' = None
  /\ idx_min' = 0 /\ idx_max' = 0 /\ idx_cur' = 0 /\ index' = 0
  /\ cur' = 0 /\ tot_regs' = 0 /\ index_buf' = 0
  /\ reply' = [i \in {} |-> 0]
  /\ applied' = [i \in {} |-> 0]
  /\ held' = [p \in Params |-> {}]
  /\ UNCHANGED var

\* The main loop or the shell sets a parameter.
OtherWrite ==
  /\ \E w \in OtherWrites :
       /\ var' = [var EXCEPT ![w[1]] = w[2]]
       /\ held' = IF pc = "read" THEN [held EXCEPT ![w[1]] = @ \cup {w[2]}] ELSE held
  /\ UNCHANGED <<pc, req, search, index, walk, reply, resp, applied>>

Server == SearchStep \/ CheckStep \/ WriteStep \/ ReadStep \/ AccessDone \/ Return

Next == Receive \/ Server \/ DbTimeout \/ OtherWrite

Spec == Init /\ [][Next]_vars

\* The work queue runs the server; clients, other threads and timeouts are free.
FairSpec == Spec /\ WF_vars(Server)

-----------------------------------------------------------------------------
(* Properties.                                                             *)

TypeOK ==
  /\ pc \in {"idle", "search", "check", "read", "write", "done"}
  /\ (req = None \/ req \in Requests) /\ (pc = "idle" <=> req = None)
  /\ idx_min \in 0 .. U16 - 1 /\ idx_max \in 0 .. U16 - 1
  /\ idx_cur \in 0 .. U16 - 1 /\ index \in Nat
  /\ cur \in Nat /\ tot_regs \in Nat /\ index_buf \in Nat
  /\ resp \in {None, "MB_ENOERR", "MB_ENOREG", "MB_EPORTERR"}
  /\ resp # None => pc = "done"

\* The rows a .. e follow one another without a gap.
Contiguous(tb, a, e) ==
  \A i \in a .. e - 1 : Addr(tb, i) + NumRegs(tb, i) = Addr(tb, i + 1)

\* The rows a .. e are exactly n registers.
Covers(tb, a, e, n) ==
  /\ a \in Rows(tb) /\ e \in Rows(tb) /\ a <= e
  /\ Contiguous(tb, a, e)
  /\ Addr(tb, e) + NumRegs(tb, e) = Addr(tb, a) + n

\* The bisection never leaves the table: its 16-bit bounds do not wrap below
\* row 0 nor pass the last row, and the row it looks for, if the table has
\* one, stays between them (mdb_table_parse.c:216-273).
SearchStaysInTable ==
  pc = "search" =>
    /\ idx_min \in Rows(req.tb) /\ idx_max \in Rows(req.tb) /\ Middle \in Rows(req.tb)
    /\ \A i \in Rows(req.tb) : Addr(req.tb, i) = req.addr => i \in idx_min .. idx_max

\* An address is refused as unknown only when no row has it, and whatever is
\* accessed starts at the row that has it (mdb_table_parse.c:454-476).
FoundIsAsked ==
  /\ resp = "MB_ENOREG" => \A i \in Rows(req.tb) : Addr(req.tb, i) # req.addr
  /\ pc \in {"check", "read", "write"} =>
       index \in Rows(req.tb) /\ Addr(req.tb, index) = req.addr

\* The read and write loops stay inside the rows the check walked over and
\* inside the client's buffer, whose offset keeps in step with the registers
\* counted, and they end on the last register asked for (:92-214, :327-448).
AccessStaysInRequest ==
  pc \in {"read", "write"} =>
    \E e \in Rows(req.tb) :
      /\ Covers(req.tb, index, e, req.num)
      /\ cur \in index .. e + 1
      /\ index_buf = 2 * tot_regs
      /\ tot_regs = IF cur <= e THEN Addr(req.tb, cur) - req.addr ELSE req.num

\* What makes the three above inductive: the rows on either side of the
\* interval are known not to have the address, and the check has counted the
\* registers of the rows it left behind.
SearchInterval ==
  pc = "search" =>
    /\ idx_min \in Rows(req.tb) /\ idx_max \in Rows(req.tb)
    /\ Addr(req.tb, 0) <= req.addr /\ req.addr <= Addr(req.tb, TableLen[req.tb] - 1)
    /\ idx_min <= idx_max + 1
    /\ idx_min > 0 => Addr(req.tb, idx_min - 1) < req.addr
    /\ idx_max < TableLen[req.tb] - 1 => req.addr < Addr(req.tb, idx_max + 1)

CheckedSoFar ==
  pc = "check" =>
    /\ cur \in Rows(req.tb) /\ index <= cur
    /\ Contiguous(req.tb, index, cur)
    /\ tot_regs = Addr(req.tb, cur) - req.addr
    /\ index_buf = 0

IInv == TypeOK /\ SearchInterval /\ FoundIsAsked /\ CheckedSoFar /\ AccessStaysInRequest

\* The value the request has for row i was stored and is in its range.
StoredAt(i) ==
  LET p == Regs[req.tb][i].p
  IN  /\ applied[i] = Decode(Kind[p], req.words, Addr(req.tb, i) - req.addr)
      /\ InRange(p, applied[i])

\* The registers of row i in the reply come from one value its parameter had.
SentAt(i) ==
  LET p == Regs[req.tb][i].p
  IN  \E n \in held[p] :
        LET w == Encode(Kind[p], Addr(req.tb, i) - req.addr, n)
        IN  \A k \in DOMAIN w : reply[k] = w[k]

\* A success means all of it: the table has rows for exactly the registers
\* asked for, each was stored by this request or is in the reply, and each
\* register of the reply comes from one value its parameter really had while
\* the read loop ran, never from two (:92-214, :327-448).
SuccessIsComplete ==
  resp = "MB_ENOERR" =>
    \E e \in Rows(req.tb) :
      /\ Covers(req.tb, index, e, req.num)
      /\ req.fn = "write" => DOMAIN applied = index .. e /\ \A i \in index .. e : StoredAt(i)
      /\ req.fn = "read" => DOMAIN reply = 0 .. req.num - 1 /\ \A i \in index .. e : SentAt(i)

\* Whatever stops a write, what it did store is an initial part of the rows
\* asked for, in order: a request refused by the search or by the check, and
\* a read, store nothing (:454-521).
FailureStoresAPrefix ==
  req # None =>
    /\ DOMAIN applied = {} \/ (req.fn = "write" /\ DOMAIN applied = index .. cur - 1)
    /\ resp = "MB_ENOREG" \/ pc \in {"search", "check"} => applied = [i \in {} |-> 0]
    /\ \A i \in DOMAIN applied : Addr(req.tb, i) \in req.addr .. req.addr + req.num - 1

\* What makes these two inductive: a parameter holds a value of its type,
\* the one a read loop may meet included, and a loop has stored or sent the
\* rows it left behind, of which a refused request has none.
Values ==
  /\ var \in [Params -> Int] /\ held \in [Params -> SUBSET Int]
  /\ \A p \in RowParams : Fits(p, var[p])
  /\ pc = "read" => \A p \in Params : var[p] \in held[p]

NothingYet ==
  /\ pc \in {"idle", "search", "check", "read"} => applied = [i \in {} |-> 0]
  /\ pc \in {"idle", "search", "check", "write"} => reply = [i \in {} |-> 0]
  /\ pc \in {"read", "write"} => req.fn = pc

StoredSoFar ==
  pc = "write" => DOMAIN applied = index .. cur - 1 /\ \A i \in index .. cur - 1 : StoredAt(i)

SentSoFar ==
  pc = "read" => DOMAIN reply = 0 .. tot_regs - 1 /\ \A i \in index .. cur - 1 : SentAt(i)

DataInv ==
  /\ Values /\ NothingYet /\ StoredSoFar /\ SentSoFar
  /\ SuccessIsComplete /\ FailureStoresAPrefix

\* The server changes only parameters whose registers were asked for, and
\* only to values of their range, whatever the words of the request.
WritesAreConfined ==
  [][~OtherWrite =>
       \A p \in Params : var'[p] # var[p] =>
         /\ InRange(p, var'[p])
         /\ \E i \in Rows(req.tb) :
              /\ Regs[req.tb][i].p = p
              /\ req.addr <= Addr(req.tb, i)
              /\ Addr(req.tb, i) + NumRegs(req.tb, i) <= req.addr + req.num]_vars

\* A request for the address of a row, or for one outside the table, is
\* answered whatever the database and the other threads do, and the server
\* comes back for the next one: the bisection closes in and both loops end.
AddressBetweenRows ==
  pc = "search" /\ \A i \in Rows(req.tb) : Addr(req.tb, i) # req.addr

RequestsAnswered == (pc # "idle" /\ ~AddressBetweenRows) ~> pc = "idle"

\* Claim of the error path of an address without a row (mdb_table_parse.c:
\* 462-466, "Register not found!") and of MB_ENOREG (mdbcomm.h:136, "illegal
\* register address"): the addresses between two rows are answered as well.
EveryRequestAnswered == pc # "idle" ~> pc = "idle"
=============================================================================
