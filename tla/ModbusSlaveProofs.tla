-------------------------- MODULE ModbusSlaveProofs --------------------------
(***************************************************************************)
(* Proofs about ModbusSlave, for every sorted register table and every     *)
(* request: the bisection stays inside the table and finds the row asked   *)
(* for, the read and write loops stay inside the rows the check walked     *)
(* over and inside the buffer of the request, a success stored or sent all *)
(* of it, a failure stored an initial part, and no parameter but those     *)
(* asked for is changed, nor leaves its range.                             *)
(***************************************************************************)
EXTENDS ModbusSlave, TLAPS

-----------------------------------------------------------------------------
(* The tables and the requests.                                            *)

\* The number of 16-bit values.  Cited instead of the definition of U16: a
\* range with a literal bound is enumerated by the provers.
LEMMA U16Nat == U16 \in Nat /\ U16 > 2
  BY DEF U16

\* 16-bit arithmetic does not wrap below the bound.
LEMMA NoWrap == ASSUME NEW n \in Nat, n < U16 PROVE n % U16 = n
  BY DEF U16

\* The fields of a request have the types of the callbacks' parameters.
LEMMA RequestFields ==
  ASSUME NEW r \in Requests
  PROVE  /\ r.tb \in Tables /\ r.fn \in {"read", "write"}
         /\ r.addr \in Nat /\ r.num \in Nat
  BY RequestsAssumption, U16Nat DEF RequestsAssumption

\* A table has rows 0 to len - 1.
LEMMA TableRows ==
  ASSUME NEW tb \in Tables
  PROVE  /\ TableLen[tb] \in Nat /\ 0 < TableLen[tb] /\ TableLen[tb] < U16
         /\ Rows(tb) = 0 .. TableLen[tb] - 1
         /\ 0 \in Rows(tb) /\ TableLen[tb] - 1 \in Rows(tb)
  BY TablesAssumption, U16Nat DEF TablesAssumption, Rows

\* A row between two rows of a table is a row of it.
LEMMA RowBetween ==
  ASSUME NEW tb \in Tables, NEW i \in Rows(tb), NEW e \in Rows(tb),
         NEW c \in i .. e + 1, c <= e
  PROVE  c \in Rows(tb)
  <1>1. TableLen[tb] \in Nat /\ Rows(tb) = 0 .. TableLen[tb] - 1
    BY TableRows
  <1>2. i \in Nat /\ e \in Nat /\ e <= TableLen[tb] - 1
    BY <1>1
  <1>3. c \in 0 .. TableLen[tb] - 1
    BY <1>1, <1>2
  <1>4. QED
    BY <1>1, <1>3

\* A row has an address and takes one or two registers, half the bytes by
\* which index_buf moves.
LEMMA RowFields ==
  ASSUME NEW tb \in Tables, NEW i \in Rows(tb)
  PROVE  /\ i \in Nat /\ Addr(tb, i) \in Nat
         /\ NumRegs(tb, i) \in {1, 2}
         /\ Size(tb, i) \in {1, 2, 4}
         /\ Size(tb, i) + (IF Size(tb, i) = 1 THEN 1 ELSE 0) = 2 * NumRegs(tb, i)
  <1>1. i \in Nat
    BY TableRows
  <1>2. Addr(tb, i) \in Nat /\ Size(tb, i) \in {1, 2, 4}
    BY RowsAssumption DEF RowsAssumption
  <1>3. QED
    BY <1>1, <1>2 DEF NumRegs, RegsUsed

\* The rows are sorted and do not overlap.
LEMMA RowsSorted ==
  ASSUME NEW tb \in Tables, NEW i \in Rows(tb), NEW j \in Rows(tb), i < j
  PROVE  Addr(tb, i) + NumRegs(tb, i) <= Addr(tb, j) /\ Addr(tb, i) < Addr(tb, j)
  <1>1. Addr(tb, i) + NumRegs(tb, i) <= Addr(tb, j)
    BY SortedAssumption DEF SortedAssumption
  <1>2. QED
    BY <1>1, RowFields

\* The middle of two rows is a row between them.
LEMMA MiddleRow ==
  ASSUME NEW tb \in Tables, NEW lo \in Rows(tb), NEW hi \in Rows(tb), lo <= hi + 1
  PROVE  LET m == ((hi + lo) \div 2) % U16
         IN  /\ m \in Rows(tb)
             /\ lo <= hi => lo <= m /\ m <= hi
  <1>1. /\ lo \in Nat /\ hi \in Nat /\ lo < TableLen[tb] /\ hi < TableLen[tb]
        /\ TableLen[tb] \in Nat /\ TableLen[tb] < U16 /\ U16 \in Nat
    <2>1. TableLen[tb] \in Nat /\ TableLen[tb] < U16 /\ Rows(tb) = 0 .. TableLen[tb] - 1
      BY TableRows
    <2>2. lo \in 0 .. TableLen[tb] - 1 /\ hi \in 0 .. TableLen[tb] - 1
      BY <2>1
    <2>3. QED
      BY <2>1, <2>2, U16Nat
  <1>2. PICK h \in Nat : h = (hi + lo) \div 2
    BY <1>1
  <1>3. h < TableLen[tb] /\ (lo <= hi => lo <= h /\ h <= hi)
    BY <1>1, <1>2
  <1>4. h < U16
    BY <1>1, <1>3
  <1>5. h % U16 = h
    BY <1>4, NoWrap
  <1>6. h \in Rows(tb)
    BY <1>1, <1>3, TableRows
  <1>7. QED
    BY <1>2, <1>3, <1>5, <1>6

-----------------------------------------------------------------------------
(* The invariant and the steps.                                            *)

\* The request of a busy server has the fields of a request.
LEMMA BusyRequest ==
  ASSUME IInv, pc # "idle"
  PROVE  /\ req \in Requests
         /\ req.tb \in Tables /\ req.fn \in {"read", "write"}
         /\ req.addr \in Nat /\ req.num \in Nat
  BY RequestFields DEF IInv, TypeOK

LEMMA InitInv == Init => IInv
  <1> SUFFICES ASSUME Init PROVE IInv
    OBVIOUS
  <1>1. TypeOK
    <2>1. /\ idx_min \in 0 .. U16 - 1 /\ idx_max \in 0 .. U16 - 1
          /\ idx_cur \in 0 .. U16 - 1
      BY U16Nat DEF Init
    <2>2. QED
      BY <2>1 DEF Init, TypeOK
  <1>2. FoundIsAsked
    BY OthersAssumption DEF OthersAssumption, Init, FoundIsAsked
  <1>3. QED
    BY <1>1, <1>2 DEF Init, IInv, SearchInterval, CheckedSoFar, AccessStaysInRequest

\* An address outside the first and the last row has no row.
LEMMA OutsideTable ==
  ASSUME NEW tb \in Tables, NEW a \in Nat,
         a < Addr(tb, 0) \/ a > Addr(tb, TableLen[tb] - 1)
  PROVE  \A i \in Rows(tb) : Addr(tb, i) # a
  <1> SUFFICES ASSUME NEW i \in Rows(tb) PROVE Addr(tb, i) # a
    OBVIOUS
  <1>1. i \in Nat /\ i <= TableLen[tb] - 1 /\ TableLen[tb] \in Nat
    BY TableRows
  <1>2. i = 0 \/ Addr(tb, 0) < Addr(tb, i)
    BY <1>1, TableRows, RowsSorted
  <1>3. i = TableLen[tb] - 1 \/ Addr(tb, i) < Addr(tb, TableLen[tb] - 1)
    BY <1>1, TableRows, RowsSorted
  <1>4. /\ Addr(tb, i) \in Nat /\ Addr(tb, 0) \in Nat
        /\ Addr(tb, TableLen[tb] - 1) \in Nat
    BY RowFields, TableRows
  <1>5. QED
    BY <1>2, <1>3, <1>4

LEMMA ReceiveInv == IInv /\ Receive => IInv'
  <1> SUFFICES ASSUME IInv, pc = "idle", Receive PROVE IInv'
    BY DEF Receive
  <1>1. PICK r \in Requests :
          /\ req' = r
          /\ idx_min' = 0 /\ idx_max' = TableLen[r.tb] - 1
          /\ IF r.addr < Addr(r.tb, 0) \/ r.addr > Addr(r.tb, TableLen[r.tb] - 1)
               THEN Respond("MB_ENOREG")
               ELSE pc' = "search" /\ UNCHANGED resp
    BY DEF Receive
  <1>2. r.tb \in Tables /\ r.addr \in Nat /\ r # None /\ resp = None
    BY RequestFields, OthersAssumption DEF OthersAssumption, IInv, TypeOK
  <1>3. /\ TableLen[r.tb] \in Nat /\ 0 < TableLen[r.tb] /\ TableLen[r.tb] < U16
        /\ 0 \in Rows(r.tb) /\ TableLen[r.tb] - 1 \in Rows(r.tb)
        /\ Addr(r.tb, 0) \in Nat /\ Addr(r.tb, TableLen[r.tb] - 1) \in Nat
    BY <1>2, TableRows, RowFields
  <1>4. UNCHANGED <<idx_cur, index, cur, tot_regs, index_buf>>
    BY DEF Receive, walk
  <1>5. CASE r.addr < Addr(r.tb, 0) \/ r.addr > Addr(r.tb, TableLen[r.tb] - 1)
    <2>1. pc' = "done" /\ resp' = "MB_ENOREG"
      BY <1>1, <1>5 DEF Respond
    <2>2. TypeOK'
      BY <2>1, <1>1, <1>2, <1>3, <1>4, U16Nat DEF IInv, TypeOK
    <2>3. FoundIsAsked'
      BY <2>1, <1>1, <1>2, <1>5, OutsideTable DEF FoundIsAsked
    <2>4. QED
      BY <2>1, <2>2, <2>3 DEF IInv, SearchInterval, CheckedSoFar, AccessStaysInRequest
  <1>6. CASE ~(r.addr < Addr(r.tb, 0) \/ r.addr > Addr(r.tb, TableLen[r.tb] - 1))
    <2>1. pc' = "search" /\ resp' = None
      BY <1>1, <1>2, <1>6
    <2>2. TypeOK'
      BY <2>1, <1>1, <1>2, <1>3, <1>4, U16Nat DEF IInv, TypeOK
    <2>3. SearchInterval'
      BY <2>1, <1>1, <1>2, <1>3, <1>6 DEF SearchInterval
    <2>4. FoundIsAsked'
      BY <2>1, OthersAssumption DEF OthersAssumption, FoundIsAsked
    <2>5. QED
      BY <2>1, <2>2, <2>3, <2>4 DEF IInv, CheckedSoFar, AccessStaysInRequest
  <1>7. QED
    BY <1>5, <1>6

\* A turn of the bisection keeps the address inside the interval, or finds it.
LEMMA SearchStepInv == IInv /\ SearchStep => IInv'
  <1> SUFFICES ASSUME IInv, pc = "search", SearchStep PROVE IInv'
    BY DEF SearchStep
  <1> DEFINE tb == req.tb
             last == TableLen[tb] - 1
             m == Middle
  <1>1. req \in Requests /\ tb \in Tables /\ req.addr \in Nat
    BY BusyRequest
  <1>2. SearchInterval /\ TypeOK /\ resp = None
    BY DEF IInv, TypeOK
  <1>3. /\ idx_min \in Rows(tb) /\ idx_max \in Rows(tb)
        /\ Addr(tb, 0) <= req.addr /\ req.addr <= Addr(tb, last)
        /\ idx_min <= idx_max + 1
        /\ idx_min > 0 => Addr(tb, idx_min - 1) < req.addr
        /\ idx_max < last => req.addr < Addr(tb, idx_max + 1)
    BY <1>2 DEF SearchInterval
  <1>4. m \in Rows(tb) /\ (idx_min <= idx_max => idx_min <= m /\ m <= idx_max)
    BY <1>1, <1>3, MiddleRow DEF Middle
  <1>5. /\ m \in Nat /\ m <= last /\ last \in Nat /\ last + 1 < U16
        /\ idx_min \in Nat /\ idx_max \in Nat /\ idx_max <= last
        /\ Rows(tb) = 0 .. last /\ U16 \in Nat
    <2>1. /\ TableLen[tb] \in Nat /\ 0 < TableLen[tb] /\ TableLen[tb] < U16
          /\ Rows(tb) = 0 .. last
      BY <1>1, TableRows
    <2>2. last \in Nat /\ last + 1 < U16 /\ U16 \in Nat
      BY <2>1, U16Nat
    <2>3. m \in 0 .. last /\ idx_min \in 0 .. last /\ idx_max \in 0 .. last
      BY <2>1, <1>3, <1>4
    <2>4. QED
      BY <2>1, <2>2, <2>3
  <1>6. /\ Addr(tb, m) \in Nat /\ Addr(tb, 0) \in Nat /\ Addr(tb, last) \in Nat
        /\ 0 \in Rows(tb) /\ last \in Rows(tb)
    BY <1>1, <1>4, TableRows, RowFields
  <1>7. UNCHANGED <<req, resp>> /\ idx_cur' = m
    BY DEF SearchStep
  <1>8. CASE UNCHANGED <<pc, idx_min, idx_max, index, walk>>
    <2>1. TypeOK'
      BY <1>2, <1>5, <1>7, <1>8 DEF TypeOK, walk
    <2>2. SearchInterval'
      BY <1>2, <1>7, <1>8 DEF SearchInterval
    <2>3. FoundIsAsked'
      BY <1>2, <1>7, <1>8, OthersAssumption DEF OthersAssumption, FoundIsAsked
    <2>4. QED
      BY <2>1, <2>2, <2>3, <1>8 DEF IInv, CheckedSoFar, AccessStaysInRequest
  <1>9. CASE /\ idx_max >= idx_min /\ Addr(tb, m) < req.addr
             /\ idx_min' = (m + 1) % U16
             /\ UNCHANGED <<pc, idx_max, index, walk>>
    <2>1. m < last
      BY <1>1, <1>3, <1>5, <1>6, <1>9
    <2>2. m + 1 \in Nat /\ m + 1 < U16
      BY <2>1, <1>5
    <2>3. idx_min' = m + 1
      BY <2>2, <1>9, NoWrap
    <2>4. TypeOK'
      BY <2>2, <2>3, <1>2, <1>5, <1>7, <1>9 DEF TypeOK, walk
    <2>5. SearchInterval'
      <3>1. idx_min' \in Rows(tb) /\ idx_min' <= idx_max + 1 /\ idx_min' - 1 = m
        BY <2>1, <2>3, <1>4, <1>5, <1>9
      <3>2. QED
        BY <3>1, <1>2, <1>3, <1>7, <1>9 DEF SearchInterval
    <2>6. FoundIsAsked'
      BY <1>2, <1>7, <1>9, OthersAssumption DEF OthersAssumption, FoundIsAsked
    <2>7. QED
      BY <2>4, <2>5, <2>6, <1>9 DEF IInv, CheckedSoFar, AccessStaysInRequest
  <1>10. CASE /\ idx_max >= idx_min /\ Addr(tb, m) > req.addr
              /\ idx_max' = (m - 1) % U16
              /\ UNCHANGED <<pc, idx_min, index, walk>>
    <2>1. m > 0
      BY <1>1, <1>3, <1>5, <1>6, <1>10
    <2>2. m - 1 \in Nat /\ m - 1 < U16
      BY <2>1, <1>5
    <2>3. idx_max' = m - 1
      BY <2>2, <1>10, NoWrap
    <2>4. TypeOK'
      BY <2>2, <2>3, <1>2, <1>5, <1>7, <1>10 DEF TypeOK, walk
    <2>5. SearchInterval'
      <3>1. idx_max' \in Rows(tb) /\ idx_min <= idx_max' + 1 /\ idx_max' + 1 = m
        <4>1. idx_min <= m
          BY <1>4, <1>10, <1>5
        <4>2. m - 1 \in 0 .. last /\ m - 1 + 1 = m /\ idx_min <= m - 1 + 1
          BY <4>1, <2>1, <1>5
        <4>3. QED
          BY <4>2, <2>3, <1>5
      <3>2. QED
        BY <3>1, <1>2, <1>3, <1>7, <1>10 DEF SearchInterval
    <2>6. FoundIsAsked'
      BY <1>2, <1>7, <1>10, OthersAssumption DEF OthersAssumption, FoundIsAsked
    <2>7. QED
      BY <2>4, <2>5, <2>6, <1>10 DEF IInv, CheckedSoFar, AccessStaysInRequest
  <1>11. CASE /\ Addr(tb, m) = req.addr
              /\ index' = m /\ cur' = m
              /\ tot_regs' = 0 /\ index_buf' = 0
              /\ pc' = "check"
              /\ UNCHANGED <<idx_min, idx_max>>
    <2>1. TypeOK'
      BY <1>2, <1>5, <1>7, <1>11 DEF TypeOK
    <2>2. FoundIsAsked'
      BY <1>2, <1>4, <1>7, <1>11, OthersAssumption DEF OthersAssumption, FoundIsAsked
    <2>3. CheckedSoFar'
      <3>1. Contiguous(tb, m, m)
        BY <1>5 DEF Contiguous
      <3>2. QED
        BY <3>1, <1>4, <1>5, <1>6, <1>7, <1>11 DEF CheckedSoFar
    <2>4. QED
      BY <2>1, <2>2, <2>3, <1>11 DEF IInv, SearchInterval, AccessStaysInRequest
  <1>12. QED
    BY <1>8, <1>9, <1>10, <1>11 DEF SearchStep, AboveMiddle, BelowMiddle

\* A turn of the check extends the rows counted, or starts the access at the
\* row found with rows checked up to this one.
LEMMA CheckStepInv == IInv /\ CheckStep => IInv'
  <1> SUFFICES ASSUME IInv, pc = "check", CheckStep PROVE IInv'
    BY DEF CheckStep
  <1> DEFINE tb == req.tb
             n == NumRegs(tb, cur)
  <1>1. /\ req \in Requests /\ tb \in Tables /\ req.addr \in Nat /\ req.num \in Nat
        /\ req.fn \in {"read", "write"}
    BY BusyRequest
  <1>2. TypeOK /\ resp = None /\ index \in Rows(tb) /\ Addr(tb, index) = req.addr
    BY DEF IInv, TypeOK, FoundIsAsked
  <1>3. /\ cur \in Rows(tb) /\ index <= cur
        /\ Contiguous(tb, index, cur)
        /\ tot_regs = Addr(tb, cur) - req.addr
        /\ index_buf = 0
    BY DEF IInv, CheckedSoFar
  <1>4. /\ index \in Nat /\ cur \in Nat /\ n \in Nat /\ Addr(tb, cur) \in Nat
        /\ tot_regs \in Nat
    BY <1>1, <1>2, <1>3, RowFields DEF TypeOK
  <1>5. UNCHANGED <<req, idx_min, idx_max, idx_cur, index>>
    BY DEF CheckStep, search
  <1>6. CASE tot_regs + n = req.num /\ StartAccess
    <2>1. /\ pc' = req.fn /\ cur' = index /\ tot_regs' = 0 /\ index_buf' = 0
          /\ resp' = resp
      BY <1>6 DEF StartAccess
    <2>2. TypeOK'
      BY <2>1, <1>1, <1>2, <1>4, <1>5, U16Nat DEF TypeOK
    <2>3. FoundIsAsked'
      BY <2>1, <1>2, <1>5, OthersAssumption DEF OthersAssumption, FoundIsAsked
    <2>4. AccessStaysInRequest'
      <3>1. Covers(tb, index, cur, req.num)
        BY <1>1, <1>2, <1>3, <1>4, <1>6 DEF Covers
      <3>2. index \in index .. cur + 1
        BY <1>3, <1>4
      <3>3. 0 = Addr(tb, index) - req.addr
        BY <1>1, <1>2
      <3>4. QED
        BY <2>1, <3>1, <3>2, <3>3, <1>3, <1>5 DEF AccessStaysInRequest
    <2>5. QED
      BY <2>1, <2>2, <2>3, <2>4, <1>1 DEF IInv, SearchInterval, CheckedSoFar
  <1>7. CASE Respond("MB_EPORTERR") /\ UNCHANGED <<walk, held>>
    <2>1. pc' = "done" /\ resp' = "MB_EPORTERR" /\ UNCHANGED <<cur, tot_regs, index_buf>>
      BY <1>7 DEF Respond, walk
    <2>2. TypeOK'
      BY <2>1, <1>2, <1>5 DEF TypeOK
    <2>3. QED
      BY <2>1, <2>2 DEF IInv, SearchInterval, FoundIsAsked, CheckedSoFar, AccessStaysInRequest
  <1>8. CASE /\ tot_regs + n < req.num /\ NextRowFollows
             /\ tot_regs' = tot_regs + n /\ cur' = cur + 1
             /\ UNCHANGED <<pc, resp, index_buf, held>>
    <2>1. cur + 1 \in Rows(tb) /\ Addr(tb, cur) + n = Addr(tb, cur + 1)
      BY <1>1, <1>4, <1>8, TableRows DEF NextRowFollows
    <2>2. TypeOK'
      BY <1>2, <1>4, <1>5, <1>8 DEF TypeOK
    <2>3. Contiguous(tb, index, cur + 1)
      <3> SUFFICES ASSUME NEW i \in index .. cur
                   PROVE  Addr(tb, i) + NumRegs(tb, i) = Addr(tb, i + 1)
        BY <1>4 DEF Contiguous
      <3>1. CASE i = cur
        BY <3>1, <2>1
      <3>2. CASE i < cur
        BY <3>2, <1>3, <1>4 DEF Contiguous
      <3>3. QED
        BY <3>1, <3>2, <1>4
    <2>4. tot_regs + n = Addr(tb, cur + 1) - req.addr /\ index <= cur + 1
      BY <2>1, <1>1, <1>3, <1>4
    <2>5. CheckedSoFar'
      BY <2>1, <2>3, <2>4, <1>3, <1>5, <1>8 DEF CheckedSoFar
    <2>6. FoundIsAsked'
      BY <1>2, <1>5, <1>8, OthersAssumption DEF OthersAssumption, FoundIsAsked
    <2>7. QED
      BY <2>2, <2>5, <2>6, <1>8 DEF IInv, SearchInterval, AccessStaysInRequest
  <1>9. QED
    BY <1>6, <1>7, <1>8 DEF CheckStep

\* A turn of the read or of the write loop stays inside the request: the rows
\* are contiguous, so the next one is where the register count says.
LEMMA AdvanceInv ==
  ASSUME IInv, pc \in {"read", "write"}, tot_regs < req.num,
         Advance, UNCHANGED <<pc, req, index, resp, search>>
  PROVE  IInv'
  <1> DEFINE tb == req.tb
             n == NumRegs(tb, cur)
  <1>1. tb \in Tables /\ req.addr \in Nat /\ req.num \in Nat
    BY BusyRequest
  <1>2. TypeOK /\ resp = None /\ index \in Rows(tb) /\ Addr(tb, index) = req.addr
    BY DEF IInv, TypeOK, FoundIsAsked
  <1>3. PICK e \in Rows(tb) :
          /\ Covers(tb, index, e, req.num)
          /\ cur \in index .. e + 1
          /\ index_buf = 2 * tot_regs
          /\ tot_regs = IF cur <= e THEN Addr(tb, cur) - req.addr ELSE req.num
    BY DEF IInv, AccessStaysInRequest
  <1>4. /\ e \in Nat /\ cur \in Nat /\ index \in Nat /\ tot_regs \in Nat
        /\ index_buf \in Nat /\ cur <= e /\ index <= cur
    <2>1. /\ e \in Nat /\ cur \in Nat /\ index \in Nat /\ tot_regs \in Nat
          /\ index_buf \in Nat
      BY <1>1, <1>2, <1>3, RowFields DEF TypeOK
    <2>2. cur <= e
      BY <2>1, <1>1, <1>3
    <2>3. index <= cur
      BY <2>1, <1>3
    <2>4. QED
      BY <2>1, <2>2, <2>3
  <1>5. cur \in Rows(tb)
    BY <1>1, <1>2, <1>3, <1>4, RowBetween
  <1>6. n \in {1, 2} /\ Addr(tb, cur) \in Nat /\ Size(tb, cur) \in {1, 2, 4}
    BY <1>1, <1>5, RowFields
  <1>7. /\ tot_regs' = tot_regs + n
        /\ index_buf' = index_buf + 2 * n
        /\ cur' = cur + 1
    <2>1. Size(tb, cur) + (IF Size(tb, cur) = 1 THEN 1 ELSE 0) = 2 * n
      BY <1>1, <1>5, RowFields
    <2>2. index_buf + Size(tb, cur) + (IF Size(tb, cur) = 1 THEN 1 ELSE 0)
            = index_buf + (Size(tb, cur) + (IF Size(tb, cur) = 1 THEN 1 ELSE 0))
      BY <1>4, <1>6
    <2>3. QED
      BY <2>1, <2>2 DEF Advance
  <1>8. tot_regs' = IF cur' <= e THEN Addr(tb, cur') - req.addr ELSE req.num
    <2>1. CASE cur < e
      <3>1. Addr(tb, cur) + n = Addr(tb, cur + 1)
        BY <2>1, <1>3, <1>4 DEF Covers, Contiguous
      <3>2. QED
        BY <2>1, <3>1, <1>1, <1>3, <1>4, <1>6, <1>7
    <2>2. CASE cur = e
      <3>1. Addr(tb, cur) + n = req.addr + req.num
        BY <2>2, <1>2, <1>3 DEF Covers
      <3>2. QED
        BY <2>2, <3>1, <1>1, <1>3, <1>4, <1>6, <1>7
    <2>3. QED
      BY <2>1, <2>2, <1>4
  <1>9. AccessStaysInRequest'
    <2>1. cur' \in index .. e + 1 /\ index_buf' = 2 * tot_regs'
      BY <1>3, <1>4, <1>6, <1>7
    <2>2. QED
      BY <2>1, <1>3, <1>8 DEF AccessStaysInRequest
  <1>10. TypeOK'
    <2>1. cur' \in Nat /\ tot_regs' \in Nat /\ index_buf' \in Nat
      BY <1>4, <1>6, <1>7
    <2>2. QED
      BY <2>1, <1>2 DEF TypeOK, search
  <1>11. FoundIsAsked'
    BY <1>2, OthersAssumption DEF OthersAssumption, FoundIsAsked
  <1>12. QED
    BY <1>9, <1>10, <1>11 DEF IInv, SearchInterval, CheckedSoFar

\* A request that is answered with anything but MB_ENOREG, which only the
\* search does, leaves nothing to show.
LEMMA RespondInv ==
  ASSUME IInv, pc # "idle", NEW code \in {"MB_ENOERR", "MB_EPORTERR"}, Respond(code),
         UNCHANGED <<req, search, index, walk>>
  PROVE  IInv'
  <1>1. pc' = "done" /\ resp' = code
    BY DEF Respond
  <1>2. TypeOK'
    BY <1>1 DEF IInv, TypeOK, search, walk
  <1>3. QED
    BY <1>1, <1>2 DEF IInv, SearchInterval, FoundIsAsked, CheckedSoFar, AccessStaysInRequest

LEMMA WriteStepInv == IInv /\ WriteStep => IInv'
  <1> SUFFICES ASSUME IInv, WriteStep PROVE IInv'
    OBVIOUS
  <1>1. /\ pc = "write" /\ tot_regs < req.num
        /\ UNCHANGED <<req, search, index>>
    BY DEF WriteStep
  <1>2. \/ Respond("MB_EPORTERR") /\ UNCHANGED walk
        \/ Advance /\ UNCHANGED <<pc, resp>>
    BY ZenonT(30) DEF WriteStep
  <1>3. QED
    BY <1>1, <1>2, RespondInv, AdvanceInv

LEMMA ReadStepInv == IInv /\ ReadStep => IInv'
  <1> SUFFICES ASSUME IInv, ReadStep PROVE IInv'
    OBVIOUS
  <1>1. /\ pc = "read" /\ tot_regs < req.num
        /\ UNCHANGED <<req, search, index>>
    BY DEF ReadStep
  <1>2. \/ Respond("MB_EPORTERR") /\ UNCHANGED walk
        \/ Advance /\ UNCHANGED <<pc, resp>>
    BY DEF ReadStep
  <1>3. QED
    BY <1>1, <1>2, RespondInv, AdvanceInv

LEMMA AccessEndsInv == IInv /\ (AccessDone \/ DbTimeout) => IInv'
  <1> SUFFICES ASSUME IInv, AccessDone \/ DbTimeout PROVE IInv'
    OBVIOUS
  <1>1. /\ pc # "idle" /\ UNCHANGED <<req, search, index, walk>>
        /\ Respond("MB_ENOERR") \/ Respond("MB_EPORTERR")
    BY DEF AccessDone, DbTimeout
  <1>2. QED
    BY <1>1, RespondInv

LEMMA ReturnInv == IInv /\ Return => IInv'
  <1> SUFFICES ASSUME Return PROVE IInv'
    OBVIOUS
  <1>1. TypeOK'
    <2>1. /\ idx_min' \in 0 .. U16 - 1 /\ idx_max' \in 0 .. U16 - 1
          /\ idx_cur' \in 0 .. U16 - 1
      BY U16Nat DEF Return
    <2>2. QED
      BY <2>1 DEF Return, TypeOK
  <1>2. FoundIsAsked'
    BY OthersAssumption DEF OthersAssumption, Return, FoundIsAsked
  <1>3. QED
    BY <1>1, <1>2 DEF Return, IInv, SearchInterval, CheckedSoFar, AccessStaysInRequest

\* Other threads only touch the database.
LEMMA UnchangedInv ==
  IInv /\ UNCHANGED <<pc, req, search, index, walk, resp>> => IInv'
  BY DEF IInv, TypeOK, SearchInterval, FoundIsAsked, CheckedSoFar, AccessStaysInRequest,
         search, walk

LEMMA NextInv == IInv /\ [Next]_vars => IInv'
  <1> SUFFICES ASSUME IInv, [Next]_vars PROVE IInv'
    OBVIOUS
  <1>1. CASE OtherWrite
    BY <1>1, UnchangedInv DEF OtherWrite
  <1>2. CASE UNCHANGED vars
    BY <1>2, UnchangedInv DEF vars
  <1>3. QED
    BY <1>1, <1>2, ReceiveInv, SearchStepInv, CheckStepInv, WriteStepInv, ReadStepInv,
       AccessEndsInv, ReturnInv DEF Next, Server

-----------------------------------------------------------------------------
(* The theorems.                                                           *)

\* The inductive invariant: what each phase of a request knows of the table.
THEOREM Invariance == Spec => []IInv
  BY InitInv, NextInv, PTL DEF Spec

\* Every variable of the server keeps its type: no counter, offset or bound
\* of mdb_table_parse.c goes below zero or past 16 bits.
THEOREM TypeCorrect == Spec => []TypeOK
  <1>1. IInv => TypeOK
    BY DEF IInv
  <1>2. QED
    BY <1>1, Invariance, PTL

\* Whatever the table, a request that starts to touch the database starts at
\* the row with its address, and MB_ENOREG is only said of an address no row
\* has.
THEOREM SearchIsRight == Spec => []FoundIsAsked
  <1>1. IInv => FoundIsAsked
    BY DEF IInv
  <1>2. QED
    BY <1>1, Invariance, PTL

\* Whatever the table and the request, the read and write loops stay within
\* the rows checked and within the buffer.
THEOREM AccessIsConfined == Spec => []AccessStaysInRequest
  <1>1. IInv => AccessStaysInRequest
    BY DEF IInv
  <1>2. QED
    BY <1>1, Invariance, PTL

\* The interval of the bisection stays in the table and keeps the row looked
\* for.
LEMMA IntervalKeepsRow == IInv => SearchStaysInTable
  <1> SUFFICES ASSUME IInv, pc = "search" PROVE SearchStaysInTable
    BY DEF SearchStaysInTable
  <1> DEFINE tb == req.tb
  <1>1. tb \in Tables /\ req.addr \in Nat
    BY BusyRequest
  <1>2. /\ idx_min \in Rows(tb) /\ idx_max \in Rows(tb)
        /\ idx_min <= idx_max + 1
        /\ idx_min > 0 => Addr(tb, idx_min - 1) < req.addr
        /\ idx_max < TableLen[tb] - 1 => req.addr < Addr(tb, idx_max + 1)
    BY DEF IInv, SearchInterval
  <1>3. Middle \in Rows(tb)
    BY <1>1, <1>2, MiddleRow DEF Middle
  <1>4. ASSUME NEW i \in Rows(tb), Addr(tb, i) = req.addr
        PROVE  i \in idx_min .. idx_max
    <2>1. /\ i \in Nat /\ idx_min \in Nat /\ idx_max \in Nat /\ TableLen[tb] \in Nat
          /\ i < TableLen[tb] /\ idx_min < TableLen[tb] /\ Rows(tb) = 0 .. TableLen[tb] - 1
      <3>1. TableLen[tb] \in Nat /\ Rows(tb) = 0 .. TableLen[tb] - 1
        BY <1>1, TableRows
      <3>2. i \in 0 .. TableLen[tb] - 1
        BY <3>1, <1>4
      <3>3. idx_min \in 0 .. TableLen[tb] - 1 /\ idx_max \in 0 .. TableLen[tb] - 1
        BY <3>1, <1>2
      <3>4. QED
        BY <3>1, <3>2, <3>3
    <2>2. ~(i < idx_min)
      <3> SUFFICES ASSUME i < idx_min PROVE FALSE
        OBVIOUS
      <3>1. idx_min - 1 \in Rows(tb) /\ idx_min - 1 \in Nat /\ idx_min > 0
        BY <2>1
      <3>2. Addr(tb, idx_min - 1) < Addr(tb, i) /\ Addr(tb, idx_min - 1) \in Nat
        BY <3>1, <1>1, <1>2, <1>4, RowFields
      <3>3. i = idx_min - 1 \/ i < idx_min - 1
        BY <2>1
      <3>4. i = idx_min - 1 \/ Addr(tb, i) < Addr(tb, idx_min - 1)
        BY <3>1, <3>3, <1>1, RowsSorted
      <3>5. QED
        BY <3>2, <3>4, <1>1, <1>4
    <2>3. ~(idx_max < i)
      <3> SUFFICES ASSUME idx_max < i PROVE FALSE
        OBVIOUS
      <3>1. idx_max + 1 \in Rows(tb) /\ idx_max + 1 \in Nat /\ idx_max < TableLen[tb] - 1
        BY <2>1
      <3>2. Addr(tb, i) < Addr(tb, idx_max + 1) /\ Addr(tb, idx_max + 1) \in Nat
        BY <3>1, <1>1, <1>2, <1>4, RowFields
      <3>3. i = idx_max + 1 \/ idx_max + 1 < i
        BY <2>1
      <3>4. i = idx_max + 1 \/ Addr(tb, idx_max + 1) < Addr(tb, i)
        BY <3>1, <3>3, <1>1, RowsSorted
      <3>5. QED
        BY <3>2, <3>4, <1>1, <1>4
    <2>4. QED
      BY <2>1, <2>2, <2>3
  <1>5. QED
    BY <1>2, <1>3, <1>4 DEF SearchStaysInTable

\* For every sorted table, the 16-bit bisection never indexes outside it and
\* never loses the row it looks for.
THEOREM SearchIsInTable == Spec => []SearchStaysInTable
  BY Invariance, IntervalKeepsRow, PTL

-----------------------------------------------------------------------------
(* The values: what a setter and a getter of the kind of a row compute.    *)

\* The number of values of one byte and of two.
LEMMA BytePowers ==
  ASSUME NEW w \in Int
  PROVE  /\ w = 1 => 256 ^ w = 256
         /\ w = 2 => 256 ^ w = 65536
  <1>1. ASSUME w = 1 PROVE 256 ^ w = 256
    BY <1>1
  <1>2. ASSUME w = 2 PROVE 256 ^ w = 65536
    BY <1>2
  <1>3. QED
    BY <1>1, <1>2

\* The conversion to each kind, width by width.
LEMMA WrapCases ==
  ASSUME NEW k \in IntKinds, NEW n \in Int
  PROVE  /\ k \in {"U32", "S32"} => Wrap(k, n) = n
         /\ k \in {"U08", "BOL"} => Wrap(k, n) = n % 256
         /\ k = "U16" => Wrap(k, n) = n % 65536
         /\ k = "S08" => Wrap(k, n) = IF n % 256 < 128 THEN n % 256 ELSE (n % 256) - 256
         /\ k = "S16" => Wrap(k, n) = IF n % 65536 < 32768 THEN n % 65536 ELSE (n % 65536) - 65536
  <1>1. /\ Bytes[k] \in Int
        /\ k \in {"U32", "S32"} => Bytes[k] = 4
        /\ k \in {"U08", "S08", "BOL"} => Bytes[k] = 1
        /\ k \in {"U16", "S16"} => Bytes[k] = 2
    BY DEF Bytes, IntKinds
  <1>2. /\ Bytes[k] = 1 => 256 ^ Bytes[k] = 256
        /\ Bytes[k] = 2 => 256 ^ Bytes[k] = 65536
    BY <1>1, BytePowers
  <1>3. Unsigned(Bytes[k], n) = n % (256 ^ Bytes[k])
    BY DEF Unsigned
  <1>4. /\ Bytes[k] = 1 => Unsigned(Bytes[k], n) = n % 256
        /\ Bytes[k] = 2 => Unsigned(Bytes[k], n) = n % 65536
    BY <1>2, <1>3
  <1>5. k \in {"U32", "S32"} => Wrap(k, n) = n
    BY <1>1 DEF Wrap
  <1>6. k \in {"U08", "BOL"} => Wrap(k, n) = n % 256
    <2>1. k \in {"U08", "BOL"} => Wrap(k, n) = Unsigned(Bytes[k], n)
      BY <1>1 DEF Wrap
    <2>2. QED
      BY <2>1, <1>1, <1>4
  <1>7. k = "U16" => Wrap(k, n) = n % 65536
    <2>1. k = "U16" => Wrap(k, n) = Unsigned(Bytes[k], n)
      BY <1>1 DEF Wrap
    <2>2. QED
      BY <2>1, <1>1, <1>4
  <1>8. k \in {"S08", "S16"} =>
          Wrap(k, n) = IF Unsigned(Bytes[k], n) < 256 ^ Bytes[k] \div 2
                         THEN Unsigned(Bytes[k], n) ELSE Unsigned(Bytes[k], n) - 256 ^ Bytes[k]
    BY <1>1 DEF Wrap
  <1>9. k = "S08" => Wrap(k, n) = IF n % 256 < 128 THEN n % 256 ELSE (n % 256) - 256
    BY <1>1, <1>2, <1>4, <1>8
  <1>10. k = "S16" => Wrap(k, n) = IF n % 65536 < 32768 THEN n % 65536 ELSE (n % 65536) - 65536
    BY <1>1, <1>2, <1>4, <1>8
  <1>11. QED
    BY <1>5, <1>6, <1>7, <1>9, <1>10

\* The values of a type are an interval.
LEMMA WrapConvex ==
  ASSUME NEW k \in IntKinds, NEW a \in Int, NEW b \in Int, NEW n \in Int,
         Wrap(k, a) = a, Wrap(k, b) = b, a <= n, n <= b
  PROVE  Wrap(k, n) = n
  <1>1. CASE k \in {"U32", "S32"}
    BY <1>1, WrapCases
  <1>2. CASE k \in {"U08", "BOL"}
    BY <1>2, WrapCases
  <1>3. CASE k = "U16"
    BY <1>3, WrapCases
  <1>4. CASE k = "S08"
    BY <1>4, WrapCases
  <1>5. CASE k = "S16"
    BY <1>5, WrapCases
  <1>6. QED
    BY <1>1, <1>2, <1>3, <1>4, <1>5 DEF IntKinds

\* The setter of a byte is that of a boolean.
LEMMA SetterWrap ==
  ASSUME NEW k \in IntKinds, NEW n \in Int
  PROVE  SetterKind(k) \in IntKinds /\ Wrap(SetterKind(k), n) = Wrap(k, n)
  BY WrapCases DEF SetterKind, IntKinds

\* What the assumptions say of a row's parameter.
LEMMA RowParam ==
  ASSUME NEW tb \in Tables, NEW i \in Rows(tb)
  PROVE  /\ Regs[tb][i].p \in RowParams /\ Regs[tb][i].p \in Params
         /\ Kind[Regs[tb][i].p] \in IntKinds
  BY RowsAssumption DEF RowsAssumption, RowParams

LEMMA ParamFits ==
  ASSUME NEW p \in RowParams
  PROVE  /\ p \in Params /\ Kind[p] \in IntKinds
         /\ Min[p] \in Int /\ Max[p] \in Int /\ LoadedDefault(p) \in Int
         /\ Fits(p, Min[p]) /\ Fits(p, Max[p]) /\ Fits(p, LoadedDefault(p))
  <1>1. p \in Params /\ Kind[p] \in IntKinds
    BY RowsAssumption DEF RowsAssumption, RowParams
  <1>2. Min[p] \in Int /\ Max[p] \in Int /\ Default[p] \in Int
    BY <1>1, TableAssumption DEF TableAssumption
  <1>3. LoadedDefault(p) \in Int
    BY <1>2 DEF LoadedDefault
  <1>4. QED
    BY <1>1, <1>2, <1>3, ValuesAssumption DEF ValuesAssumption

\* A set through the setter of a row that succeeds leaves the value asked
\* for in the parameter, and the value is in its range.
LEMMA SetNumberStores ==
  ASSUME NEW p \in RowParams, NEW a, NEW n, NEW x \in Int, Fits(p, x),
         SetNumber(SetterKind(Kind[p]), p, a, n, x).code \notin Errors
  PROVE  /\ SetNumber(SetterKind(Kind[p]), p, a, n, x).value = n
         /\ n \in Int /\ InRange(p, n) /\ Fits(p, n)
  <1> DEFINE k == SetterKind(Kind[p])
             o == SetNumber(k, p, a, n, x)
  <1>1. /\ Kind[p] \in IntKinds /\ k \in IntKinds
        /\ Min[p] \in Int /\ Max[p] \in Int
        /\ Wrap(k, Min[p]) = Min[p] /\ Wrap(k, Max[p]) = Max[p] /\ Wrap(k, x) = x
    BY ParamFits, SetterWrap DEF Fits
  <1>2. /\ n \in RangeAs(k, p)
        /\ o.value = IF Wrap(k, x) = n THEN x ELSE Wrap(Kind[p], n)
    <2>1. CASE a < AccessOf[p]
      BY <2>1 DEF SetNumber, Outcome, Errors
    <2>2. CASE ~(a < AccessOf[p]) /\ (Bytes[k] # VarSize[p] \/ n \notin RangeAs(k, p))
      BY <2>2 DEF SetNumber, Outcome, Errors
    <2>3. CASE ~(a < AccessOf[p]) /\ ~(Bytes[k] # VarSize[p] \/ n \notin RangeAs(k, p))
      BY <2>3 DEF SetNumber, Outcome
    <2>4. QED
      BY <2>1, <2>2, <2>3
  <1>3. n \in Int /\ Min[p] <= n /\ n <= Max[p]
    BY <1>1, <1>2 DEF RangeAs
  <1>4. Wrap(Kind[p], n) = n
    BY <1>1, <1>3, ParamFits, WrapConvex DEF Fits
  <1>5. QED
    BY <1>1, <1>2, <1>3, <1>4 DEF InRange, Fits

\* A get through the getter of a row that succeeds reads the parameter.
LEMMA GetNumberReads ==
  ASSUME NEW p \in RowParams, NEW a, NEW x \in Int, Fits(p, x),
         GetNumber(SetterKind(Kind[p]), p, a, 0, x).code \notin Errors
  PROVE  GetNumber(SetterKind(Kind[p]), p, a, 0, x).out = x
  <1> DEFINE k == SetterKind(Kind[p])
  <1>1. Wrap(k, x) = x
    BY ParamFits, SetterWrap DEF Fits
  <1>2. CASE a < AccessOf[p] \/ Bytes[k] # VarSize[p]
    BY <1>2 DEF GetNumber, Outcome, Errors
  <1>3. CASE ~(a < AccessOf[p] \/ Bytes[k] # VarSize[p])
    BY <1>1, <1>3 DEF GetNumber, Outcome
  <1>4. QED
    BY <1>2, <1>3

-----------------------------------------------------------------------------
(* What the loops have stored and sent.                                    *)

LEMMA InitData == Init => DataInv
  <1> SUFFICES ASSUME Init PROVE DataInv
    OBVIOUS
  <1>1. /\ pc = "idle" /\ req = None /\ resp = None
        /\ applied = [i \in {} |-> 0] /\ reply = [i \in {} |-> 0]
        /\ held = [p \in Params |-> {}] /\ var = [p \in Params |-> LoadedDefault(p)]
    BY DEF Init
  <1>2. \A p \in Params : LoadedDefault(p) \in Int
    BY TableAssumption DEF TableAssumption, LoadedDefault
  <1>3. \A p \in RowParams : p \in Params /\ Fits(p, LoadedDefault(p))
    BY ParamFits
  <1>4. Values
    BY <1>1, <1>2, <1>3 DEF Values
  <1>5. resp # "MB_ENOERR"
    BY <1>1, OthersAssumption DEF OthersAssumption
  <1>6. QED
    BY <1>1, <1>4, <1>5 DEF DataInv, NothingYet, StoredSoFar, SentSoFar, SuccessIsComplete,
       FailureStoresAPrefix

\* Nothing is stored by the search and the check.
LEMMA NothingStored ==
  ASSUME applied = [i \in {} |-> 0]
  PROVE  FailureStoresAPrefix
  <1>1. DOMAIN applied = {}
    OBVIOUS
  <1>2. QED
    BY <1>1 DEF FailureStoresAPrefix

LEMMA NothingStoredNext ==
  ASSUME applied' = [i \in {} |-> 0]
  PROVE  FailureStoresAPrefix'
  <1>1. DOMAIN applied' = {}
    OBVIOUS
  <1>2. QED
    BY <1>1 DEF FailureStoresAPrefix

LEMMA ReceiveData == IInv /\ DataInv /\ Receive => DataInv'
  <1> SUFFICES ASSUME IInv, DataInv, Receive PROVE DataInv'
    OBVIOUS
  <1>1. /\ pc = "idle" /\ UNCHANGED <<index, walk, reply, applied, held, var>>
        /\ pc' \in {"search", "done"}
        /\ resp' = resp \/ resp' = "MB_ENOREG"
    BY DEF Receive, Respond
  <1>2. resp = None
    BY <1>1 DEF IInv, TypeOK
  <1>3. applied = [i \in {} |-> 0] /\ reply = [i \in {} |-> 0]
    BY <1>1 DEF DataInv, NothingYet
  <1>4. FailureStoresAPrefix'
    BY <1>1, <1>3, NothingStoredNext
  <1>5. resp' # "MB_ENOERR"
    BY <1>1, <1>2, OthersAssumption DEF OthersAssumption
  <1>6. Values'
    BY <1>1 DEF DataInv, Values
  <1>7. NothingYet' /\ StoredSoFar' /\ SentSoFar'
    BY <1>1, <1>3 DEF NothingYet, StoredSoFar, SentSoFar
  <1>8. QED
    BY <1>4, <1>5, <1>6, <1>7 DEF DataInv, SuccessIsComplete

LEMMA SearchStepData == IInv /\ DataInv /\ SearchStep => DataInv'
  <1> SUFFICES ASSUME IInv, DataInv, SearchStep PROVE DataInv'
    OBVIOUS
  <1>1. /\ pc = "search" /\ UNCHANGED <<req, reply, resp, applied, held, var>>
        /\ pc' \in {"search", "check"}
    BY DEF SearchStep
  <1>2. resp = None
    BY <1>1 DEF IInv, TypeOK
  <1>3. applied = [i \in {} |-> 0] /\ reply = [i \in {} |-> 0]
    BY <1>1 DEF DataInv, NothingYet
  <1>4. FailureStoresAPrefix'
    BY <1>1, <1>3, NothingStoredNext
  <1>5. resp' # "MB_ENOERR"
    BY <1>1, <1>2, OthersAssumption DEF OthersAssumption
  <1>6. Values'
    BY <1>1 DEF DataInv, Values
  <1>7. NothingYet' /\ StoredSoFar' /\ SentSoFar'
    BY <1>1, <1>3 DEF NothingYet, StoredSoFar, SentSoFar
  <1>8. QED
    BY <1>4, <1>5, <1>6, <1>7 DEF DataInv, SuccessIsComplete

\* A request that fails keeps what it has stored so far.
LEMMA FailData ==
  ASSUME IInv, DataInv, pc \in {"check", "read", "write"}, Respond("MB_EPORTERR"),
         UNCHANGED <<req, index, walk, reply, applied, held, var>>
  PROVE  DataInv'
  <1>1. pc' = "done" /\ resp' = "MB_EPORTERR"
    BY DEF Respond
  <1>2. Values'
    BY <1>1 DEF DataInv, Values
  <1>3. FailureStoresAPrefix'
    <2>1. CASE pc = "write"
      <3>1. /\ DOMAIN applied' = index' .. cur' - 1 /\ req'.fn = "write"
        BY <2>1 DEF DataInv, NothingYet, StoredSoFar, walk
      <3>2. req # None
        BY BusyRequest, <2>1, OthersAssumption DEF OthersAssumption
      <3>3. \A i \in DOMAIN applied : Addr(req.tb, i) \in req.addr .. req.addr + req.num - 1
        BY <3>2 DEF DataInv, FailureStoresAPrefix
      <3>4. QED
        BY <3>1, <3>3, <1>1 DEF FailureStoresAPrefix
    <2>2. CASE pc # "write"
      BY <2>2, NothingStoredNext DEF DataInv, NothingYet
    <2>3. QED
      BY <2>1, <2>2
  <1>4. QED
    BY <1>1, <1>2, <1>3 DEF DataInv, NothingYet, StoredSoFar, SentSoFar, SuccessIsComplete

LEMMA CheckStepData == IInv /\ DataInv /\ CheckStep => DataInv'
  <1> SUFFICES ASSUME IInv, DataInv, CheckStep PROVE DataInv'
    OBVIOUS
  <1>1. /\ pc = "check" /\ UNCHANGED <<req, search, index, reply, applied, var>>
    BY DEF CheckStep
  <1>2. /\ resp = None /\ index \in Nat /\ req.fn \in {"read", "write"}
    BY <1>1, BusyRequest DEF IInv, TypeOK
  <1>3. applied = [i \in {} |-> 0] /\ reply = [i \in {} |-> 0]
    BY <1>1 DEF DataInv, NothingYet
  <1>4. CASE Respond("MB_EPORTERR") /\ UNCHANGED <<walk, held>>
    BY <1>1, <1>4, FailData
  <1>5. CASE UNCHANGED <<pc, resp, held>>
    <2>1. FailureStoresAPrefix'
      BY <1>1, <1>3, NothingStoredNext
    <2>2. resp' # "MB_ENOERR"
      BY <1>5, <1>2, OthersAssumption DEF OthersAssumption
    <2>3. Values'
      BY <1>1, <1>5 DEF DataInv, Values
    <2>4. NothingYet' /\ StoredSoFar' /\ SentSoFar'
      BY <1>1, <1>5, <1>3 DEF NothingYet, StoredSoFar, SentSoFar
    <2>5. QED
      BY <2>1, <2>2, <2>3, <2>4 DEF DataInv, SuccessIsComplete
  <1>6. CASE StartAccess
    <2>1. /\ pc' = req.fn /\ cur' = index /\ tot_regs' = 0 /\ resp' = resp
          /\ held' = [p \in Params |-> IF req.fn = "read" THEN {var[p]} ELSE {}]
      BY <1>6 DEF StartAccess
    <2>2. Values'
      <3>1. \A p \in Params : var[p] \in Int
        BY DEF DataInv, Values
      <3>2. held' \in [Params -> SUBSET Int]
        BY <2>1, <3>1
      <3>3. pc' = "read" => \A p \in Params : var[p] \in held'[p]
        BY <2>1
      <3>4. QED
        BY <3>2, <3>3, <1>1 DEF DataInv, Values
    <2>3. FailureStoresAPrefix'
      BY <1>1, <1>3, NothingStoredNext
    <2>4. resp' # "MB_ENOERR"
      BY <2>1, <1>2, OthersAssumption DEF OthersAssumption
    <2>5. NothingYet'
      BY <1>1, <1>2, <1>3, <2>1 DEF NothingYet
    <2>6. index .. index - 1 = {} /\ 0 .. 0 - 1 = {}
      BY <1>2
    <2>7. DOMAIN applied' = {} /\ DOMAIN reply' = {}
      BY <1>1, <1>3
    <2>8. StoredSoFar' /\ SentSoFar'
      BY <1>1, <2>1, <2>6, <2>7 DEF StoredSoFar, SentSoFar
    <2>9. QED
      BY <2>2, <2>3, <2>4, <2>5, <2>8 DEF DataInv, SuccessIsComplete
  <1>7. QED
    BY <1>4, <1>5, <1>6 DEF CheckStep

LEMMA ReturnData == IInv /\ DataInv /\ Return => DataInv'
  <1> SUFFICES ASSUME IInv, DataInv, Return PROVE DataInv'
    OBVIOUS
  <1>1. /\ pc' = "idle" /\ req' = None /\ resp' = None /\ var' = var
        /\ applied' = [i \in {} |-> 0] /\ reply' = [i \in {} |-> 0]
        /\ held' = [p \in Params |-> {}]
    BY DEF Return
  <1>2. Values'
    BY <1>1 DEF DataInv, Values
  <1>3. resp' # "MB_ENOERR"
    BY <1>1, OthersAssumption DEF OthersAssumption
  <1>4. QED
    BY <1>1, <1>2, <1>3, NothingStoredNext
       DEF DataInv, NothingYet, StoredSoFar, SentSoFar, SuccessIsComplete

\* Another thread's set of a parameter adds to what a read may find.
LEMMA OtherWriteData == IInv /\ DataInv /\ OtherWrite => DataInv'
  <1> SUFFICES ASSUME IInv, DataInv, OtherWrite PROVE DataInv'
    OBVIOUS
  <1>1. PICK w \in OtherWrites :
          /\ var' = [var EXCEPT ![w[1]] = w[2]]
          /\ held' = IF pc = "read" THEN [held EXCEPT ![w[1]] = @ \cup {w[2]}] ELSE held
    BY DEF OtherWrite
  <1>2. UNCHANGED <<pc, req, search, index, walk, reply, resp, applied>>
    BY DEF OtherWrite
  <1>3. w[1] \in Params /\ w[2] \in Int
    BY OthersAssumption DEF OthersAssumption
  <1>4. w[1] \in RowParams => Fits(w[1], w[2])
    BY ValuesAssumption DEF ValuesAssumption
  <1>5. /\ var \in [Params -> Int] /\ held \in [Params -> SUBSET Int]
        /\ \A p \in RowParams : Fits(p, var[p])
        /\ pc = "read" => \A p \in Params : var[p] \in held[p]
    BY DEF DataInv, Values
  <1>6. \A p \in Params : held[p] \subseteq held'[p]
    BY <1>1, <1>3, <1>5
  <1>7. Values'
    <2>1. var' \in [Params -> Int]
      BY <1>1, <1>3, <1>5
    <2>2. held' \in [Params -> SUBSET Int]
      BY <1>1, <1>3, <1>5
    <2>3. \A p \in RowParams : Fits(p, var'[p])
      <3> SUFFICES ASSUME NEW p \in RowParams PROVE Fits(p, var'[p])
        OBVIOUS
      <3>1. p \in Params
        BY ParamFits
      <3>2. var'[p] = IF p = w[1] THEN w[2] ELSE var[p]
        BY <1>1, <1>5, <3>1
      <3>3. CASE p = w[1]
        BY <3>2, <3>3, <1>4
      <3>4. CASE p # w[1]
        BY <3>2, <3>4, <1>5
      <3>5. QED
        BY <3>3, <3>4
    <2>4. pc' = "read" => \A p \in Params : var'[p] \in held'[p]
      BY <1>1, <1>2, <1>3, <1>5
    <2>5. QED
      BY <2>1, <2>2, <2>3, <2>4 DEF Values
  <1>8. SentSoFar'
    <2> SUFFICES ASSUME pc = "read"
                 PROVE  /\ DOMAIN reply = 0 .. tot_regs - 1
                        /\ \A i \in index .. cur - 1 : SentAt(i)'
      BY <1>2 DEF SentSoFar, walk
    <2>1. DOMAIN reply = 0 .. tot_regs - 1 /\ \A i \in index .. cur - 1 : SentAt(i)
      BY DEF DataInv, SentSoFar
    <2>2. ASSUME NEW i \in index .. cur - 1 PROVE SentAt(i)'
      <3>1. SentAt(i)
        BY <2>1
      <3>2. Regs[req.tb][i].p \in Params
        <4>1. PICK e \in Rows(req.tb) : cur \in index .. e + 1 /\ index \in Rows(req.tb)
          BY DEF IInv, AccessStaysInRequest, Covers
        <4>2. req.tb \in Tables
          BY BusyRequest
        <4>3. i \in Rows(req.tb)
          BY <4>1, <4>2, TableRows
        <4>4. QED
          BY <4>2, <4>3, RowParam
      <3>3. QED
        BY <3>1, <3>2, <1>2, <1>6 DEF SentAt, walk
    <2>3. QED
      BY <2>1, <2>2
  <1>9. StoredSoFar' /\ NothingYet' /\ FailureStoresAPrefix'
    <2>1. StoredSoFar'
      BY <1>2 DEF DataInv, StoredSoFar, StoredAt, walk
    <2>2. NothingYet'
      BY <1>2 DEF DataInv, NothingYet
    <2>3. FailureStoresAPrefix'
      BY <1>2 DEF DataInv, FailureStoresAPrefix, walk
    <2>4. QED
      BY <2>1, <2>2, <2>3
  <1>10. SuccessIsComplete'
    <2> SUFFICES ASSUME resp = "MB_ENOERR" PROVE SuccessIsComplete'
      BY <1>2 DEF SuccessIsComplete
    <2>1. pc = "done"
      BY OthersAssumption DEF OthersAssumption, IInv, TypeOK
    <2>2. held' = held
      BY <1>1, <2>1
    <2>3. SuccessIsComplete /\ UNCHANGED <<req, index, applied, reply, resp>>
      BY <1>2 DEF DataInv, walk
    <2>4. ASSUME NEW i PROVE (StoredAt(i)' <=> StoredAt(i)) /\ (SentAt(i)' <=> SentAt(i))
      BY <2>2, <2>3 DEF StoredAt, SentAt
    <2>5. QED
      BY <2>3, <2>4 DEF SuccessIsComplete
  <1>11. QED
    BY <1>7, <1>8, <1>9, <1>10 DEF DataInv

\* A loop is at a row the request covers, with the next register to handle.
LEMMA LoopRow ==
  ASSUME IInv, pc \in {"read", "write"}, tot_regs < req.num
  PROVE  /\ req.tb \in Tables /\ cur \in Rows(req.tb) /\ index \in Rows(req.tb)
         /\ cur \in Nat /\ index \in Nat /\ index <= cur
         /\ req.addr \in Nat /\ req.num \in Nat /\ tot_regs \in Nat
         /\ Addr(req.tb, index) = req.addr
         /\ tot_regs = Addr(req.tb, cur) - req.addr
         /\ index_buf \div 2 = tot_regs
         /\ Addr(req.tb, cur) + NumRegs(req.tb, cur) <= req.addr + req.num
  <1> DEFINE tb == req.tb
  <1>1. tb \in Tables /\ req.addr \in Nat /\ req.num \in Nat
    BY BusyRequest
  <1>2. TypeOK /\ index \in Rows(tb) /\ Addr(tb, index) = req.addr
    BY DEF IInv, FoundIsAsked
  <1>3. PICK e \in Rows(tb) :
          /\ Covers(tb, index, e, req.num)
          /\ cur \in index .. e + 1
          /\ index_buf = 2 * tot_regs
          /\ tot_regs = IF cur <= e THEN Addr(tb, cur) - req.addr ELSE req.num
    BY DEF IInv, AccessStaysInRequest
  <1>4. e \in Nat /\ cur \in Nat /\ index \in Nat /\ tot_regs \in Nat
    BY <1>1, <1>2, <1>3, RowFields DEF TypeOK
  <1>5. cur <= e
    BY <1>1, <1>3, <1>4
  <1>6. cur \in Rows(tb)
    BY <1>1, <1>2, <1>3, <1>5, RowBetween
  <1>7. index_buf \div 2 = tot_regs
    BY <1>3, <1>4
  <1>8. Addr(tb, e) + NumRegs(tb, e) = req.addr + req.num
    BY <1>2, <1>3 DEF Covers
  <1>9. /\ Addr(tb, cur) \in Nat /\ NumRegs(tb, cur) \in {1, 2}
        /\ Addr(tb, e) \in Nat /\ NumRegs(tb, e) \in {1, 2}
    BY <1>1, <1>6, RowFields
  <1>10. cur = e \/ Addr(tb, cur) + NumRegs(tb, cur) <= Addr(tb, e)
    BY <1>1, <1>4, <1>5, <1>6, RowsSorted
  <1>11. Addr(tb, cur) + NumRegs(tb, cur) <= req.addr + req.num
    BY <1>1, <1>8, <1>9, <1>10
  <1>12. QED
    BY <1>1, <1>2, <1>3, <1>4, <1>5, <1>6, <1>7, <1>11

\* A loop that has counted all the registers has handled all the rows.
LEMMA LoopEnds ==
  ASSUME IInv, pc \in {"read", "write"}, tot_regs >= req.num
  PROVE  /\ tot_regs = req.num
         /\ \E e \in Rows(req.tb) : Covers(req.tb, index, e, req.num) /\ cur = e + 1
  <1> DEFINE tb == req.tb
  <1>1. tb \in Tables /\ req.addr \in Nat /\ req.num \in Nat
    BY BusyRequest
  <1>2. TypeOK /\ index \in Rows(tb) /\ Addr(tb, index) = req.addr
    BY DEF IInv, FoundIsAsked
  <1>3. PICK e \in Rows(tb) :
          /\ Covers(tb, index, e, req.num)
          /\ cur \in index .. e + 1
          /\ tot_regs = IF cur <= e THEN Addr(tb, cur) - req.addr ELSE req.num
    BY DEF IInv, AccessStaysInRequest
  <1>4. e \in Nat /\ cur \in Nat /\ index \in Nat /\ tot_regs \in Nat
    BY <1>1, <1>2, <1>3, RowFields DEF TypeOK
  <1>5. ~(cur <= e)
    <2> SUFFICES ASSUME cur <= e PROVE FALSE
      OBVIOUS
    <2>1. cur \in Rows(tb)
      BY <1>1, <1>2, <1>3, RowBetween
    <2>2. Addr(tb, e) + NumRegs(tb, e) = req.addr + req.num
      BY <1>2, <1>3 DEF Covers
    <2>3. /\ Addr(tb, cur) \in Nat /\ NumRegs(tb, cur) \in {1, 2}
          /\ Addr(tb, e) \in Nat /\ NumRegs(tb, e) \in {1, 2}
      BY <1>1, <2>1, RowFields
    <2>4. cur = e \/ Addr(tb, cur) + NumRegs(tb, cur) <= Addr(tb, e)
      BY <1>1, <1>4, <2>1, RowsSorted
    <2>5. QED
      BY <2>2, <2>3, <2>4, <1>1, <1>3
  <1>6. QED
    BY <1>3, <1>4, <1>5

LEMMA AccessDoneData == IInv /\ DataInv /\ AccessDone => DataInv'
  <1> SUFFICES ASSUME IInv, DataInv, AccessDone PROVE DataInv'
    OBVIOUS
  <1>1. /\ pc \in {"read", "write"} /\ tot_regs >= req.num /\ pc' = "done" /\ resp' = "MB_ENOERR"
        /\ UNCHANGED <<req, search, index, walk, reply, applied, held, var>>
    BY DEF AccessDone, Respond
  <1>2. PICK e \in Rows(req.tb) : Covers(req.tb, index, e, req.num) /\ cur = e + 1
    BY <1>1, LoopEnds
  <1>3. tot_regs = req.num
    BY <1>1, LoopEnds
  <1>4. e \in Nat /\ index \in Nat /\ e + 1 - 1 = e
    <2>1. req.tb \in Tables
      BY <1>1, BusyRequest
    <2>2. QED
      BY <2>1, <1>2, RowFields DEF Covers
  <1>5. req.fn = pc
    BY <1>1 DEF DataInv, NothingYet
  <1>6. req.fn = "write" =>
          DOMAIN applied' = index' .. e /\ \A i \in index' .. e : StoredAt(i)'
    BY <1>1, <1>2, <1>4, <1>5 DEF DataInv, StoredSoFar, StoredAt
  <1>7. req.fn = "read" =>
          DOMAIN reply' = 0 .. req.num - 1 /\ \A i \in index' .. e : SentAt(i)'
    BY <1>1, <1>2, <1>3, <1>4, <1>5 DEF DataInv, SentSoFar, SentAt
  <1>8. SuccessIsComplete'
    BY <1>1, <1>2, <1>6, <1>7 DEF SuccessIsComplete, Covers, Contiguous
  <1>9. FailureStoresAPrefix'
    <2>1. CASE pc = "write"
      <3>1. DOMAIN applied' = index' .. cur' - 1 /\ req'.fn = "write"
        BY <2>1, <1>1 DEF DataInv, NothingYet, StoredSoFar, walk
      <3>2. req # None
        BY BusyRequest, <2>1, OthersAssumption DEF OthersAssumption
      <3>3. \A i \in DOMAIN applied : Addr(req.tb, i) \in req.addr .. req.addr + req.num - 1
        BY <3>2 DEF DataInv, FailureStoresAPrefix
      <3>4. QED
        BY <3>1, <3>3, <1>1 DEF FailureStoresAPrefix
    <2>2. CASE pc = "read"
      BY <2>2, <1>1, NothingStoredNext DEF DataInv, NothingYet
    <2>3. QED
      BY <2>1, <2>2, <1>1
  <1>10. Values' /\ NothingYet' /\ StoredSoFar' /\ SentSoFar'
    BY <1>1 DEF DataInv, Values, NothingYet, StoredSoFar, SentSoFar
  <1>11. QED
    BY <1>8, <1>9, <1>10 DEF DataInv

\* A merge adds to a function and changes nothing outside what is added.
LEMMA MergeValues ==
  ASSUME NEW f, NEW g
  PROVE  /\ DOMAIN Merge(f, g) = DOMAIN f \cup DOMAIN g
         /\ \A x \in DOMAIN g : Merge(f, g)[x] = g[x]
         /\ \A x \in DOMAIN f \ DOMAIN g : Merge(f, g)[x] = f[x]
  BY DEF Merge

\* What a turn of the write loop does to the row it is at.
LEMMA WriteTurn ==
  ASSUME IInv, DataInv, WriteStep, ~(Respond("MB_EPORTERR") /\ UNCHANGED <<walk, applied, var>>)
  PROVE  LET p == Regs[req.tb][cur].p
             n == Decode(Kind[p], req.words, Addr(req.tb, cur) - req.addr)
         IN  /\ p \in RowParams /\ n \in Int /\ InRange(p, n) /\ Fits(p, n)
             /\ var' = [var EXCEPT ![p] = n]
             /\ applied' = Merge(applied, [i \in {cur} |-> n])
             /\ cur' = cur + 1 /\ UNCHANGED <<pc, resp>>
  <1> DEFINE p == Regs[req.tb][cur].p
             n == Decode(Kind[p], req.words, index_buf \div 2)
             o == SetNumber(SetterKind(Kind[p]), p, FACTORY, n, var[p])
  <1>1. pc = "write" /\ tot_regs < req.num
    BY DEF WriteStep
  <1>2. /\ req.tb \in Tables /\ cur \in Rows(req.tb)
        /\ index_buf \div 2 = Addr(req.tb, cur) - req.addr
    BY <1>1, LoopRow
  <1>3. p \in RowParams /\ p \in Params
    BY <1>2, RowParam
  <1>4. var[p] \in Int /\ Fits(p, var[p])
    BY <1>3 DEF DataInv, Values
  <1>5. /\ o.code \notin Errors /\ Advance
        /\ var' = [var EXCEPT ![p] = o.value]
        /\ applied' = Merge(applied, [i \in {cur} |-> o.value])
        /\ UNCHANGED <<pc, resp>>
    BY ZenonT(30) DEF WriteStep
  <1>6. o.value = n /\ n \in Int /\ InRange(p, n) /\ Fits(p, n)
    <2>1. SetNumber(SetterKind(Kind[p]), p, FACTORY, n, var[p]).code \notin Errors
      BY <1>5
    <2>2. PICK m : m = n
      OBVIOUS
    <2>3. PICK q \in RowParams : q = p
      BY <1>3
    <2>4. PICK x \in Int : x = var[p]
      BY <1>4
    <2>5. Fits(q, x) /\ SetNumber(SetterKind(Kind[q]), q, FACTORY, m, x).code \notin Errors
      BY <2>1, <2>2, <2>3, <2>4, <1>4, Zenon
    <2>6. /\ SetNumber(SetterKind(Kind[q]), q, FACTORY, m, x).value = m
          /\ m \in Int /\ InRange(q, m) /\ Fits(q, m)
      BY <2>5, SetNumberStores, Zenon
    <2>7. QED
      BY <2>2, <2>3, <2>4, <2>6, Zenon
  <1>7. cur' = cur + 1
    BY <1>5 DEF Advance
  <1>8. QED
    BY <1>2, <1>3, <1>5, <1>6, <1>7

LEMMA WriteStepData == IInv /\ DataInv /\ WriteStep => DataInv'
  <1> SUFFICES ASSUME IInv, DataInv, WriteStep PROVE DataInv'
    OBVIOUS
  <1>1. /\ pc = "write" /\ tot_regs < req.num
        /\ UNCHANGED <<req, search, index, reply, held>>
    BY DEF WriteStep
  <1>2. CASE Respond("MB_EPORTERR") /\ UNCHANGED <<walk, applied, var>>
    BY <1>1, <1>2, FailData
  <1>3. CASE ~(Respond("MB_EPORTERR") /\ UNCHANGED <<walk, applied, var>>)
    <2> DEFINE tb == req.tb
               p == Regs[tb][cur].p
               n == Decode(Kind[p], req.words, Addr(tb, cur) - req.addr)
    <2>1. /\ p \in RowParams /\ n \in Int /\ InRange(p, n) /\ Fits(p, n)
          /\ var' = [var EXCEPT ![p] = n]
          /\ applied' = Merge(applied, [i \in {cur} |-> n])
          /\ cur' = cur + 1 /\ pc' = pc /\ resp' = resp
      BY <1>3, WriteTurn
    <2>2. /\ tb \in Tables /\ cur \in Rows(tb) /\ cur \in Nat /\ index \in Nat /\ index <= cur
          /\ req.addr \in Nat /\ req.num \in Nat /\ tot_regs \in Nat
          /\ tot_regs = Addr(tb, cur) - req.addr
          /\ Addr(tb, cur) + NumRegs(tb, cur) <= req.addr + req.num
      BY <1>1, LoopRow
    <2>3. /\ DOMAIN applied = index .. cur - 1 /\ \A i \in index .. cur - 1 : StoredAt(i)
      BY <1>1 DEF DataInv, StoredSoFar
    <2>4. /\ DOMAIN applied' = DOMAIN applied \cup {cur}
          /\ applied'[cur] = n
          /\ \A i \in DOMAIN applied \ {cur} : applied'[i] = applied[i]
      <3> DEFINE g == [i \in {cur} |-> n]
      <3>1. DOMAIN g = {cur} /\ g[cur] = n
        OBVIOUS
      <3> HIDE DEF g
      <3>2. applied' = Merge(applied, g)
        BY <2>1 DEF g
      <3>3. /\ DOMAIN Merge(applied, g) = DOMAIN applied \cup DOMAIN g
            /\ \A i \in DOMAIN g : Merge(applied, g)[i] = g[i]
            /\ \A i \in DOMAIN applied \ DOMAIN g : Merge(applied, g)[i] = applied[i]
        BY MergeValues, Zenon
      <3>4. QED
        BY <3>1, <3>2, <3>3
    <2>5. DOMAIN applied' = index' .. cur' - 1
      <3>1. (index .. cur - 1) \cup {cur} = index .. cur + 1 - 1
        BY <2>2
      <3>2. cur' = cur + 1 /\ index' = index
        BY <2>1, <1>1
      <3>3. DOMAIN applied' = DOMAIN applied \cup {cur}
        BY <2>4
      <3>4. QED
        BY <3>1, <3>2, <3>3, <2>3
    <2>6. \A i \in index .. cur - 1 : i # cur
      BY <2>2
    <2>7. \A i \in index' .. cur' - 1 : StoredAt(i)'
      <3>1. index' = index /\ cur' = cur + 1
        BY <2>1, <1>1
      <3>2. cur' - 1 = cur
        BY <3>1, <2>2
      <3>3. index' .. cur' - 1 = index .. cur
        BY <3>1, <3>2, Zenon
      <3>4. ASSUME NEW i \in index .. cur PROVE StoredAt(i)'
        <4>1. CASE i = cur
          BY <4>1, <2>1, <2>4, <1>1 DEF StoredAt
        <4>2. CASE i # cur
          <5>1. i \in index .. cur - 1
            BY <4>2, <2>2
          <5>2. StoredAt(i) /\ applied'[i] = applied[i]
            BY <5>1, <2>3, <2>4, <4>2
          <5>3. QED
            BY <5>2, <1>1 DEF StoredAt
        <4>3. QED
          BY <4>1, <4>2
      <3>5. QED
        BY <3>3, <3>4, Zenon
    <2>8. StoredSoFar'
      BY <2>5, <2>7 DEF StoredSoFar
    <2>9. Values'
      <3>1. p \in Params
        BY <2>1, ParamFits
      <3>2. /\ var \in [Params -> Int] /\ \A q \in RowParams : Fits(q, var[q])
        BY DEF DataInv, Values
      <3>3. var' \in [Params -> Int]
        BY <2>1, <3>1, <3>2
      <3>4. \A q \in RowParams : Fits(q, var'[q])
        <4> SUFFICES ASSUME NEW q \in RowParams PROVE Fits(q, var'[q])
          OBVIOUS
        <4>1. q \in Params
          BY ParamFits
        <4>2. var'[q] = IF q = p THEN n ELSE var[q]
          BY <2>1, <3>2, <4>1
        <4>3. CASE q = p
          BY <4>2, <4>3, <2>1
        <4>4. CASE q # p
          BY <4>2, <4>4, <3>2
        <4>5. QED
          BY <4>3, <4>4
      <3>5. QED
        BY <3>3, <3>4, <1>1, <2>1 DEF DataInv, Values
    <2>10. FailureStoresAPrefix'
      <3>1. req.fn = "write"
        BY <1>1 DEF DataInv, NothingYet
      <3>2. req # None
        BY BusyRequest, <1>1, OthersAssumption DEF OthersAssumption
      <3>3. \A i \in DOMAIN applied : Addr(tb, i) \in req.addr .. req.addr + req.num - 1
        BY <3>2 DEF DataInv, FailureStoresAPrefix
      <3>4. Addr(tb, cur) \in req.addr .. req.addr + req.num - 1
        BY <2>2, RowFields
      <3>5. resp' # "MB_ENOREG"
        <4>1. resp = None
          BY <1>1 DEF IInv, TypeOK
        <4>2. QED
          BY <4>1, <2>1, OthersAssumption DEF OthersAssumption
      <3>6. \A i \in DOMAIN applied' : Addr(tb, i) \in req.addr .. req.addr + req.num - 1
        BY <3>3, <3>4, <2>4
      <3>7. QED
        BY <3>1, <3>5, <3>6, <2>1, <2>5, <1>1 DEF FailureStoresAPrefix
    <2>11. resp' # "MB_ENOERR"
      <3>1. resp = None
        BY <1>1 DEF IInv, TypeOK
      <3>2. QED
        BY <3>1, <2>1, OthersAssumption DEF OthersAssumption
    <2>12. NothingYet' /\ SentSoFar'
      BY <1>1, <2>1 DEF DataInv, NothingYet, SentSoFar
    <2>13. QED
      BY <2>8, <2>9, <2>10, <2>11, <2>12 DEF DataInv, SuccessIsComplete
  <1>4. QED
    BY <1>2, <1>3

\* The registers of one variable.
LEMMA EncodeDomain ==
  ASSUME NEW tb \in Tables, NEW i \in Rows(tb), NEW w \in Nat, NEW n
  PROVE  DOMAIN Encode(Kind[Regs[tb][i].p], w, n) = w .. w + NumRegs(tb, i) - 1
  <1> DEFINE p == Regs[tb][i].p
  <1>1. p \in Params /\ Kind[p] \in IntKinds
    BY RowParam
  <1>2. VarSize[p] = Bytes[Kind[p]]
    <2>1. Kind[p] # "STR"
      BY <1>1 DEF IntKinds
    <2>2. QED
      BY <1>1, <2>1, TableAssumption DEF TableAssumption
  <1>3. NumRegs(tb, i) = (Bytes[Kind[p]] + 1) \div 2
    BY <1>2 DEF NumRegs, Size, RegsUsed
  <1>4. Bytes[Kind[p]] \in {1, 2, 4}
    BY <1>1 DEF Bytes, IntKinds
  <1>5. CASE Bytes[Kind[p]] = 4
    <2>1. DOMAIN Encode(Kind[p], w, n) = {w, w + 1}
      BY <1>5 DEF Encode
    <2>2. w .. w + 2 - 1 = {w, w + 1}
      OBVIOUS
    <2>3. NumRegs(tb, i) = 2
      BY <1>3, <1>5
    <2>4. QED
      BY <2>1, <2>2, <2>3
  <1>6. CASE Bytes[Kind[p]] # 4
    <2>1. DOMAIN Encode(Kind[p], w, n) = {w}
      BY <1>6 DEF Encode
    <2>2. w .. w + 1 - 1 = {w}
      OBVIOUS
    <2>3. NumRegs(tb, i) = 1
      BY <1>3, <1>4, <1>6
    <2>4. QED
      BY <2>1, <2>2, <2>3
  <1>7. QED
    BY <1>5, <1>6

\* What a turn of the read loop does with the row it is at.
LEMMA ReadTurn ==
  ASSUME IInv, DataInv, ReadStep, ~(Respond("MB_EPORTERR") /\ UNCHANGED <<walk, reply>>)
  PROVE  LET p == Regs[req.tb][cur].p
         IN  /\ p \in RowParams
             /\ reply' = Merge(reply, Encode(Kind[p], tot_regs, var[p]))
             /\ cur' = cur + 1 /\ tot_regs' = tot_regs + NumRegs(req.tb, cur)
             /\ UNCHANGED <<pc, resp>>
  <1> DEFINE p == Regs[req.tb][cur].p
             o == GetNumber(SetterKind(Kind[p]), p, FACTORY, 0, var[p])
  <1>1. pc = "read" /\ tot_regs < req.num
    BY DEF ReadStep
  <1>2. /\ req.tb \in Tables /\ cur \in Rows(req.tb)
        /\ index_buf \div 2 = tot_regs
    BY <1>1, LoopRow
  <1>3. p \in RowParams /\ p \in Params
    BY <1>2, RowParam
  <1>4. var[p] \in Int /\ Fits(p, var[p])
    BY <1>3 DEF DataInv, Values
  <1>5. /\ o.code \notin Errors /\ Advance
        /\ reply' = Merge(reply, Encode(Kind[p], index_buf \div 2, o.out))
        /\ UNCHANGED <<pc, resp>>
    BY ZenonT(30) DEF ReadStep
  <1>6. o.out = var[p]
    BY <1>3, <1>4, <1>5, GetNumberReads
  <1>7. cur' = cur + 1 /\ tot_regs' = tot_regs + NumRegs(req.tb, cur)
    BY <1>5 DEF Advance
  <1>8. QED
    BY <1>2, <1>3, <1>5, <1>6, <1>7

LEMMA ReadStepData == IInv /\ DataInv /\ ReadStep => DataInv'
  <1> SUFFICES ASSUME IInv, DataInv, ReadStep PROVE DataInv'
    OBVIOUS
  <1>1. /\ pc = "read" /\ tot_regs < req.num
        /\ UNCHANGED <<req, search, index, applied, held, var>>
    BY DEF ReadStep
  <1>2. CASE Respond("MB_EPORTERR") /\ UNCHANGED <<walk, reply>>
    BY <1>1, <1>2, FailData
  <1>3. CASE ~(Respond("MB_EPORTERR") /\ UNCHANGED <<walk, reply>>)
    <2> DEFINE tb == req.tb
               p == Regs[tb][cur].p
               g == Encode(Kind[p], tot_regs, var[p])
    <2>1. /\ p \in RowParams /\ reply' = Merge(reply, g)
          /\ cur' = cur + 1 /\ tot_regs' = tot_regs + NumRegs(tb, cur)
          /\ pc' = pc /\ resp' = resp
      BY <1>3, ReadTurn
    <2>2. /\ tb \in Tables /\ cur \in Rows(tb) /\ cur \in Nat /\ index \in Nat /\ index <= cur
          /\ index \in Rows(tb)
          /\ req.addr \in Nat /\ req.num \in Nat /\ tot_regs \in Nat
          /\ tot_regs = Addr(tb, cur) - req.addr
          /\ NumRegs(tb, cur) \in {1, 2}
      BY <1>1, LoopRow, RowFields
    <2>3. DOMAIN reply = 0 .. tot_regs - 1 /\ \A i \in index .. cur - 1 : SentAt(i)
      BY <1>1 DEF DataInv, SentSoFar
    <2>4. DOMAIN g = tot_regs .. tot_regs + NumRegs(tb, cur) - 1
      BY <2>2, EncodeDomain
    <2>5. /\ DOMAIN reply' = DOMAIN reply \cup DOMAIN g
          /\ \A k \in DOMAIN g : reply'[k] = g[k]
          /\ \A k \in DOMAIN reply \ DOMAIN g : reply'[k] = reply[k]
      <3> HIDE DEF g
      <3>1. /\ DOMAIN Merge(reply, g) = DOMAIN reply \cup DOMAIN g
            /\ \A k \in DOMAIN g : Merge(reply, g)[k] = g[k]
            /\ \A k \in DOMAIN reply \ DOMAIN g : Merge(reply, g)[k] = reply[k]
        BY MergeValues, Zenon
      <3>2. QED
        BY <2>1, <3>1
    <2>6. DOMAIN reply' = 0 .. tot_regs' - 1
      <3> HIDE DEF g
      <3>1. QED
        BY <2>1, <2>2, <2>3, <2>4, <2>5
    <2>7. \A i \in index' .. cur' - 1 : SentAt(i)'
      <3> SUFFICES ASSUME NEW i \in index .. cur PROVE SentAt(i)'
        BY <2>1, <2>2, <1>1
      <3>1. CASE i = cur
        <4>1. var[p] \in held[p]
          BY <1>1, <2>1, ParamFits DEF DataInv, Values
        <4>2. \A k \in DOMAIN Encode(Kind[p], Addr(tb, cur) - req.addr, var[p]) :
                reply'[k] = Encode(Kind[p], Addr(tb, cur) - req.addr, var[p])[k]
          BY <2>2, <2>5
        <4>3. QED
          BY <3>1, <4>1, <4>2, <1>1 DEF SentAt
      <3>2. CASE i # cur
        <4>1. i \in index .. cur - 1 /\ i \in Nat /\ i < cur /\ index <= i
          BY <3>2, <2>2
        <4>2. i \in Rows(tb)
          BY <4>1, <2>2, TableRows
        <4>3. PICK m \in held[Regs[tb][i].p] :
                \A k \in DOMAIN Encode(Kind[Regs[tb][i].p], Addr(tb, i) - req.addr, m) :
                  reply[k] = Encode(Kind[Regs[tb][i].p], Addr(tb, i) - req.addr, m)[k]
          BY <4>1, <2>3 DEF SentAt
        <4> DEFINE h == Encode(Kind[Regs[tb][i].p], Addr(tb, i) - req.addr, m)
        <4>4. /\ Addr(tb, i) \in Nat /\ NumRegs(tb, i) \in {1, 2} /\ Addr(tb, cur) \in Nat
              /\ Addr(tb, i) + NumRegs(tb, i) <= Addr(tb, cur)
          BY <4>1, <4>2, <2>2, RowFields, RowsSorted
        <4>5. req.addr <= Addr(tb, i)
          <5>1. Addr(tb, index) = req.addr
            BY <1>1, LoopRow
          <5>2. i = index \/ Addr(tb, index) < Addr(tb, i)
            BY <4>1, <4>2, <2>2, RowsSorted
          <5>3. QED
            BY <5>1, <5>2, <4>4, <2>2
        <4>6. DOMAIN h = Addr(tb, i) - req.addr .. Addr(tb, i) - req.addr + NumRegs(tb, i) - 1
          <5>1. Addr(tb, i) - req.addr \in Nat
            BY <4>4, <4>5, <2>2
          <5>2. QED
            BY <5>1, <4>2, <2>2, EncodeDomain
        <4>7. \A k \in DOMAIN h : k \in DOMAIN reply \ DOMAIN g
          <5> SUFFICES ASSUME NEW k \in DOMAIN h PROVE k \in DOMAIN reply \ DOMAIN g
            OBVIOUS
          <5> HIDE DEF g, h
          <5>1. /\ k \in Int /\ Addr(tb, i) - req.addr <= k
                /\ k <= Addr(tb, i) - req.addr + NumRegs(tb, i) - 1
            BY <4>4, <4>6, <2>2
          <5>2. k \in 0 .. tot_regs - 1 /\ ~(tot_regs <= k)
            BY <5>1, <4>4, <4>5, <2>2
          <5>3. QED
            BY <5>2, <2>2, <2>3, <2>4
        <4>8. \A k \in DOMAIN h : reply'[k] = h[k]
          <5>1. \A k \in DOMAIN h : reply[k] = h[k]
            BY <4>3
          <5> HIDE DEF g, h
          <5>2. QED
            BY <5>1, <4>7, <2>5
        <4>9. QED
          BY <4>8, <1>1 DEF SentAt
      <3>3. QED
        BY <3>1, <3>2
    <2>8. SentSoFar'
      BY <2>6, <2>7 DEF SentSoFar
    <2>9. resp' # "MB_ENOERR"
      <3>1. resp = None
        BY <1>1 DEF IInv, TypeOK
      <3>2. QED
        BY <3>1, <2>1, OthersAssumption DEF OthersAssumption
    <2>10. applied' = [i \in {} |-> 0]
      BY <1>1 DEF DataInv, NothingYet
    <2>11. Values' /\ NothingYet' /\ StoredSoFar' /\ FailureStoresAPrefix'
      BY <1>1, <2>1, <2>10, NothingStoredNext DEF DataInv, Values, NothingYet, StoredSoFar
    <2>12. QED
      BY <2>8, <2>9, <2>11 DEF DataInv, SuccessIsComplete
  <1>4. QED
    BY <1>2, <1>3

LEMMA TimeoutData == IInv /\ DataInv /\ DbTimeout => DataInv'
  BY FailData DEF DbTimeout, search

LEMMA IdleData == DataInv /\ UNCHANGED vars => DataInv'
  <1> SUFFICES ASSUME DataInv, UNCHANGED vars PROVE DataInv'
    OBVIOUS
  <1>1. UNCHANGED <<pc, req, index, cur, tot_regs, reply, resp, applied, held, var>>
    BY DEF vars, walk
  <1>2. Values' /\ NothingYet' /\ FailureStoresAPrefix'
    BY <1>1 DEF DataInv, Values, NothingYet, FailureStoresAPrefix
  <1>3. StoredSoFar'
    BY <1>1 DEF DataInv, StoredSoFar, StoredAt
  <1>4. SentSoFar'
    BY <1>1 DEF DataInv, SentSoFar, SentAt
  <1>5. SuccessIsComplete'
    BY <1>1 DEF DataInv, SuccessIsComplete, StoredAt, SentAt, Covers, Contiguous
  <1>6. QED
    BY <1>2, <1>3, <1>4, <1>5 DEF DataInv

LEMMA NextData == IInv /\ DataInv /\ [Next]_vars => DataInv'
  BY ReceiveData, SearchStepData, CheckStepData, WriteStepData, ReadStepData, AccessDoneData,
     ReturnData, TimeoutData, OtherWriteData, IdleData DEF Next, Server

-----------------------------------------------------------------------------
(* The theorems about what is stored and answered.                         *)

\* The inductive invariant of the data: what the loops have stored and sent
\* of the rows they left behind, besides what they know of the table.
THEOREM DataInvariant == Spec => [](IInv /\ DataInv)
  <1>1. Init => IInv /\ DataInv
    BY InitInv, InitData
  <1>2. IInv /\ DataInv /\ [Next]_vars => (IInv /\ DataInv)'
    BY NextInv, NextData
  <1>3. QED
    BY <1>1, <1>2, PTL DEF Spec

\* Whatever the tables, the request and the writes of other threads between
\* two accesses, MB_ENOERR means that every register asked for was stored
\* with the request's value, in range, or is in the reply, from one value its
\* parameter had.
THEOREM SuccessIsWhole == Spec => []SuccessIsComplete
  <1>1. DataInv => SuccessIsComplete
    BY DEF DataInv
  <1>2. QED
    BY <1>1, DataInvariant, PTL

\* Whatever stops a request, it has stored an initial part of the rows asked
\* for, and none when the search or the check refused it.
THEOREM FailureIsAPrefix == Spec => []FailureStoresAPrefix
  <1>1. DataInv => FailureStoresAPrefix
    BY DEF DataInv
  <1>2. QED
    BY <1>1, DataInvariant, PTL

\* One step of the server changes a parameter only in the write loop, which
\* is at a row of the request and stores a value of its range.
LEMMA ConfinedStep ==
  ASSUME IInv, DataInv, [Next]_vars, ~OtherWrite,
         NEW p \in Params, var'[p] # var[p]
  PROVE  /\ InRange(p, var'[p])
         /\ \E i \in Rows(req.tb) :
              /\ Regs[req.tb][i].p = p
              /\ req.addr <= Addr(req.tb, i)
              /\ Addr(req.tb, i) + NumRegs(req.tb, i) <= req.addr + req.num
  <1>1. WriteStep /\ var' # var
    BY ZenonT(30) DEF Next, Server, Receive, SearchStep, CheckStep, ReadStep, AccessDone, DbTimeout,
       Return, vars
  <1>2. /\ pc = "write" /\ tot_regs < req.num
        /\ ~(Respond("MB_EPORTERR") /\ UNCHANGED <<walk, applied, var>>)
    BY <1>1 DEF WriteStep
  <1> DEFINE q == Regs[req.tb][cur].p
             n == Decode(Kind[q], req.words, Addr(req.tb, cur) - req.addr)
  <1>3. InRange(q, n) /\ var' = [var EXCEPT ![q] = n]
    BY <1>1, <1>2, WriteTurn
  <1>4. var \in [Params -> Int]
    BY DEF DataInv, Values
  <1>5. p = q /\ var'[p] = n
    <2> HIDE DEF q, n
    <2>1. QED
      BY <1>3, <1>4
  <1>6. /\ cur \in Rows(req.tb) /\ req.tb \in Tables
        /\ tot_regs \in Nat /\ tot_regs = Addr(req.tb, cur) - req.addr
        /\ req.addr \in Nat
        /\ Addr(req.tb, cur) + NumRegs(req.tb, cur) <= req.addr + req.num
    BY <1>2, LoopRow
  <1>7. req.addr <= Addr(req.tb, cur)
    BY <1>6, RowFields
  <1>8. InRange(p, var'[p])
    BY <1>3, <1>5, Zenon
  <1>9. QED
    BY <1>5, <1>6, <1>7, <1>8

\* Whatever the words of a request, the server changes no parameter but those
\* whose registers it names, and no value leaves its declared range.
THEOREM WritesStayInside == Spec => WritesAreConfined
  <1> DEFINE Confined ==
        ~OtherWrite =>
          \A p \in Params : var'[p] # var[p] =>
            /\ InRange(p, var'[p])
            /\ \E i \in Rows(req.tb) :
                 /\ Regs[req.tb][i].p = p
                 /\ req.addr <= Addr(req.tb, i)
                 /\ Addr(req.tb, i) + NumRegs(req.tb, i) <= req.addr + req.num
  <1>1. IInv /\ DataInv /\ [Next]_vars => [Confined]_vars
    BY ConfinedStep
  <1>2. QED
    BY <1>1, DataInvariant, PTL DEF Spec, WritesAreConfined
=============================================================================
