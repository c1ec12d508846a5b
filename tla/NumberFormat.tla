---------------------------- MODULE NumberFormat ----------------------------
(***************************************************************************)
(* common/string_format/string_format.c: a field of fixed width into which *)
(* a number is typed from the right, digit by digit.  The integer field is *)
(* the decimal one without a point; a decimal field has its point at a     *)
(* fixed place, or wherever it is typed.                                   *)
(*                                                                         *)
(* A refused character changes nothing and is not an action.               *)
(***************************************************************************)
EXTENDS Integers, Sequences

\* Named, as DatabaseTypes has names of its own that a module composing both sees.
Places == INSTANCE SequencesExt

CONSTANTS
  NumFormats,  \* the arguments of int_fmt_init and float_fmt_init
  NumDigits    \* the digits typed

VARIABLES
  numFormat,    \* fill_with_zeros, accept_negative, total_digits, precision
  numValue,     \* value
  numCount,     \* current_position
  numNegative, numHasPoint,  \* is_negative, has_decimal_point
  numTyped,     \* history: the characters typed, without those removed
  numLost       \* history: a digit has been pushed out on the left

numField == <<numValue, numCount, numNegative, numHasPoint>>
numVars == <<numFormat, numField, numTyped, numLost>>

NumSpace == -1
NumPoint == -2

ASSUME NumAssumption ==
  /\ NumDigits \subseteq 0 .. 9
  /\ \A f \in NumFormats :
       /\ f.zeros \in BOOLEAN /\ f.negative \in BOOLEAN /\ f.decimal \in BOOLEAN
       /\ f.total \in 1 .. 29 /\ f.precision \in Nat /\ (f.decimal \/ f.precision = 0)

-----------------------------------------------------------------------------
NumPad(f) == IF f.zeros THEN 0 ELSE NumSpace

\* decimal_point_position of a fixed point, 0 for none; one with no digit
\* before it is not placed.
NumPointAt(f) == IF f.precision \in 1 .. f.total - 1 THEN f.total - f.precision ELSE 0

NumEmpty(f) == [i \in 1 .. f.total |-> IF i = NumPointAt(f) THEN NumPoint ELSE NumPad(f)]

\* The places that move when a character comes or goes.
NumMoving(f, value) == IF NumPointAt(f) = 0 THEN value ELSE Places!RemoveAt(value, NumPointAt(f))
NumPlaced(f, moving) == IF NumPointAt(f) = 0 THEN moving ELSE Places!InsertAt(moving, NumPointAt(f), NumPoint)

NumShiftIn(f, value, c) == NumPlaced(f, Append(Tail(NumMoving(f, value)), c))
NumShiftOut(f, value) == NumPlaced(f, <<NumPad(f)>> \o Places!Front(NumMoving(f, value)))

NumReset(f) ==
  /\ numValue' = NumEmpty(f)
  /\ numCount' = 0 /\ numNegative' = FALSE /\ numHasPoint' = (NumPointAt(f) > 0)
  /\ numTyped' = <<>> /\ numLost' = 0

\* int_fmt_init, float_fmt_init.
NumInit ==
  /\ numFormat \in NumFormats
  /\ numValue = NumEmpty(numFormat)
  /\ numCount = 0 /\ numNegative = FALSE /\ numHasPoint = (NumPointAt(numFormat) > 0)
  /\ numTyped = <<>> /\ numLost = 0

\* int_fmt_clean, float_fmt_clean.
NumClean == NumReset(numFormat) /\ UNCHANGED numFormat

NumMinus ==
  /\ numFormat.negative /\ numCount = 0
  /\ numNegative' = ~numNegative
  /\ UNCHANGED <<numFormat, numValue, numCount, numHasPoint, numTyped, numLost>>

NumSetNegative ==
  /\ numFormat.negative
  /\ numNegative' \in BOOLEAN
  /\ UNCHANGED <<numFormat, numValue, numCount, numHasPoint, numTyped, numLost>>

NumAddPoint ==
  /\ numFormat.decimal /\ numFormat.precision = 0 /\ ~numHasPoint
  /\ numCount < numFormat.total
  /\ numValue' = NumShiftIn(numFormat, numValue, NumPoint)
  /\ numCount' = numCount + 1 /\ numHasPoint' = TRUE
  /\ numTyped' = Append(numTyped, NumPoint)
  /\ UNCHANGED <<numFormat, numNegative, numLost>>

\* A fixed point takes one of the places counted: one digit more than there
\* is room for is taken in.
NumAddDigit(c) ==
  LET room == Len(NumMoving(numFormat, numValue))
      typed == Append(numTyped, c)
  IN  /\ numCount < numFormat.total
      /\ numValue' = NumShiftIn(numFormat, numValue, c)
      /\ numCount' = numCount + 1
      /\ numTyped' = IF Len(typed) > room THEN Tail(typed) ELSE typed
      /\ numLost' = IF Len(typed) > room THEN 1 ELSE numLost
      /\ UNCHANGED <<numFormat, numNegative, numHasPoint>>

\* Seeded fault: the point goes and counts as still there.
NumRemoveKeepsPoint ==
  /\ numCount > 0
  /\ numValue' = NumShiftOut(numFormat, numValue)
  /\ numCount' = numCount - 1
  /\ numTyped' = IF numTyped = <<>> THEN numTyped ELSE Places!Front(numTyped)
  /\ numLost' = IF numTyped = <<>> THEN 0 ELSE numLost
  /\ UNCHANGED <<numFormat, numNegative, numHasPoint>>

\* int_fmt_remove_digit, float_fmt_remove_char.
NumRemove ==
  /\ numCount > 0
  /\ numValue' = NumShiftOut(numFormat, numValue)
  /\ numCount' = numCount - 1
  /\ numHasPoint' = (numHasPoint /\ ~(NumPointAt(numFormat) = 0 /\ Places!Last(numValue) = NumPoint))
  /\ numTyped' = IF numTyped = <<>> THEN numTyped ELSE Places!Front(numTyped)
  /\ numLost' = IF numTyped = <<>> THEN 0 ELSE numLost
  /\ UNCHANGED <<numFormat, numNegative>>

NumNext ==
  \/ NumMinus \/ NumSetNegative \/ NumAddPoint \/ NumRemove \/ NumClean
  \/ \E c \in NumDigits : NumAddDigit(c)

NumSpec == NumInit /\ [][NumNext]_numVars

-----------------------------------------------------------------------------
(* What the field is read as.                                              *)

\* The digits of a text as a number without its point, and how many of them
\* stand after it.
NumMantissa(text) ==
  LET read[n \in 0 .. Len(text)] ==
        IF n = 0 THEN 0
        ELSE IF text[n] \in 0 .. 9 THEN 10 * read[n - 1] + text[n] ELSE read[n - 1]
  IN  read[Len(text)]
NumDecimals(text) ==
  LET after[n \in 0 .. Len(text)] ==
        IF n = 0 THEN -1
        ELSE IF text[n] = NumPoint THEN 0
        ELSE IF text[n] \in 0 .. 9 /\ after[n - 1] >= 0 THEN after[n - 1] + 1 ELSE after[n - 1]
  IN  after[Len(text)]

\* int_fmt_get_value, float_fmt_get_value: spaces are skipped, after the
\* point too; rounding is left out.
NumGetValue == [mantissa |-> NumMantissa(numValue), decimals |-> NumDecimals(numValue), negative |-> numNegative]

\* int_fmt_get_string, float_fmt_get_string.
NumGetString ==
  LET shown == Places!SelectInSeq(numValue, LAMBDA c : c # NumSpace)
      text == IF shown = 0 THEN <<0>> ELSE SubSeq(numValue, shown, numFormat.total)
  IN  [negative |-> numNegative /\ numFormat.negative,
       text |-> IF Head(text) = NumPoint /\ ~numFormat.zeros THEN <<0>> \o text ELSE text]

-----------------------------------------------------------------------------
(* Properties.                                                             *)

\* The number that was typed: with a fixed point, its last digits follow it.
NumTypedNumber ==
  [mantissa |-> NumMantissa(numTyped),
   decimals |-> IF NumPointAt(numFormat) > 0 THEN numFormat.precision ELSE NumDecimals(numTyped),
   negative |-> numNegative]

\* Whatever is typed, removed and typed again, the field holds exactly the
\* characters typed and not removed, at its right end, with at most one point;
\* what it shows and the value it gives are that number.  One digit more than
\* fits in front of and behind a fixed point pushes the first one out and
\* stays counted, and with spaces for padding a value with fewer digits than
\* the precision is read wrong: left out (string_format.c:32-172, :233-497).
NumberShowsWhatWasTyped ==
  LET f == numFormat
      moving == NumMoving(f, numValue)
      padding == Len(moving) - Len(numTyped)
  IN  /\ numCount = Len(numTyped) + numLost /\ numCount \in 0 .. f.total
      /\ numLost > 0 => NumPointAt(f) > 0
      /\ moving = [i \in 1 .. padding |-> NumPad(f)] \o numTyped
      /\ numHasPoint <=> NumPoint \in Places!ToSet(numValue)
      /\ \A i, j \in DOMAIN numValue : numValue[i] = NumPoint /\ numValue[j] = NumPoint => i = j
      /\ NumPointAt(f) > 0 => numValue[NumPointAt(f)] = NumPoint
      /\ NumPointAt(f) = 0 \/ f.zeros \/ Len(numTyped) >= f.precision
           => /\ NumGetValue = NumTypedNumber
              /\ NumMantissa(NumGetString.text) = NumTypedNumber.mantissa
              /\ NumGetString.negative = numNegative
=============================================================================
