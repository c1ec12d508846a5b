----------------------------- MODULE MaskFormat -----------------------------
(***************************************************************************)
(* common/mask_format/mask_format.c: a text with fixed characters and      *)
(* places to type into, from left to right.                                *)
(***************************************************************************)
EXTENDS Integers, Sequences, FiniteSets

CONSTANTS
  MaskMasks,   \* FORMAT_CONFIGS: the masks
  MaskChars,   \* the characters typed
  MaskValues   \* the texts given to generic_fmt_set_value

VARIABLES
  maskMask,    \* mask
  maskField,   \* buffer, current_pos, is_complete
  maskTyped    \* history: the characters taken since the last reset

maskVars == <<maskMask, maskField, maskTyped>>

\* get_mask_char_type, is_valid_char_for_type, get_placeholder_for_type.
MaskDigits == {"0", "1", "2", "3", "4", "5", "6", "7", "8", "9"}
MaskHexLetters == {"A", "B", "C", "D", "E", "F", "a", "b", "c", "d", "e", "f"}
MaskLetters == MaskHexLetters \cup
  {"G", "H", "I", "J", "K", "L", "M", "N", "O", "P", "Q", "R", "S", "T", "U", "V", "W", "X", "Y", "Z",
   "g", "h", "i", "j", "k", "l", "m", "n", "o", "p", "q", "r", "s", "t", "u", "v", "w", "x", "y", "z"}
MaskAccepts == [type \in {"D", "E", "e", "S", "B"} |->
  CASE type = "D" -> MaskDigits [] type \in {"E", "e"} -> MaskDigits \cup MaskHexLetters
    [] type = "B" -> {"0", "1"} [] OTHER -> MaskLetters]
MaskEditable(mask) == {i \in DOMAIN mask : mask[i] \in DOMAIN MaskAccepts}
MaskRequired(mask) == {i \in MaskEditable(mask) : mask[i] # "e"}
MaskPlaceholder(type) == IF type = "S" THEN " " ELSE "0"

ASSUME MaskAssumption ==
  /\ \A mask \in MaskMasks : mask \in Seq(STRING) /\ MaskRequired(mask) # {}
  /\ MaskValues \subseteq Seq(MaskChars)

-----------------------------------------------------------------------------
\* generic_fmt_reset, and the end of generic_fmt_init.
MaskBlank(mask) ==
  [buffer |-> [i \in DOMAIN mask |-> IF i \in MaskEditable(mask) THEN MaskPlaceholder(mask[i]) ELSE mask[i]],
   pos |-> 1, complete |-> FALSE]

\* generic_fmt_is_complete, generic_fmt_is_full.
MaskIsComplete(mask, buffer) == \A i \in MaskRequired(mask) : buffer[i] # MaskPlaceholder(mask[i])
MaskIsFull == maskField.pos > Len(maskMask)

\* The next place to type into, past the fixed characters.
MaskPlace(mask, pos) ==
  LET left == {i \in MaskEditable(mask) : i >= pos}
  IN  IF left = {} THEN Len(mask) + 1 ELSE CHOOSE i \in left : \A j \in left : i <= j

MaskTakes(mask, field, c) ==
  LET i == MaskPlace(mask, field.pos) IN i <= Len(mask) /\ c \in MaskAccepts[mask[i]]

\* generic_fmt_add_char: a character that is refused may still move on past
\* fixed ones.
MaskAdded(mask, field, c) ==
  LET i == MaskPlace(mask, field.pos)
      buffer == [field.buffer EXCEPT ![i] = c]
  IN  IF MaskTakes(mask, field, c)
        THEN [buffer |-> buffer, pos |-> i + 1, complete |-> MaskIsComplete(mask, buffer)]
        ELSE [field EXCEPT !.pos = i]

\* The next round of a loop that has a field, the characters taken into it,
\* and whether one was refused.
MaskTakeNext(mask, s, c) ==
  IF s.over THEN s
  ELSE [field |-> MaskAdded(mask, s.field, c), over |-> ~MaskTakes(mask, s.field, c),
        typed |-> IF MaskTakes(mask, s.field, c) THEN Append(s.typed, c) ELSE s.typed]

\* generic_fmt_set_value: characters are added until one is refused.
MaskTaken(mask, value) ==
  LET after[n \in 0 .. Len(value)] ==
        IF n = 0 THEN [field |-> MaskBlank(mask), over |-> FALSE, typed |-> <<>>]
        ELSE MaskTakeNext(mask, after[n - 1], value[n])
  IN  after[Len(value)]

-----------------------------------------------------------------------------
MaskInit == maskMask \in MaskMasks /\ maskField = MaskBlank(maskMask) /\ maskTyped = <<>>

MaskAddChar ==
  \E c \in MaskChars :
    /\ maskField' = MaskAdded(maskMask, maskField, c)
    /\ maskTyped' = IF MaskTakes(maskMask, maskField, c) THEN Append(maskTyped, c) ELSE maskTyped
    /\ UNCHANGED maskMask

\* generic_fmt_set_value.
MaskSetValue ==
  \E value \in MaskValues :
    LET taken == MaskTaken(maskMask, value)
    IN  /\ maskField' = [taken.field EXCEPT !.complete = MaskIsComplete(maskMask, taken.field.buffer)]
        /\ maskTyped' = taken.typed
        /\ UNCHANGED maskMask

\* Seeded fault: the position is not reset.
MaskResetText ==
  /\ maskField' = [MaskBlank(maskMask) EXCEPT !.pos = maskField.pos]
  /\ maskTyped' = <<>>
  /\ UNCHANGED maskMask

MaskReset ==
  /\ maskField' = MaskBlank(maskMask)
  /\ maskTyped' = <<>>
  /\ UNCHANGED maskMask

MaskNext == MaskAddChar \/ MaskSetValue \/ MaskReset

MaskSpec == MaskInit /\ [][MaskNext]_maskVars

-----------------------------------------------------------------------------
(* Properties.                                                             *)

\* Which of the places to type into a place is.
MaskRank(mask, i) == Cardinality({j \in MaskEditable(mask) : j <= i})

\* However characters come, one by one or as a text, taken or refused, the
\* fixed characters stay in place and the n-th character taken stands at the
\* n-th place to type into, the others holding their placeholder; nothing is
\* called complete or full before every required place is typed, or every one
\* (mask_format.c:118-239).
MaskHoldsWhatWasTyped ==
  LET editable == MaskEditable(maskMask)
      rank(i) == MaskRank(maskMask, i)
      typed(i) == rank(i) <= Len(maskTyped)
  IN  /\ \A i \in DOMAIN maskMask :
           maskField.buffer[i] = IF i \notin editable THEN maskMask[i]
                                 ELSE IF typed(i) THEN maskTyped[rank(i)] ELSE MaskPlaceholder(maskMask[i])
      /\ \A i \in editable : typed(i) <=> i < maskField.pos
      /\ maskField.complete => \A i \in MaskRequired(maskMask) : typed(i)
      /\ MaskIsFull => \A i \in editable : typed(i)

\* A field with every required place typed is complete (mask_format.h:59, "Se
\* todos os campos obrigatórios foram preenchidos"; :77-78).
CompleteWhenFilled ==
  (\A i \in MaskRequired(maskMask) : MaskRank(maskMask, i) <= Len(maskTyped)) => maskField.complete
=============================================================================
