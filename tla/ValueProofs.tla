---------------------------- MODULE ValueProofs -----------------------------
(***************************************************************************)
(* The values the panel works with: the theorems of RtcLib, MaskFormat and *)
(* NumberFormat, for any dates and times, any masks and texts and any      *)
(* format of a number.                                                     *)
(*                                                                         *)
(* They speak of what loops compute over their whole input.  Induction is  *)
(* had from the library's well-founded subset ordering: a set of numbers   *)
(* has a least one (LeastIn), so a set with zero that is closed under + 1  *)
(* is all of them (InductIn), and a function defined by recursion exists   *)
(* (RecursionIn).  Each use puts the claim into a set of its own.          *)
(***************************************************************************)
EXTENDS NumberFormat, MaskFormat, RtcLib, FiniteSetTheorems, FunctionTheorems, SequenceTheorems, TLAPS

-----------------------------------------------------------------------------
(* Induction.                                                              *)

\* A set of numbers has a least one.
LEMMA LeastIn ==
  ASSUME NEW T \in SUBSET Nat, T # {}
  PROVE  \E m \in T : \A k \in T : m <= k
<1> DEFINE Below == {0 .. k : k \in T}
<1>1. IsWellFoundedOn(StrictSubsetOrdering(Nat), FiniteSubsetsOf(Nat))
  BY FS_StrictSubsetOrderingWellFounded
<1>2. Below \subseteq FiniteSubsetsOf(Nat) /\ Below # {}
  <2>1. ASSUME NEW k \in T PROVE IsFiniteSet(0 .. k) /\ (0 .. k) \in SUBSET Nat
    BY FS_Interval
  <2> QED BY <2>1 DEF FiniteSubsetsOf
<1> HIDE DEF Below
<1>3. PICK x \in Below : \A y \in Below : ~ (<<y, x>> \in StrictSubsetOrdering(Nat))
  BY ONLY <1>1, <1>2, WFMin
<1> USE DEF Below
<1>4. PICK m \in T : x = 0 .. m OBVIOUS
<1>5. ASSUME NEW k \in T, k < m PROVE FALSE
  <2>1. (0 .. k) \subseteq (0 .. m) /\ m \in 0 .. m /\ m \notin 0 .. k BY <1>5
  <2>2. (0 .. k) # (0 .. m) BY <2>1
  <2>3. <<0 .. k, 0 .. m>> \in (SUBSET Nat) \X (SUBSET Nat) OBVIOUS
  <2>4. <<0 .. k, 0 .. m>> \in StrictSubsetOrdering(Nat)
    BY <2>1, <2>2, <2>3, Zenon DEF StrictSubsetOrdering
  <2> QED BY <1>3, <1>4, <2>4
<1> QED BY <1>5

\* Induction over the natural numbers.
LEMMA InductIn ==
  ASSUME NEW T, 0 \in T, \A n \in Nat : n \in T => n + 1 \in T
  PROVE  Nat \subseteq T
<1> SUFFICES ASSUME Nat \ T # {} PROVE FALSE OBVIOUS
<1>1. PICK m \in Nat \ T : \A k \in Nat \ T : m <= k
  <2> Nat \ T \in SUBSET Nat OBVIOUS
  <2> QED BY LeastIn
<1>2. m - 1 \in Nat /\ m - 1 \in T BY <1>1
<1> QED BY <1>1, <1>2

\* The function that recursion over 0 .. K, from first by the steps of next,
\* defines exists.
HasRecursion(K, X, first, next) ==
  \E g \in [0 .. K -> X] : g[0] = first /\ \A n \in 1 .. K : g[n] = next[n][g[n - 1]]

LEMMA RecursionIn ==
  ASSUME NEW K \in Nat, NEW X, NEW first \in X, NEW next \in [1 .. K -> [X -> X]]
  PROVE  HasRecursion(K, X, first, next)
<1> DEFINE Is(g, k) == g \in [0 .. k -> X] /\ g[0] = first /\ \A n \in 1 .. k : g[n] = next[n][g[n - 1]]
           T == {k \in Nat : k <= K => \E g : Is(g, k)}
<1>1. 0 \in T
  <2> DEFINE g == [n \in 0 .. 0 |-> first]
  <2>1. Is(g, 0) OBVIOUS
  <2> QED BY <2>1
<1>2. ASSUME NEW k \in Nat, k \in T PROVE k + 1 \in T
  <2> SUFFICES ASSUME k + 1 <= K PROVE \E h : Is(h, k + 1) OBVIOUS
  <2>1. PICK g : Is(g, k) BY <1>2
  <2> DEFINE h == [n \in 0 .. k + 1 |-> IF n <= k THEN g[n] ELSE next[k + 1][g[k]]]
  <2>2. g[k] \in X /\ k + 1 \in 1 .. K BY <2>1
  <2>3. next[k + 1][g[k]] \in X BY <2>2
  <2>4. h \in [0 .. k + 1 -> X] BY <2>1, <2>3
  <2>5. h[0] = first BY <2>1
  <2>6. ASSUME NEW n \in 1 .. k + 1 PROVE h[n] = next[n][h[n - 1]]
    <3>1. CASE n <= k BY <2>1, <3>1
    <3>2. CASE n = k + 1 BY <3>2
    <3> QED BY <3>1, <3>2
  <2> HIDE DEF h
  <2> QED BY <2>4, <2>5, <2>6
<1>3. K \in T
  <2> HIDE DEF T
  <2> QED BY <1>1, <1>2, InductIn
<1> QED BY <1>3 DEF HasRecursion

-----------------------------------------------------------------------------
(* The calendar.                                                           *)

\* A quotient grows by one at the multiples of its divisor.
LEMMA RtcDivides ==
  ASSUME NEW y \in Nat, NEW k \in {4, 100, 400}
  PROVE  /\ (y + 1) \div k \in Nat /\ y \div k \in Nat
         /\ (y + 1) \div k = IF (y + 1) % k = 0 THEN y \div k + 1 ELSE y \div k
<1>1. CASE k = 4 BY <1>1
<1>2. CASE k = 100 BY <1>2
<1>3. CASE k = 400 BY <1>3
<1> QED BY <1>1, <1>2, <1>3

\* The leap years since 1970, counted, in closed form.
LEMMA RtcLeapCount ==
  ASSUME NEW y \in Nat, y >= 1970
  PROVE  /\ IsFiniteSet(RtcLeaps(y))
         /\ Cardinality(RtcLeaps(y)) = (y - 1) \div 4 - (y - 1) \div 100 + (y - 1) \div 400 - 477
<1> DEFINE F(x) == (x - 1) \div 4 - (x - 1) \div 100 + (x - 1) \div 400 - 477
           T == {n \in Nat : IsFiniteSet(RtcLeaps(n + 1970)) /\ Cardinality(RtcLeaps(n + 1970)) = F(n + 1970)}
<1>1. 0 \in T
  <2>1. RtcLeaps(0 + 1970) = {} BY DEF RtcLeaps
  <2>2. F(0 + 1970) = 0 OBVIOUS
  <2> QED BY <2>1, <2>2, FS_EmptySet
<1>2. ASSUME NEW n \in Nat, n \in T PROVE n + 1 \in T
  <2> DEFINE x == n + 1970
  <2>1. n + 1 + 1970 = x + 1 /\ x \in Nat /\ x >= 1970 /\ x - 1 \in Nat OBVIOUS
  <2>2. IsFiniteSet(RtcLeaps(x)) /\ Cardinality(RtcLeaps(x)) = F(x) BY <1>2
  <2>3. /\ x \div 4 = IF x % 4 = 0 THEN (x - 1) \div 4 + 1 ELSE (x - 1) \div 4
        /\ x \div 100 = IF x % 100 = 0 THEN (x - 1) \div 100 + 1 ELSE (x - 1) \div 100
        /\ x \div 400 = IF x % 400 = 0 THEN (x - 1) \div 400 + 1 ELSE (x - 1) \div 400
        /\ (x - 1) \div 4 \in Nat /\ (x - 1) \div 100 \in Nat /\ (x - 1) \div 400 \in Nat
    <3>1. x - 1 + 1 = x BY <2>1
    <3> QED BY <3>1, <2>1, RtcDivides
  <2>4. (x % 400 = 0 => x % 100 = 0) /\ (x % 100 = 0 => x % 4 = 0) BY <2>1
  <2>5. F(x + 1) = IF RtcIsLeapYear(x) THEN F(x) + 1 ELSE F(x)
    <3>1. x + 1 - 1 = x BY <2>1
    <3>2. F(x + 1) = x \div 4 - x \div 100 + x \div 400 - 477 BY <3>1
    <3> QED BY <3>2, <2>3, <2>4 DEF RtcIsLeapYear
  <2>6. CASE RtcIsLeapYear(x)
    <3>1. RtcLeaps(x + 1) = RtcLeaps(x) \cup {x} BY <2>1, <2>6 DEF RtcLeaps
    <3>2. x \notin RtcLeaps(x) BY <2>1 DEF RtcLeaps
    <3>3. IsFiniteSet(RtcLeaps(x + 1)) /\ Cardinality(RtcLeaps(x + 1)) = Cardinality(RtcLeaps(x)) + 1
      BY <2>2, <3>1, <3>2, FS_AddElement
    <3> QED BY <2>1, <2>2, <2>5, <2>6, <3>3
  <2>7. CASE ~RtcIsLeapYear(x)
    <3>1. RtcLeaps(x + 1) = RtcLeaps(x) BY <2>1, <2>7 DEF RtcLeaps
    <3> QED BY <2>1, <2>2, <2>5, <2>7, <3>1
  <2> QED BY <2>6, <2>7
<1>3. Nat \subseteq T
  <2> HIDE DEF T
  <2> QED BY <1>1, <1>2, InductIn
<1>4. y - 1970 \in T BY <1>3
<1>5. y - 1970 + 1970 = y OBVIOUS
<1> QED BY <1>4, <1>5

\* The lengths of the months.
LEMMA RtcMonthDays == ASSUME NEW y, NEW m PROVE RtcMonthLength(y, m) \in {28, 29, 30, 31}
BY DEF RtcMonthLength

\* The days of one month more.
LEMMA RtcDaysGrow ==
  ASSUME NEW y, NEW m \in 1 .. 12, IsFiniteSet(RtcDaysBefore(y, m))
  PROVE  /\ IsFiniteSet(RtcDaysBefore(y, m + 1))
         /\ Cardinality(RtcDaysBefore(y, m + 1)) = Cardinality(RtcDaysBefore(y, m)) + RtcMonthLength(y, m)
<1> DEFINE N == RtcMonthLength(y, m)
           D == {m} \X (1 .. N)
           f == [n \in 1 .. N |-> <<m, n>>]
<1>1. N \in Nat /\ N <= 31 BY RtcMonthDays
<1>2. RtcDaysBefore(y, m + 1) = RtcDaysBefore(y, m) \cup D
  BY <1>1 DEF RtcDaysBefore
<1>3. RtcDaysBefore(y, m) \cap D = {} BY DEF RtcDaysBefore
<1>4. f \in Bijection(1 .. N, D)
  <2> HIDE DEF N
  <2>1. f \in [1 .. N -> D] OBVIOUS
  <2>2. \A i, j \in 1 .. N : f[i] = f[j] => i = j OBVIOUS
  <2>3. \A u \in D : \E i \in 1 .. N : f[i] = u OBVIOUS
  <2> HIDE DEF f, D
  <2> QED BY <2>1, <2>2, <2>3, Fun_IsBij
<1>5. IsFiniteSet(1 .. N) /\ Cardinality(1 .. N) = N BY <1>1, FS_Interval
<1>6. IsFiniteSet(D) /\ Cardinality(D) = N
  BY <1>4, <1>5, FS_Bijection DEF ExistsBijection
<1> HIDE DEF D, N
<1>7. IsFiniteSet(RtcDaysBefore(y, m) \cup D)
      /\ Cardinality(RtcDaysBefore(y, m) \cup D)
           = Cardinality(RtcDaysBefore(y, m)) + Cardinality(D) - Cardinality(RtcDaysBefore(y, m) \cap D)
  BY <1>6, FS_Union
<1>8. Cardinality(RtcDaysBefore(y, m)) \in Nat /\ Cardinality({}) = 0 BY FS_CardinalityType, FS_EmptySet
<1> QED BY <1>1, <1>2, <1>3, <1>6, <1>7, <1>8 DEF N

\* The days before a month.
LEMMA RtcDaysCount ==
  ASSUME NEW y, NEW m \in 1 .. 12
  PROVE  Cardinality(RtcDaysBefore(y, m))
           = IF m <= 2 THEN 31 * (m - 1)
             ELSE (IF RtcIsLeapYear(y) THEN 1 ELSE 0) + 30 * m + (3 * (m + 1)) \div 5 - 33
<1> DEFINE B(k) == RtcDaysBefore(y, k)
           L == IF RtcIsLeapYear(y) THEN 29 ELSE 28
<1>1. IsFiniteSet(B(1)) /\ Cardinality(B(1)) = 0
  <2>1. B(1) = {} BY DEF RtcDaysBefore
  <2> QED BY <2>1, FS_EmptySet
<1>2. ASSUME NEW k \in 1 .. 12, IsFiniteSet(B(k))
      PROVE  IsFiniteSet(B(k + 1)) /\ Cardinality(B(k + 1)) = Cardinality(B(k)) + RtcMonthLength(y, k)
  BY <1>2, RtcDaysGrow
<1> HIDE DEF B
<1>3. /\ RtcMonthLength(y, 1) = 31 /\ RtcMonthLength(y, 2) = L /\ RtcMonthLength(y, 3) = 31
      /\ RtcMonthLength(y, 4) = 30 /\ RtcMonthLength(y, 5) = 31 /\ RtcMonthLength(y, 6) = 30
      /\ RtcMonthLength(y, 7) = 31 /\ RtcMonthLength(y, 8) = 31 /\ RtcMonthLength(y, 9) = 30
      /\ RtcMonthLength(y, 10) = 31 /\ RtcMonthLength(y, 11) = 30
  BY DEF RtcMonthLength
<1>4. L \in {28, 29} OBVIOUS
<1> HIDE DEF L
<1>5. IsFiniteSet(B(2)) /\ Cardinality(B(2)) = 31 BY <1>1, <1>2, <1>3
<1>6. IsFiniteSet(B(3)) /\ Cardinality(B(3)) = L + 31 BY <1>2, <1>3, <1>4, <1>5
<1>7. IsFiniteSet(B(4)) /\ Cardinality(B(4)) = L + 62 BY <1>2, <1>3, <1>4, <1>6
<1>8. IsFiniteSet(B(5)) /\ Cardinality(B(5)) = L + 92 BY <1>2, <1>3, <1>4, <1>7
<1>9. IsFiniteSet(B(6)) /\ Cardinality(B(6)) = L + 123 BY <1>2, <1>3, <1>4, <1>8
<1>10. IsFiniteSet(B(7)) /\ Cardinality(B(7)) = L + 153 BY <1>2, <1>3, <1>4, <1>9
<1>11. IsFiniteSet(B(8)) /\ Cardinality(B(8)) = L + 184 BY <1>2, <1>3, <1>4, <1>10
<1>12. IsFiniteSet(B(9)) /\ Cardinality(B(9)) = L + 215 BY <1>2, <1>3, <1>4, <1>11
<1>13. IsFiniteSet(B(10)) /\ Cardinality(B(10)) = L + 245 BY <1>2, <1>3, <1>4, <1>12
<1>14. IsFiniteSet(B(11)) /\ Cardinality(B(11)) = L + 276 BY <1>2, <1>3, <1>4, <1>13
<1>15. IsFiniteSet(B(12)) /\ Cardinality(B(12)) = L + 306 BY <1>2, <1>3, <1>4, <1>14
<1>16. L - 28 = IF RtcIsLeapYear(y) THEN 1 ELSE 0 BY DEF L
<1>17. m <= 2 => Cardinality(B(m)) = 31 * (m - 1)
  BY <1>1, <1>5
<1>18. m > 2 => Cardinality(B(m)) = L - 28 + 30 * m + (3 * (m + 1)) \div 5 - 33
  BY <1>4, <1>6, <1>7, <1>8, <1>9, <1>10, <1>11, <1>12, <1>13, <1>14, <1>15
<1> QED BY <1>16, <1>17, <1>18 DEF B

-----------------------------------------------------------------------------
\* A day of the calendar from a year on; a day the clock takes; and one as far
\* as the timestamps go.
RtcIsDateFrom(first, d) ==
  /\ d = [year |-> d.year, mon |-> d.mon, mday |-> d.mday, secs |-> d.secs]
  /\ d.year \in Nat /\ first <= d.year
  /\ d.mon \in 1 .. 12 /\ d.mday \in 1 .. 31 /\ d.secs \in Nat /\ d.secs < 86400
  /\ d.mday <= RtcMonthLength(d.year, d.mon)
RtcIsDate(d) == RtcIsDateFrom(2021, d)
RtcIsDay(d) == RtcIsDate(d) /\ d.year <= 2105

\* The leap days up to a year.
RtcLeapDays(y) == y \div 4 - y \div 100 + y \div 400

\* A leap year has one more.
LEMMA RtcLeapStep ==
  ASSUME NEW y \in Nat, y >= 1
  PROVE  /\ RtcLeapDays(y) = RtcLeapDays(y - 1) + (IF RtcIsLeapYear(y) THEN 1 ELSE 0)
         /\ RtcLeapDays(y) \in Nat /\ RtcLeapDays(y - 1) \in Nat
<1>1. /\ y \div 4 = IF y % 4 = 0 THEN (y - 1) \div 4 + 1 ELSE (y - 1) \div 4
      /\ y \div 100 = IF y % 100 = 0 THEN (y - 1) \div 100 + 1 ELSE (y - 1) \div 100
      /\ y \div 400 = IF y % 400 = 0 THEN (y - 1) \div 400 + 1 ELSE (y - 1) \div 400
      /\ (y - 1) \div 4 \in Nat /\ (y - 1) \div 100 \in Nat /\ (y - 1) \div 400 \in Nat
  <2>1. y - 1 + 1 = y /\ y - 1 \in Nat OBVIOUS
  <2> QED BY <2>1, RtcDivides
<1>2. (y % 400 = 0 => y % 100 = 0) /\ (y % 100 = 0 => y % 4 = 0) OBVIOUS
<1>3. RtcLeapDays(y) = RtcLeapDays(y - 1) + (IF RtcIsLeapYear(y) THEN 1 ELSE 0)
  BY <1>1, <1>2 DEF RtcLeapDays, RtcIsLeapYear
<1>4. ASSUME NEW z \in Nat PROVE RtcLeapDays(z) \in Nat
  <2>1. z \div 4 \in Nat /\ z \div 100 \in Nat /\ z \div 400 \in Nat /\ z \div 100 <= z \div 4 BY SMT
  <2> QED BY <2>1 DEF RtcLeapDays
<1> QED BY <1>3, <1>4

\* A year by its centuries and its groups of four.
LEMMA RtcCenturies ==
  ASSUME NEW y \in Nat, 2021 <= y, y <= 2106
  PROVE  /\ RtcIsLeapYear(y) <=> y % 4 = 0 /\ y # 2100
         /\ (y - 1) \div 400 = 5 /\ y \div 400 = 5
         /\ (y - 1) \div 100 = (IF y <= 2100 THEN 20 ELSE 21)
         /\ y \div 100 = (IF y < 2100 THEN 20 ELSE 21)
         /\ (y - 1) \div 4 = (IF y % 4 = 0 THEN y \div 4 - 1 ELSE y \div 4)
         /\ y \div 4 \in Nat /\ y % 4 \in Nat /\ y % 4 < 4 /\ y - 4 * (y \div 4) = y % 4
<1>1. (y - 1) \div 400 = 5 /\ y \div 400 = 5 OBVIOUS
<1>2. (y - 1) \div 100 = (IF y <= 2100 THEN 20 ELSE 21) /\ y \div 100 = (IF y < 2100 THEN 20 ELSE 21) OBVIOUS
<1>3. /\ (y - 1) \div 4 = (IF y % 4 = 0 THEN y \div 4 - 1 ELSE y \div 4)
      /\ y \div 4 \in Nat /\ y % 4 \in Nat /\ y % 4 < 4 /\ y - 4 * (y \div 4) = y % 4
  <2>1. y - 1 \in Nat /\ y - 1 + 1 = y OBVIOUS
  <2>2. y \div 4 = IF y % 4 = 0 THEN (y - 1) \div 4 + 1 ELSE (y - 1) \div 4 BY <2>1, RtcDivides
  <2>3. (y - 1) \div 4 \in Nat /\ y \div 4 \in Nat BY <2>1
  <2>4. y % 4 \in Nat /\ y % 4 < 4 OBVIOUS
  <2>5. y - 4 * (y \div 4) = y % 4 BY SMT
  <2> QED BY <2>2, <2>3, <2>4, <2>5
<1>4. y % 400 # 0 /\ (y % 100 = 0 <=> y = 2100) OBVIOUS
<1> QED BY <1>1, <1>2, <1>3, <1>4 DEF RtcIsLeapYear

\* How many days a date is away from 1 January 1970.
LEMMA RtcDayCountIs ==
  ASSUME NEW d, RtcIsDate(d)
  PROVE  RtcDayCount(d)
           = 365 * (d.year - 1970) + RtcLeapDays(d.year - 1) - 477
             + (IF d.mon <= 2 THEN 31 * (d.mon - 1)
                ELSE (IF RtcIsLeapYear(d.year) THEN 1 ELSE 0) + 30 * d.mon + (3 * (d.mon + 1)) \div 5 - 33)
             + d.mday - 1
<1>1. d.year \in Nat /\ 2021 <= d.year /\ d.mon \in 1 .. 12 /\ d.mday \in 1 .. 31 BY DEF RtcIsDate, RtcIsDateFrom
<1>2. Cardinality(RtcLeaps(d.year)) = RtcLeapDays(d.year - 1) - 477
  BY <1>1, RtcLeapCount, SMT DEF RtcLeapDays
<1>3. Cardinality(RtcDaysBefore(d.year, d.mon))
        = IF d.mon <= 2 THEN 31 * (d.mon - 1)
          ELSE (IF RtcIsLeapYear(d.year) THEN 1 ELSE 0) + 30 * d.mon + (3 * (d.mon + 1)) \div 5 - 33
  BY <1>1, RtcDaysCount
<1> QED BY <1>1, <1>2, <1>3 DEF RtcDayCount

\* The days of a timestamp are that many.
LEMMA RtcDaysAre ==
  ASSUME NEW d, RtcIsDate(d)
  PROVE  RtcCalcDays(d) = RtcDayCount(d)
<1> DEFINE y == d.year
           m == d.mon
           n == d.mday
<1>1. y \in Nat /\ 2021 <= y /\ m \in 1 .. 12 /\ n \in 1 .. 31 BY DEF RtcIsDate, RtcIsDateFrom
<1>2. RtcLeapDays(y) = RtcLeapDays(y - 1) + (IF RtcIsLeapYear(y) THEN 1 ELSE 0)
      /\ RtcLeapDays(y) \in Nat /\ RtcLeapDays(y - 1) \in Nat
  BY <1>1, RtcLeapStep
<1>3. CASE m <= 2
  <2>1. RtcCalcDays(d) = 365 * (y - 1) + RtcLeapDays(y - 1) + 30 * (m + 12) + (3 * (m + 12 + 1)) \div 5 + n - 719561
    BY <1>1, <1>3, SMT DEF RtcCalcDays, RtcLeapDays
  <2>2. RtcDayCount(d) = 365 * (y - 1970) + RtcLeapDays(y - 1) - 477 + 31 * (m - 1) + n - 1
    BY <1>3, RtcDayCountIs
  <2>3. 30 * (m + 12) + (3 * (m + 12 + 1)) \div 5 = 31 * (m - 1) + 398
    <3>1. CASE m = 1 BY <3>1
    <3>2. CASE m = 2 BY <3>2
    <3> QED BY <1>1, <1>3, <3>1, <3>2
  <2> HIDE DEF y, m, n
  <2> QED BY <1>1, <1>2, <2>1, <2>2, <2>3, SMT
<1>4. CASE m > 2
  <2>1. RtcCalcDays(d) = 365 * y + RtcLeapDays(y) + 30 * m + (3 * (m + 1)) \div 5 + n - 719561
    BY <1>1, <1>4, SMT DEF RtcCalcDays, RtcLeapDays
  <2>2. RtcDayCount(d)
          = 365 * (y - 1970) + RtcLeapDays(y - 1) - 477
            + ((IF RtcIsLeapYear(y) THEN 1 ELSE 0) + 30 * m + (3 * (m + 1)) \div 5 - 33) + n - 1
    BY <1>1, <1>4, RtcDayCountIs
  <2>3. (3 * (m + 1)) \div 5 \in Int BY <1>1
  <2> HIDE DEF y, m, n
  <2> QED BY <1>1, <1>2, <2>1, <2>2, <2>3, SMT
<1> QED BY <1>1, <1>3, <1>4

\* What fits in 32 bits is kept.
LEMMA RtcFits ==
  ASSUME NEW n \in Nat, n < 49710, NEW s \in Nat, s < 86400
  PROVE  RtcWrap(n, s) = [days |-> n, secs |-> s]
<1>1. n \div 49710 = 0 /\ n % 49710 = n /\ s \div 86400 = 0 /\ s % 86400 = s BY SMT
<1>2. s - 23296 * 0 = s /\ n + 0 = n /\ n >= 0 OBVIOUS
<1> QED BY <1>1, <1>2 DEF RtcWrap

\* The timestamp is that many days, as long as it fits.
LEMMA RtcTimestampIs ==
  ASSUME NEW d, RtcIsDay(d)
  PROVE  RtcCalcTimestamp(d) = [days |-> RtcDayCount(d), secs |-> d.secs]
<1> DEFINE y == d.year
           m == d.mon
           n == d.mday
<1>1. y \in Nat /\ 2021 <= y /\ y <= 2105 /\ m \in 1 .. 12 /\ n \in 1 .. 31 /\ d.secs \in Nat /\ d.secs < 86400
  BY DEF RtcIsDay, RtcIsDate, RtcIsDateFrom
<1>2. RtcLeapDays(y - 1) \in Nat /\ RtcLeapDays(y - 1) <= 510 /\ 485 <= RtcLeapDays(y - 1)
  BY <1>1, SMT DEF RtcLeapDays
<1>3. RtcDayCount(d)
        = 365 * (y - 1970) + RtcLeapDays(y - 1) - 477
          + (IF m <= 2 THEN 31 * (m - 1)
             ELSE (IF RtcIsLeapYear(y) THEN 1 ELSE 0) + 30 * m + (3 * (m + 1)) \div 5 - 33)
          + n - 1
  BY RtcDayCountIs DEF RtcIsDay
<1>4. (3 * (m + 1)) \div 5 \in Nat /\ (3 * (m + 1)) \div 5 <= 7 BY <1>1, SMT
<1> HIDE DEF y, m, n
<1>5. RtcDayCount(d) \in Nat /\ RtcDayCount(d) < 49710 BY <1>1, <1>2, <1>3, <1>4, SMT
<1> QED BY <1>1, <1>5, RtcDaysAre, RtcFits DEF RtcCalcTimestamp, RtcIsDay

\* Weeks more do not change the day of the week.
LEMMA RtcWeeks ==
  ASSUME NEW x \in Nat, NEW k \in Nat
  PROVE  ((x % 7) + 1) % 7 = (x + 1 + 7 * k) % 7
<1> DEFINE q == x \div 7
           r == x % 7
<1>1. x - 7 * q = r /\ q \in Nat /\ r \in Nat /\ r < 7 BY SMT
<1>2. q + k \in Nat /\ x + 1 + 7 * k = 7 * (q + k) + (r + 1) BY <1>1, SMT
<1> HIDE DEF q, r
<1>3. CASE r < 6
  <2>1. (7 * (q + k) + (r + 1)) % 7 = r + 1 BY <1>1, <1>2, <1>3, SMT
  <2>2. (r + 1) % 7 = r + 1 BY <1>1, <1>3, SMT
  <2> QED BY <1>2, <2>1, <2>2 DEF r
<1>4. CASE r = 6
  <2>1. (7 * (q + k) + (r + 1)) % 7 = 0 BY <1>1, <1>2, <1>4, SMT
  <2>2. (r + 1) % 7 = 0 BY <1>4, SMT
  <2> QED BY <1>2, <2>1, <2>2 DEF r
<1> QED BY <1>1, <1>3, <1>4

\* The day of the week: 1 January 1970 was a Thursday.
LEMMA RtcWeekDayIs ==
  ASSUME NEW d, RtcIsDate(d)
  PROVE  RtcCalcWeekDay(d) = (RtcDayCount(d) + 4) % 7
<1> DEFINE y == d.year
           m == d.mon
           n == d.mday
           late == (14 - m) \div 12
           mm == m + 12 * late - 2
           yy == y - late
           x == n - 1 + (13 * mm - 1) \div 5 + yy + yy \div 4 - yy \div 100 + yy \div 400
<1>1. y \in Nat /\ 2021 <= y /\ m \in 1 .. 12 /\ n \in 1 .. 31 BY DEF RtcIsDate, RtcIsDateFrom
<1>2. RtcCalcWeekDay(d) = ((x % 7) + 1) % 7 BY <1>1 DEF RtcCalcWeekDay, RtcFullYear
<1>3. RtcLeapDays(y) = RtcLeapDays(y - 1) + (IF RtcIsLeapYear(y) THEN 1 ELSE 0)
      /\ RtcLeapDays(y) \in Nat /\ RtcLeapDays(y - 1) \in Nat
  BY <1>1, RtcLeapStep
<1>4. CASE m <= 2
  <2>1. late = 1 /\ mm = m + 10 /\ yy = y - 1
    <3>1. late = 1
      <4>1. CASE m = 1 BY <4>1
      <4>2. CASE m = 2 BY <4>2
      <4> QED BY <1>1, <1>4, <4>1, <4>2
    <3> QED BY <1>1, <3>1
  <2>2. RtcDayCount(d) = 365 * (y - 1970) + RtcLeapDays(y - 1) - 477 + 31 * (m - 1) + n - 1
    BY <1>4, RtcDayCountIs
  <2>3. (13 * mm - 1) \div 5 = 28 + 3 * (m - 1)
    <3>1. CASE m = 1 BY <3>1, <2>1
    <3>2. CASE m = 2 BY <3>2, <2>1
    <3> QED BY <1>1, <1>4, <3>1, <3>2
  <2> HIDE DEF late, mm, yy
  <2>4. x = n - 1 + 28 + 3 * (m - 1) + (y - 1) + RtcLeapDays(y - 1)
    BY <1>1, <2>1, <2>3, SMT DEF RtcLeapDays
  <2> DEFINE k == 52 * y + 4 * (m - 1) - 102793
  <2> HIDE DEF y, m, n, x
  <2>5. k \in Nat /\ x \in Nat BY <1>1, <1>3, <2>4, SMT
  <2>6. RtcDayCount(d) + 4 = x + 1 + 7 * k BY <1>1, <1>3, <2>2, <2>4, SMT
  <2> HIDE DEF k
  <2> QED BY <1>2, <2>5, <2>6, RtcWeeks
<1>5. CASE m > 2
  <2>1. late = 0 /\ mm = m - 2 /\ yy = y
    <3>1. late = 0 BY <1>1, <1>5
    <3> QED BY <1>1, <3>1
  <2>2. RtcDayCount(d)
          = 365 * (y - 1970) + RtcLeapDays(y - 1) - 477
            + ((IF RtcIsLeapYear(y) THEN 1 ELSE 0) + 30 * m + (3 * (m + 1)) \div 5 - 33) + n - 1
    BY <1>1, <1>5, RtcDayCountIs
  <2>3. x = n - 1 + (13 * (m - 2) - 1) \div 5 + y + RtcLeapDays(y)
    BY <2>1, <1>1, SMT DEF RtcLeapDays
  <2> DEFINE t == 30 * m + (3 * (m + 1)) \div 5 - (13 * (m - 2) - 1) \div 5
  <2>4. \E u \in Nat : t = 90 + 7 * u
    <3>3. CASE m = 3 BY <3>3
    <3>4. CASE m = 4 BY <3>4
    <3>5. CASE m = 5 BY <3>5
    <3>6. CASE m = 6 BY <3>6
    <3>7. CASE m = 7 BY <3>7
    <3>8. CASE m = 8 BY <3>8
    <3>9. CASE m = 9 BY <3>9
    <3>10. CASE m = 10 BY <3>10
    <3>11. CASE m = 11 BY <3>11
    <3>12. CASE m = 12 BY <3>12
    <3> QED BY <1>1, <1>5, <3>3, <3>4, <3>5, <3>6, <3>7, <3>8, <3>9, <3>10, <3>11, <3>12
  <2>5. PICK u \in Nat : t = 90 + 7 * u BY <2>4
  <2>6. (3 * (m + 1)) \div 5 \in Nat /\ (13 * (m - 2) - 1) \div 5 \in Nat BY <1>1, <1>5
  <2> DEFINE k == 52 * y + u - 102781
  <2> HIDE DEF y, m, n, x
  <2>7. k \in Nat /\ x \in Nat BY <1>1, <1>3, <2>3, <2>6, SMT
  <2>8. RtcDayCount(d) + 4 = x + 1 + 7 * k BY <1>1, <1>3, <2>2, <2>3, <2>5, <2>6, SMT
  <2> HIDE DEF k
  <2> QED BY <1>2, <2>7, <2>8, RtcWeeks
<1> QED BY <1>1, <1>4, <1>5

-----------------------------------------------------------------------------
\* The year of a day: a year of 365 days and a quarter.
LEMMA RtcYearOf ==
  ASSUME NEW y \in Nat, NEW h \in Nat, NEW b \in Nat, 93 <= h, h <= 458, h = 458 => y % 4 = 3,
         b = 365 * y + y \div 4 + h + 1722549
  PROVE  (20 * b - 2442) \div 7305 = y + 4716 /\ b - 365 * (y + 4716) - (y + 4716) \div 4 = h + 30
<1> DEFINE q == y \div 4
           r == y % 4
<1>1. q \in Nat /\ r \in Nat /\ r < 4 /\ y - 4 * q = r BY SMT
<1>2. (y + 4716) \div 4 = q + 1179 BY SMT
<1>3. 20 * b - 2442 - 7305 * (y + 4716) = 20 * h - 5 * r - 1842
  <2> HIDE DEF q, r
  <2>1. b = 365 * y + q + h + 1722549 BY SMT DEF q
  <2> QED BY <1>1, <2>1, SMT
<1>4. 0 <= 20 * h - 5 * r - 1842 /\ 20 * h - 5 * r - 1842 < 7305
  <2> HIDE DEF q
  <2>1. h = 458 => r = 3 OBVIOUS
  <2> HIDE DEF r
  <2> QED BY <1>1, <2>1, SMT
<1> DEFINE z == 20 * b - 2442
           x == y + 4716
<1>5. z \in Int /\ x \in Int BY SMT
<1>6. 0 <= z - 7305 * x /\ z - 7305 * x < 7305
  <2> HIDE DEF q, r
  <2> QED BY <1>1, <1>3, <1>4, SMT
<1>7. z \div 7305 = x
  <2> HIDE DEF z, x, q, r
  <2> QED BY <1>5, <1>6, SMT
<1>8. b - 365 * (y + 4716) - (y + 4716) \div 4 = h + 30
  <2>1. b = 365 * y + q + h + 1722549 BY SMT
  <2> HIDE DEF q, r
  <2> QED BY <1>1, <1>2, <2>1, SMT
<1> QED BY <1>7, <1>8

\* The month and the day of a day of the year that begins in March.
LEMMA RtcMonthOf ==
  ASSUME NEW m \in 3 .. 14, NEW n \in 1 .. 31, m \in {4, 6, 9, 11} => n <= 30, m = 14 => n <= 29,
         NEW k, k = 30 * m + (3 * (m + 1)) \div 5 + n + 30
  PROVE  /\ k \in Nat /\ 123 <= k /\ k <= 488 /\ (k = 488 <=> m = 14 /\ n = 29)
         /\ (k * 1000) \div 30601 = m + 1 /\ k - (m + 1) * 30 - ((m + 1) * 601) \div 1000 = n
<1>3. CASE m = 3 BY <1>3, SMT
<1>4. CASE m = 4 BY <1>4, SMT
<1>5. CASE m = 5 BY <1>5, SMT
<1>6. CASE m = 6 BY <1>6, SMT
<1>7. CASE m = 7 BY <1>7, SMT
<1>8. CASE m = 8 BY <1>8, SMT
<1>9. CASE m = 9 BY <1>9, SMT
<1>10. CASE m = 10 BY <1>10, SMT
<1>11. CASE m = 11 BY <1>11, SMT
<1>12. CASE m = 12 BY <1>12, SMT
<1>13. CASE m = 13 BY <1>13, SMT
<1>14. CASE m = 14 BY <1>14, SMT
<1>15. m \in {3, 4, 5, 6, 7, 8, 9, 10, 11, 12, 13, 14} BY SMT
<1> QED BY <1>3, <1>4, <1>5, <1>6, <1>7, <1>8, <1>9, <1>10, <1>11, <1>12, <1>13, <1>14, <1>15, SMT

\* The year and the month a conversion begins in March with.
RtcMarchYear(d) == IF d.mon <= 2 THEN d.year - 1 ELSE d.year
RtcMarchMonth(d) == IF d.mon <= 2 THEN d.mon + 12 ELSE d.mon

\* The conversion of a date's timestamp is the date.
LEMMA RtcCivilIs ==
  ASSUME NEW d, RtcIsDay(d)
  PROVE  RtcCivil([days |-> RtcCalcDays(d), secs |-> d.secs]) = d
<1> DEFINE y == RtcMarchYear(d)
           m == RtcMarchMonth(d)
           n == d.mday
           t == 365 * y + y \div 4 - y \div 100 + y \div 400 + 30 * m + (3 * (m + 1)) \div 5 + n - 719561
           h == 30 * m + (3 * (m + 1)) \div 5 + n
           a == (4 * t + 102032) \div 146097 + 15
           b == t + 2442113 + a - a \div 4
           c == (20 * b - 2442) \div 7305
           k == b - 365 * c - c \div 4
           e == (k * 1000) \div 30601
           f == k - e * 30 - (e * 601) \div 1000
<1>1. d.year \in Nat /\ 2021 <= d.year /\ d.year <= 2106 /\ d.mon \in 1 .. 12 /\ n \in 1 .. 31
  BY DEF RtcIsDay, RtcIsDate, RtcIsDateFrom
<1>2. RtcCalcDays(d) = t BY SMT DEF RtcCalcDays, RtcMarchYear, RtcMarchMonth
<1>3. y \in Nat /\ 2020 <= y /\ y <= 2106 /\ m \in 3 .. 14 BY <1>1, SMT DEF RtcMarchYear, RtcMarchMonth
<1>4. (m \in {4, 6, 9, 11} => n <= 30) /\ (m = 14 => n <= 29)
  BY <1>1, SMT DEF RtcIsDay, RtcIsDate, RtcIsDateFrom, RtcMonthLength, RtcMarchMonth
<1>5. m = 14 /\ n = 29 => y % 4 = 3 /\ y # 2099
  <2> SUFFICES ASSUME m = 14, n = 29 PROVE y % 4 = 3 /\ y # 2099 OBVIOUS
  <2>1. d.mon = 2 /\ y = d.year - 1 BY <1>1, SMT DEF RtcMarchYear, RtcMarchMonth
  <2>2. RtcIsLeapYear(d.year) BY <2>1, SMT DEF RtcIsDay, RtcIsDate, RtcIsDateFrom, RtcMonthLength
  <2>3. d.year % 4 = 0 /\ d.year # 2100 BY <1>1, <2>2, RtcCenturies
  <2> QED BY <1>1, <2>1, <2>3, SMT
<1>6. /\ h \in Nat /\ 93 <= h /\ h <= 458 /\ (h = 458 => y % 4 = 3 /\ y # 2099)
      /\ ((h + 30) * 1000) \div 30601 = m + 1 /\ h + 30 - (m + 1) * 30 - ((m + 1) * 601) \div 1000 = n
  <2> DEFINE j == 30 * m + (3 * (m + 1)) \div 5 + n + 30
  <2> HIDE DEF y, m, n
  <2>1. /\ j \in Nat /\ 123 <= j /\ j <= 488 /\ (j = 488 <=> m = 14 /\ n = 29)
        /\ (j * 1000) \div 30601 = m + 1 /\ j - (m + 1) * 30 - ((m + 1) * 601) \div 1000 = n
    BY <1>1, <1>3, <1>4, RtcMonthOf, SMT
  <2>2. j = h + 30 /\ h \in Int BY <1>1, <1>3, SMT
  <2> HIDE DEF h, j
  <2> QED BY <1>5, <2>1, <2>2, SMT
<1>7. /\ t = 365 * y + y \div 4 - y \div 100 + y \div 400 + h - 719561 /\ h \in Nat
      /\ y \div 4 \in Nat /\ y \div 400 = 5 /\ y \div 100 = IF y < 2100 THEN 20 ELSE 21
  <2> HIDE DEF y, m, n
  <2>1. (3 * (m + 1)) \div 5 \in Nat BY <1>3, SMT
  <2>2. t = 365 * y + y \div 4 - y \div 100 + y \div 400 + h - 719561 BY <1>1, <1>3, <2>1, SMT
  <2> HIDE DEF t, h
  <2> QED BY <1>3, <1>6, <2>2, SMT
<1>8. b = 365 * y + y \div 4 + h + 1722549
  <2> HIDE DEF y, m, n, h
  <2> DEFINE q == y \div 4
  <2>1. q \in Nat /\ 4 * q <= y /\ y <= 4 * q + 3 BY <1>3, SMT
  <2>2. CASE y < 2100
    <3>1. t = 365 * y + q - 20 + 5 + h - 719561 BY <1>7, <2>2
    <3> HIDE DEF t, q
    <3>2. t \in Int /\ 11017 <= t /\ t <= 47540 BY <1>3, <1>6, <2>1, <2>2, <3>1, SMT
    <3>3. a = 16 /\ a \div 4 = 4 BY <3>2, SMT
    <3> HIDE DEF a
    <3>4. b = t + 2442125 BY <3>2, <3>3, SMT
    <3>5. b = 365 * y + q + h + 1722549 BY <1>3, <1>6, <2>1, <3>1, <3>4, SMT
    <3> QED BY <3>5 DEF q
  <2>3. CASE y >= 2100
    <3>1. t = 365 * y + q - 21 + 5 + h - 719561 BY <1>3, <1>7, <2>3
    <3> HIDE DEF t, q
    <3>2. t \in Int /\ 47541 <= t /\ t <= 60000 BY <1>3, <1>6, <2>1, <2>3, <3>1, SMT
    <3>3. a = 17 /\ a \div 4 = 4 BY <3>2, SMT
    <3> HIDE DEF a
    <3>4. b = t + 2442126 BY <3>2, <3>3, SMT
    <3>5. b = 365 * y + q + h + 1722549 BY <1>3, <1>6, <2>1, <3>1, <3>4, SMT
    <3> QED BY <3>5 DEF q
  <2> QED BY <1>3, <2>2, <2>3
<1>9. c = y + 4716 /\ k = h + 30
  <2> HIDE DEF y, m, n, h, t, a
  <2>1. b \in Nat
    <3> HIDE DEF b
    <3> QED BY <1>3, <1>6, <1>7, <1>8, SMT
  <2> HIDE DEF b
  <2>2. (20 * b - 2442) \div 7305 = y + 4716 /\ b - 365 * (y + 4716) - (y + 4716) \div 4 = h + 30
    BY <1>3, <1>6, <1>8, <2>1, RtcYearOf, SMT
  <2>3. c = y + 4716 BY <2>2
  <2> HIDE DEF c
  <2> QED BY <2>2, <2>3
<1>10. e = m + 1 /\ f = n
  <2> HIDE DEF y, m, n, h, t, a, b, c, k
  <2>1. e = m + 1 BY <1>6, <1>9
  <2> HIDE DEF e
  <2> QED BY <1>6, <1>9, <2>1
<1>11. RtcCivil([days |-> t, secs |-> d.secs])
         = [year |-> IF e > 13 THEN c - 4715 ELSE c - 4716, mon |-> IF e > 13 THEN e - 13 ELSE e - 1,
            mday |-> f, secs |-> d.secs]
  <2> DEFINE s == d.secs
             u == [days |-> t, secs |-> s]
  <2> HIDE DEF y, m, n, h, t, s
  <2>1. u.days = t /\ u.secs = s OBVIOUS
  <2> HIDE DEF u
  <2>2. RtcCivil(u) = [year |-> IF e > 13 THEN c - 4715 ELSE c - 4716, mon |-> IF e > 13 THEN e - 13 ELSE e - 1,
                         mday |-> f, secs |-> s]
    BY <2>1, SMT DEF RtcCivil
  <2> QED BY <2>2 DEF u, s
<1>12. d = [year |-> d.year, mon |-> d.mon, mday |-> d.mday, secs |-> d.secs]
  BY DEF RtcIsDay, RtcIsDate, RtcIsDateFrom
<1>13. /\ (IF e > 13 THEN c - 4715 ELSE c - 4716) = d.year
       /\ (IF e > 13 THEN e - 13 ELSE e - 1) = d.mon
  <2> HIDE DEF t, h, a, b, c, k, e, f
  <2> QED BY <1>1, <1>9, <1>10, SMT DEF RtcMarchYear, RtcMarchMonth
<1> HIDE DEF y, m, t, h, a, b, c, k, e, f
<1> QED BY <1>2, <1>10, <1>11, <1>12, <1>13

\* The conversion leaves it so.
LEMMA RtcConvertIs ==
  ASSUME NEW d, RtcIsDay(d)
  PROVE  RtcConvert(RtcCalcTimestamp(d)) = d
<1>1. RtcIsDate(d) /\ d.year >= 2021 BY SMT DEF RtcIsDay, RtcIsDate, RtcIsDateFrom
<1>2. RtcCivil(RtcCalcTimestamp(d)) = d BY <1>1, RtcTimestampIs, RtcDaysAre, RtcCivilIs
<1>3. RtcFullYear(d.year) = d.year BY SMT DEF RtcFullYear, RtcIsDay, RtcIsDate, RtcIsDateFrom
<1>4. RtcConvert(RtcCalcTimestamp(d)) = [d EXCEPT !.year = d.year] BY <1>2, <1>3 DEF RtcConvert
<1>5. d = [year |-> d.year, mon |-> d.mon, mday |-> d.mday, secs |-> d.secs] BY <1>1 DEF RtcIsDate, RtcIsDateFrom
<1> QED BY <1>4, <1>5

\* The day of a year that begins in March, from the remainder of the division.
LEMMA RtcRemainder ==
  ASSUME NEW b \in Nat, b >= 2442125,
         NEW c, c = (20 * b - 2442) \div 7305, NEW k, k = b - 365 * c - c \div 4
  PROVE  /\ c \in Nat /\ k \in Nat /\ 123 <= k /\ k <= 488 /\ (k = 488 => c % 4 = 3)
         /\ b = 365 * c + c \div 4 + k
<1> DEFINE z == 20 * b - 2442
           q == c \div 4
           r == c % 4
<1>1. z \in Nat BY SMT
<1>2. c \in Nat /\ 0 <= z - 7305 * c /\ z - 7305 * c < 7305
  <2>1. c = z \div 7305 OBVIOUS
  <2> HIDE DEF z
  <2> QED BY <1>1, <2>1, SMT
<1>3. q \in Nat /\ r \in Nat /\ r < 4 /\ c - 4 * q = r BY <1>2, SMT
<1>4. k = b - 365 * c - q OBVIOUS
<1> HIDE DEF q, r
<1>5. 20 * k = (z - 7305 * c) + 2442 + 5 * r /\ k \in Int BY <1>1, <1>2, <1>3, <1>4, SMT
<1> HIDE DEF z
<1>6. k \in Nat /\ 123 <= k /\ k <= 488 /\ (k = 488 => r = 3) BY <1>1, <1>2, <1>3, <1>5, SMT
<1>7. b = 365 * c + q + k BY <1>2, <1>3, <1>4, SMT
<1> QED BY <1>2, <1>6, <1>7 DEF q, r

\* The month and the day of month of it.
LEMMA RtcMonthFrom ==
  ASSUME NEW k \in Nat, 123 <= k, k <= 488,
         NEW e, e = (k * 1000) \div 30601, NEW f, f = k - e * 30 - (e * 601) \div 1000
  PROVE  /\ e \in 4 .. 15 /\ f \in 1 .. 31
         /\ (e \in {5, 7, 10, 12} => f <= 30) /\ (e = 15 => f <= 29 /\ (f = 29 => k = 488))
<1>1. e \in Int /\ 0 <= k * 1000 - 30601 * e /\ k * 1000 - 30601 * e < 30601 BY SMT
<1>2. e \in {4, 5, 6, 7, 8, 9, 10, 11, 12, 13, 14, 15}
  <2>1. 4 <= e /\ e <= 15 BY <1>1, SMT
  <2> QED BY <1>1, <2>1, SMT
<1>4. CASE e = 4 BY <1>1, <1>4, SMT
<1>5. CASE e = 5 BY <1>1, <1>5, SMT
<1>6. CASE e = 6 BY <1>1, <1>6, SMT
<1>7. CASE e = 7 BY <1>1, <1>7, SMT
<1>8. CASE e = 8 BY <1>1, <1>8, SMT
<1>9. CASE e = 9 BY <1>1, <1>9, SMT
<1>10. CASE e = 10 BY <1>1, <1>10, SMT
<1>11. CASE e = 11 BY <1>1, <1>11, SMT
<1>12. CASE e = 12 BY <1>1, <1>12, SMT
<1>13. CASE e = 13 BY <1>1, <1>13, SMT
<1>14. CASE e = 14 BY <1>1, <1>14, SMT
<1>15. CASE e = 15 BY <1>1, <1>15, SMT
<1> QED BY <1>2, <1>4, <1>5, <1>6, <1>7, <1>8, <1>9, <1>10, <1>11, <1>12, <1>13, <1>14, <1>15, SMT

\* The leap years that timestamps reach.
LEMMA RtcNearLeaps ==
  ASSUME NEW y \in 1969 .. 2106, y % 4 = 0, y # 2100
  PROVE  RtcIsLeapYear(y)
BY SMT DEF RtcIsLeapYear

\* Any timestamp is one of a day of the calendar.
LEMMA RtcCivilIsDate ==
  ASSUME NEW n \in Nat, n <= 49709, NEW s \in Nat, s < 86400
  PROVE  RtcIsDateFrom(1969, RtcCivil([days |-> n, secs |-> s])) /\ RtcCivil([days |-> n, secs |-> s]).year <= 2106
<1> DEFINE a == (4 * n + 102032) \div 146097 + 15
           b == n + 2442113 + a - a \div 4
           c == (20 * b - 2442) \div 7305
           k == b - 365 * c - c \div 4
           e == (k * 1000) \div 30601
           f == k - e * 30 - (e * 601) \div 1000
           d == RtcCivil([days |-> n, secs |-> s])
<1>1. d = [year |-> IF e > 13 THEN c - 4715 ELSE c - 4716, mon |-> IF e > 13 THEN e - 13 ELSE e - 1,
           mday |-> f, secs |-> s]
  <2> DEFINE u == [days |-> n, secs |-> s]
  <2>1. u.days = n /\ u.secs = s OBVIOUS
  <2> HIDE DEF u
  <2>2. RtcCivil(u) = [year |-> IF e > 13 THEN c - 4715 ELSE c - 4716, mon |-> IF e > 13 THEN e - 13 ELSE e - 1,
                         mday |-> f, secs |-> s]
    BY <2>1, SMT DEF RtcCivil
  <2> QED BY <2>2 DEF u
<1>2. b \in Nat /\ 2442125 <= b /\ b <= 2491835 /\ b # 2489666
  <2>1. a \in {15, 16, 17} /\ (a = 17 <=> n >= 47541) BY SMT
  <2>2. CASE n < 47541
    <3>1. a - a \div 4 = 12 BY <2>1, <2>2, SMT
    <3>2. a \div 4 \in Int BY <2>1, SMT
    <3> HIDE DEF a
    <3> QED BY <2>1, <2>2, <3>1, <3>2, SMT
  <2>3. CASE n >= 47541
    <3>1. a = 17 /\ a \div 4 = 4 BY <2>1, <2>3, SMT
    <3> HIDE DEF a
    <3> QED BY <2>3, <3>1, SMT
  <2> QED BY <2>2, <2>3
<1>3. /\ c \in Nat /\ k \in Nat /\ 123 <= k /\ k <= 488 /\ (k = 488 => c % 4 = 3)
      /\ b = 365 * c + c \div 4 + k
  <2> HIDE DEF b
  <2> QED BY <1>2, RtcRemainder, SMT
<1>4. /\ e \in 4 .. 15 /\ f \in 1 .. 31
      /\ (e \in {5, 7, 10, 12} => f <= 30) /\ (e = 15 => f <= 29 /\ (f = 29 => k = 488))
  <2> HIDE DEF k
  <2> QED BY <1>3, RtcMonthFrom
<1> HIDE DEF a, b, k, e, f
<1>5. 6685 <= c /\ c <= 6821
  <2> HIDE DEF c
  <2>1. c \div 4 \in Nat /\ 4 * (c \div 4) <= c BY <1>3, SMT
  <2>2. c \div 4 >= 1705 \/ c <= 6821 BY <1>3, SMT
  <2>3. c <= 6821 BY <1>2, <1>3, <2>1, <2>2, SMT
  <2>4. 6685 <= c BY <1>2, <1>3, <2>1, SMT
  <2> QED BY <2>3, <2>4
<1> HIDE DEF c, d
<1>6. /\ d.year = (IF e > 13 THEN c - 4715 ELSE c - 4716) /\ d.mon = (IF e > 13 THEN e - 13 ELSE e - 1)
      /\ d.mday = f /\ d.secs = s /\ d = [year |-> d.year, mon |-> d.mon, mday |-> d.mday, secs |-> d.secs]
  <2> DEFINE y == IF e > 13 THEN c - 4715 ELSE c - 4716
             m == IF e > 13 THEN e - 13 ELSE e - 1
  <2>1. d = [year |-> y, mon |-> m, mday |-> f, secs |-> s] BY <1>1
  <2> HIDE DEF y, m
  <2>2. d.year = y /\ d.mon = m /\ d.mday = f /\ d.secs = s BY <2>1
  <2> QED BY <2>1, <2>2 DEF y, m
<1>7. d.year \in Nat /\ 1969 <= d.year /\ d.year <= 2106 /\ d.mon \in 1 .. 12 /\ d.mday \in 1 .. 31
  BY <1>3, <1>4, <1>5, <1>6, SMT
<1>8. d.mon = 2 <=> e = 15 BY <1>4, <1>6, SMT
<1>9. d.mon \in {4, 6, 9, 11} <=> e \in {5, 7, 10, 12} BY <1>4, <1>6, SMT
<1>10. e = 15 /\ f = 29 => RtcIsLeapYear(d.year)
  <2> SUFFICES ASSUME e = 15, f = 29 PROVE RtcIsLeapYear(d.year) OBVIOUS
  <2>1. d.year = c - 4715 /\ k = 488 /\ c % 4 = 3 BY <1>3, <1>4, <1>6, SMT
  <2>2. d.year % 4 = 0 BY <1>3, <1>7, <2>1, SMT
  <2>3. c # 6815
    <3> SUFFICES ASSUME c = 6815 PROVE FALSE OBVIOUS
    <3>1. c \div 4 = 1703 BY SMT
    <3> QED BY <1>2, <1>3, <2>1, <3>1, SMT
  <2>4. d.year # 2100 BY <1>3, <2>1, <2>3, SMT
  <2>5. d.year \in 1969 .. 2106 BY <1>7
  <2> QED BY <2>2, <2>4, <2>5, RtcNearLeaps
<1>11. d.mday <= RtcMonthLength(d.year, d.mon)
  BY <1>4, <1>6, <1>8, <1>9, <1>10, SMT DEF RtcMonthLength
<1> QED BY <1>6, <1>7, <1>11, SMT DEF RtcIsDateFrom, d

\* A year moved by 2000 has the days it had.
LEMMA RtcMovedYear ==
  ASSUME NEW y \in Nat, NEW m
  PROVE  RtcMonthLength(y + 2000, m) = RtcMonthLength(y, m)
<1>1. (y + 2000) % 4 = y % 4 /\ (y + 2000) % 100 = y % 100 /\ (y + 2000) % 400 = y % 400 BY SMT
<1>2. RtcIsLeapYear(y + 2000) <=> RtcIsLeapYear(y) BY <1>1 DEF RtcIsLeapYear
<1> QED BY <1>2 DEF RtcMonthLength

\* A conversion that is not refused is a day of the calendar, that of the
\* timestamp or the one 2000 years later.
LEMMA RtcConvertIsDate ==
  ASSUME NEW n \in Nat, n <= 49709, NEW s \in Nat, s < 86400,
         RtcConvert([days |-> n, secs |-> s]).year > 2020
  PROVE  RtcIsDate(RtcConvert([days |-> n, secs |-> s]))
<1> DEFINE c == RtcCivil([days |-> n, secs |-> s])
           y == RtcFullYear(c.year)
           d == RtcConvert([days |-> n, secs |-> s])
<1>1. RtcIsDateFrom(1969, c) BY RtcCivilIsDate
<1>2. d = [c EXCEPT !.year = y] BY DEF RtcConvert
<1>3. d.year > 2020 OBVIOUS
<1> HIDE DEF c, d, y
<1>4. c = [year |-> c.year, mon |-> c.mon, mday |-> c.mday, secs |-> c.secs] BY <1>1 DEF RtcIsDateFrom
<1>5. d = [year |-> y, mon |-> c.mon, mday |-> c.mday, secs |-> c.secs] BY <1>2, <1>4
<1>6. /\ c.year \in Nat /\ c.mon \in 1 .. 12 /\ c.mday \in 1 .. 31 /\ c.secs \in Nat /\ c.secs < 86400
      /\ c.mday <= RtcMonthLength(c.year, c.mon)
  BY <1>1 DEF RtcIsDateFrom
<1>7. d.year = y /\ d.mon = c.mon /\ d.mday = c.mday /\ d.secs = c.secs BY <1>5
<1>8. y \in Nat /\ (y = c.year \/ y = c.year + 2000) BY <1>6, SMT DEF y, RtcFullYear
<1>9. RtcMonthLength(y, c.mon) = RtcMonthLength(c.year, c.mon) BY <1>6, <1>8, RtcMovedYear
<1>10. y \in Nat /\ 2021 <= y BY <1>3, <1>7, <1>8, SMT
<1> QED BY <1>5, <1>6, <1>7, <1>9, <1>10 DEF RtcIsDate, RtcIsDateFrom, d

\* The day after a day is one.
LEMMA RtcTomorrowIsDate ==
  ASSUME NEW d, RtcIsDate(d)
  PROVE  RtcIsDate(RtcTomorrow(d))
<1> DEFINE y == d.year
           m == d.mon
           n == d.mday
           s == d.secs
           x == RtcTomorrow(d)
<1>1. d = [year |-> y, mon |-> m, mday |-> n, secs |-> s] BY DEF RtcIsDate, RtcIsDateFrom
<1>2. /\ y \in Nat /\ 2021 <= y /\ m \in 1 .. 12 /\ n \in 1 .. 31 /\ s \in Nat /\ s < 86400
      /\ n <= RtcMonthLength(y, m)
  BY DEF RtcIsDate, RtcIsDateFrom
<1> HIDE DEF y, m, n, s
<1>3. CASE n < RtcMonthLength(y, m)
  <2>1. x = [year |-> y, mon |-> m, mday |-> n + 1, secs |-> s]
    <3>1. x = [d EXCEPT !.mday = n + 1] BY <1>3 DEF RtcTomorrow, y, m, n
    <3> HIDE DEF x
    <3>2. x = [[year |-> y, mon |-> m, mday |-> n, secs |-> s] EXCEPT !.mday = n + 1] BY <1>1, <3>1
    <3> QED BY ONLY <3>2
  <2>2. n + 1 <= RtcMonthLength(y, m) /\ n + 1 \in 1 .. 31 BY <1>2, <1>3, RtcMonthDays, SMT
  <2> QED BY <1>2, <2>1, <2>2, SMT DEF RtcIsDate, RtcIsDateFrom
<1>4. CASE ~(n < RtcMonthLength(y, m)) /\ m < 12
  <2>1. x = [year |-> y, mon |-> m + 1, mday |-> 1, secs |-> s]
    <3>1. x = [d EXCEPT !.mday = 1, !.mon = @ + 1] BY <1>4 DEF RtcTomorrow, y, m, n
    <3> HIDE DEF x
    <3>2. x = [[year |-> y, mon |-> m, mday |-> n, secs |-> s] EXCEPT !.mday = 1, !.mon = @ + 1] BY <1>1, <3>1
    <3> QED BY ONLY <3>2
  <2>2. 1 <= RtcMonthLength(y, m + 1) BY RtcMonthDays, SMT
  <2> QED BY <1>2, <1>4, <2>1, <2>2, SMT DEF RtcIsDate, RtcIsDateFrom
<1>5. CASE ~(n < RtcMonthLength(y, m)) /\ ~(m < 12)
  <2>1. x = [year |-> y + 1, mon |-> 1, mday |-> 1, secs |-> s]
    <3>1. x = [d EXCEPT !.mday = 1, !.mon = 1, !.year = @ + 1] BY <1>5 DEF RtcTomorrow, y, m, n
    <3> HIDE DEF x
    <3>2. x = [[year |-> y, mon |-> m, mday |-> n, secs |-> s] EXCEPT !.mday = 1, !.mon = 1, !.year = @ + 1]
      BY <1>1, <3>1
    <3> QED BY ONLY <3>2
  <2>2. 1 <= RtcMonthLength(y + 1, 1) BY RtcMonthDays, SMT
  <2> QED BY <1>2, <2>1, <2>2, SMT DEF RtcIsDate, RtcIsDateFrom
<1> QED BY <1>3, <1>4, <1>5

-----------------------------------------------------------------------------
\* Once it is set the clock holds a day of the calendar.
RtcInv == rtcRuns => RtcIsDate(rtcDate)

\* What is stored in the clock is a day.
LEMMA RtcStoreIsDate ==
  ASSUME NEW d, RtcStore(d), d.year > 2020 => RtcIsDate(d)
  PROVE  RtcInv'
BY DEF RtcStore, RtcInv, RtcIsDate, RtcIsDateFrom

\* The clock of rtc_init.
LEMMA RtcDefaultIsDate == RtcIsDate([year |-> 2024, mon |-> 1, mday |-> 1, secs |-> 23 * 3600 + 50 * 60])
<1>1. 23 * 3600 + 50 * 60 \in Nat /\ 23 * 3600 + 50 * 60 < 86400 BY SMT
<1>2. 1 <= RtcMonthLength(2024, 1) BY RtcMonthDays, SMT
<1> DEFINE s == 23 * 3600 + 50 * 60
<1> HIDE DEF s
<1>3. RtcIsDate([year |-> 2024, mon |-> 1, mday |-> 1, secs |-> s]) BY <1>1, <1>2, SMT DEF RtcIsDate, RtcIsDateFrom, s
<1> QED BY <1>3 DEF s

\* A clock that runs has a calendar date, whatever sets it.
LEMMA RtcInvStep == ASSUME RtcInv, [RtcNext]_rtcVars PROVE RtcInv'
<1>1. CASE RtcTick
  <2>1. RtcIsDate(RtcTomorrow(rtcDate)) BY <1>1, RtcTomorrowIsDate DEF RtcInv, RtcTick
  <2> QED BY <1>1, <2>1 DEF RtcTick, RtcInv, RtcIsDate, RtcIsDateFrom
<1>2. CASE RtcSet
  <2>1. PICK d \in RtcDates : RtcStore(d) BY <1>2 DEF RtcSet
  <2>2. /\ d \in [year : Nat, mon : 1 .. 12, mday : 1 .. 31, secs : Nat]
        /\ d.mday <= RtcMonthLength(d.year, d.mon) /\ d.secs < 86400
    BY RtcAssumption DEF RtcAssumption
  <2>3. d.year > 2020 => RtcIsDate(d) BY <2>2, SMT DEF RtcIsDate, RtcIsDateFrom
  <2> QED BY <2>1, <2>3, RtcStoreIsDate
<1>3. CASE RtcSetTimestamp
  <2>1. PICK n \in RtcDays, s \in RtcSeconds : RtcStore(RtcConvert([days |-> n, secs |-> s]))
    BY <1>3 DEF RtcSetTimestamp
  <2>2. n \in Nat /\ n <= 49709 /\ s \in Nat /\ s < 86400 BY RtcAssumption DEF RtcAssumption
  <2> QED BY <2>1, <2>2, RtcConvertIsDate, RtcStoreIsDate
<1>4. CASE RtcInitLib
  BY <1>4, RtcDefaultIsDate, RtcStoreIsDate DEF RtcInitLib
<1>5. CASE UNCHANGED rtcVars BY <1>5 DEF rtcVars, RtcInv, RtcIsDate, RtcIsDateFrom
<1> QED BY <1>1, <1>2, <1>3, <1>4, <1>5 DEF RtcNext

\* On a day of the calendar the three formulas agree with counting.
LEMMA RtcInvAgrees == RtcInv => CalendarAgrees
<1> SUFFICES ASSUME RtcInv, rtcRuns
             PROVE  /\ RtcCalcWeekDay(rtcDate) = (RtcDayCount(rtcDate) + 4) % 7
                    /\ rtcDate.year <= 2105 =>
                         /\ RtcGetTimestamp = [days |-> RtcDayCount(rtcDate), secs |-> rtcDate.secs]
                         /\ RtcConvert(RtcGetTimestamp) = rtcDate
  BY DEF CalendarAgrees
<1>1. RtcIsDate(rtcDate) BY DEF RtcInv
<1>2. RtcGet = rtcDate
  <2>1. RtcFullYear(rtcDate.year) = rtcDate.year BY <1>1, SMT DEF RtcIsDate, RtcIsDateFrom, RtcFullYear
  <2>2. RtcGet = [rtcDate EXCEPT !.year = rtcDate.year] BY <2>1 DEF RtcGet
  <2>3. rtcDate = [year |-> rtcDate.year, mon |-> rtcDate.mon, mday |-> rtcDate.mday, secs |-> rtcDate.secs]
    BY <1>1 DEF RtcIsDate, RtcIsDateFrom
  <2> QED BY <2>2, <2>3
<1>3. RtcCalcWeekDay(rtcDate) = (RtcDayCount(rtcDate) + 4) % 7 BY <1>1, RtcWeekDayIs
<1>4. ASSUME rtcDate.year <= 2105
      PROVE  /\ RtcGetTimestamp = [days |-> RtcDayCount(rtcDate), secs |-> rtcDate.secs]
             /\ RtcConvert(RtcGetTimestamp) = rtcDate
  <2>1. RtcIsDay(rtcDate) BY <1>1, <1>4 DEF RtcIsDay
  <2> QED BY <1>2, <2>1, RtcTimestampIs, RtcConvertIs DEF RtcGetTimestamp
<1> QED BY <1>3, <1>4

\* Whatever sets the clock and however long it runs, a timestamp of before 2000
\* included, which sets it 2000 years ahead: the day of the week is that of the
\* calendar, and up to 2105 so are the timestamp and the date of the timestamp
\* (rtc_lib.c:16-87, :168-223).
THEOREM CalendarIsRight == RtcSpec => []CalendarAgrees
<1>1. RtcInit => RtcInv BY DEF RtcInit, RtcInv
<1>2. RtcInv /\ [RtcNext]_rtcVars => RtcInv' BY RtcInvStep
<1> QED BY <1>1, <1>2, RtcInvAgrees, PTL DEF RtcSpec

-----------------------------------------------------------------------------
(* A text behind a mask.                                                   *)

\* The fields a mask can hold.
MaskHolds(mask, field, typed) ==
  /\ field = [buffer |-> field.buffer, pos |-> field.pos, complete |-> field.complete]
  /\ field.pos \in 1 .. Len(mask) + 1
  /\ field.complete \in BOOLEAN
  /\ Len(typed) = Cardinality({j \in MaskEditable(mask) : j < field.pos})
  /\ field.buffer = [i \in DOMAIN mask |->
                       IF i \notin MaskEditable(mask) THEN mask[i]
                       ELSE IF i < field.pos THEN typed[MaskRank(mask, i)] ELSE MaskPlaceholder(mask[i])]
  /\ field.complete <=> MaskIsComplete(mask, field.buffer)

\* How many places are up to a place: one more than there are before it.
LEMMA MaskRanks ==
  ASSUME NEW mask \in Seq(STRING), NEW p \in Nat
  PROVE  /\ IsFiniteSet({j \in MaskEditable(mask) : j < p})
         /\ Cardinality({j \in MaskEditable(mask) : j < p}) \in Nat
         /\ \A i \in MaskEditable(mask) :
              /\ MaskRank(mask, i) \in Nat \ {0}
              /\ i < p <=> MaskRank(mask, i) <= Cardinality({j \in MaskEditable(mask) : j < p})
              /\ (i >= p /\ \A j \in MaskEditable(mask) : j >= p => i <= j)
                   => /\ MaskRank(mask, i) = Cardinality({j \in MaskEditable(mask) : j < p}) + 1
                      /\ Cardinality({j \in MaskEditable(mask) : j < i + 1}) = MaskRank(mask, i)
<1> DEFINE E == MaskEditable(mask)
           Before == {j \in E : j < p}
<1>1. E \subseteq 1 .. Len(mask) /\ IsFiniteSet(1 .. Len(mask)) /\ Len(mask) \in Nat /\ E \subseteq Nat
  BY FS_Interval DEF MaskEditable
<1>2. ASSUME NEW X \in SUBSET E PROVE IsFiniteSet(X) /\ Cardinality(X) \in Nat
  BY <1>1, FS_Subset, FS_CardinalityType
<1> HIDE DEF E
<1>3. IsFiniteSet(Before) /\ Cardinality(Before) \in Nat BY <1>2
<1>4. ASSUME NEW i \in E
      PROVE  /\ MaskRank(mask, i) \in Nat \ {0}
             /\ i < p <=> MaskRank(mask, i) <= Cardinality(Before)
             /\ (i >= p /\ \A j \in E : j >= p => i <= j)
                  => /\ MaskRank(mask, i) = Cardinality(Before) + 1
                     /\ Cardinality({j \in E : j < i + 1}) = MaskRank(mask, i)
  <2> DEFINE Up == {j \in E : j <= i}
  <2>0. i \in Nat /\ (\A j \in E : j \in Nat) /\ p \in Nat BY <1>1
  <2>1. IsFiniteSet(Up) /\ Cardinality(Up) \in Nat /\ i \in Nat
    <3>1. Up \in SUBSET E OBVIOUS
    <3> HIDE DEF Up
    <3> QED BY <1>2, <2>0, <3>1
  <2>2. MaskRank(mask, i) = Cardinality(Up) BY DEF MaskRank, E
  <2>3. Up # {} BY <2>1
  <2>4. Cardinality(Up) # 0 BY <2>1, <2>3, FS_EmptySet
  <2>5. i < p => Cardinality(Up) <= Cardinality(Before)
    <3>1. i < p => Up \subseteq Before
      <4>1. ASSUME NEW j \in E, j <= i, i < p PROVE j < p BY <2>0, <4>1
      <4> QED BY <4>1
    <3> HIDE DEF Up, Before
    <3> QED BY <1>3, <3>1, FS_Subset
  <2>6. IsFiniteSet(Before \cup {i}) /\ (i >= p => Cardinality(Before \cup {i}) = Cardinality(Before) + 1)
    <3>1. i >= p => i \notin Before BY <2>1
    <3> HIDE DEF Before
    <3> QED BY <1>3, <3>1, FS_AddElement
  <2>7. i >= p => Cardinality(Before) + 1 <= Cardinality(Up)
    <3>1. i >= p => Before \cup {i} \subseteq Up
      <4>1. ASSUME NEW j \in E, j < p, i >= p PROVE j <= i BY <2>0, <4>1
      <4>2. i <= i BY <2>0
      <4> QED BY <4>1, <4>2
    <3> HIDE DEF Up, Before
    <3> QED BY <2>1, <2>6, <3>1, FS_Subset
  <2>8. ASSUME i >= p, \A j \in E : j >= p => i <= j
        PROVE  Up = Before \cup {i} /\ {j \in E : j < i + 1} = Up
    <3>1. ASSUME NEW j \in E PROVE (j <= i <=> j < p \/ j = i) /\ (j < i + 1 <=> j <= i)
      BY <2>0, <2>8
    <3> QED BY <3>1
  <2> HIDE DEF Up, Before
  <2> DEFINE u == Cardinality(Up)
             v == Cardinality(Before)
  <2>9. u \in Nat \ {0} /\ (i < p <=> u <= v)
    <3> HIDE DEF u, v
    <3>1. u \in Nat /\ v \in Nat /\ u # 0 /\ (i < p => u <= v) /\ (i >= p => v + 1 <= u)
      BY <1>3, <2>1, <2>4, <2>5, <2>6, <2>7 DEF u, v
    <3> QED BY <2>0, <3>1
  <2> QED BY <2>2, <2>6, <2>8, <2>9
<1> QED BY <1>3, <1>4 DEF E

\* The next place is the first one to type into from the position on.
LEMMA MaskPlaceIs ==
  ASSUME NEW mask \in Seq(STRING), NEW p \in 1 .. Len(mask) + 1
  PROVE  /\ MaskPlace(mask, p) \in Nat /\ p <= MaskPlace(mask, p) /\ MaskPlace(mask, p) <= Len(mask) + 1
         /\ MaskPlace(mask, p) <= Len(mask) => MaskPlace(mask, p) \in MaskEditable(mask)
         /\ \A j \in MaskEditable(mask) : j < MaskPlace(mask, p) <=> j < p
<1> DEFINE E == MaskEditable(mask)
           left == {j \in E : j >= p}
           i == MaskPlace(mask, p)
<1>1. E \subseteq Nat /\ (\A j \in E : j <= Len(mask)) /\ Len(mask) \in Nat BY DEF MaskEditable
<1>2. i = IF left = {} THEN Len(mask) + 1 ELSE CHOOSE k \in left : \A j \in left : k <= j
  BY DEF MaskPlace
<1> HIDE DEF i, E
<1>3. CASE left = {}
  <2>1. i = Len(mask) + 1 BY <1>2, <1>3
  <2>2. ASSUME NEW j \in E PROVE j < i /\ j < p
    <3>1. j \notin left BY <1>3
    <3>2. j \in Nat /\ j <= Len(mask) BY <1>1
    <3> QED BY <1>1, <2>1, <3>1, <3>2
  <2> QED BY <1>1, <2>1, <2>2 DEF i, E
<1>4. CASE left # {}
  <2>1. left \in SUBSET Nat BY <1>1
  <2>2. \E k \in left : \A j \in left : k <= j
    <3> HIDE DEF left
    <3> QED BY <1>4, <2>1, LeastIn
  <2>3. i \in left /\ \A j \in left : i <= j
    <3> HIDE DEF left
    <3> QED BY <1>2, <1>4, <2>2
  <2>4. i \in E /\ i >= p /\ i \in Nat /\ i <= Len(mask) BY <1>1, <2>3
  <2>5. ASSUME NEW j \in E PROVE j < i <=> j < p
    <3>1. j \in Nat /\ (j >= p => i <= j) BY <1>1, <2>3
    <3> QED BY <2>4, <3>1
  <2> QED BY <1>1, <2>4, <2>5 DEF i, E
<1> QED BY <1>3, <1>4

\* An empty mask.
LEMMA MaskBlankHolds ==
  ASSUME NEW mask \in MaskMasks
  PROVE  mask \in Seq(STRING) /\ MaskHolds(mask, MaskBlank(mask), <<>>)
<1>1. mask \in Seq(STRING) /\ MaskRequired(mask) # {} BY MaskAssumption DEF MaskAssumption
<1> DEFINE E == MaskEditable(mask)
           field == MaskBlank(mask)
<1>2. E \subseteq 1 .. Len(mask) /\ Len(mask) \in Nat BY <1>1 DEF MaskEditable
<1>3. {j \in E : j < 1} = {} /\ \A j \in E : ~(j < 1) BY <1>2
<1>4. /\ field.buffer = [i \in DOMAIN mask |-> IF i \in E THEN MaskPlaceholder(mask[i]) ELSE mask[i]]
      /\ field.pos = 1 /\ field.complete = FALSE
      /\ field = [buffer |-> field.buffer, pos |-> field.pos, complete |-> field.complete]
  BY DEF MaskBlank
<1>5. ~MaskIsComplete(mask, field.buffer)
  <2>1. PICK i \in MaskRequired(mask) : TRUE BY <1>1
  <2>2. i \in E /\ i \in DOMAIN mask BY DEF MaskRequired, MaskEditable
  <2>3. field.buffer[i] = MaskPlaceholder(mask[i]) BY <1>4, <2>2
  <2> QED BY <2>1, <2>3 DEF MaskIsComplete
<1> HIDE DEF field
<1>6. field.buffer = [i \in DOMAIN mask |->
                       IF i \notin E THEN mask[i]
                       ELSE IF i < field.pos THEN <<>>[MaskRank(mask, i)] ELSE MaskPlaceholder(mask[i])]
  BY <1>3, <1>4
<1>7. Len(<<>>) = Cardinality({j \in E : j < field.pos}) BY <1>3, <1>4, FS_EmptySet
<1>8. 1 \in 1 .. Len(mask) + 1 /\ FALSE \in BOOLEAN BY <1>2
<1>9. MaskHolds(mask, field, <<>>) BY <1>4, <1>5, <1>6, <1>7, <1>8 DEF MaskHolds
<1> QED BY <1>1, <1>9 DEF field

\* A character more, taken or refused.
LEMMA MaskAddedHolds ==
  ASSUME NEW mask \in Seq(STRING), NEW S, NEW field, NEW typed \in Seq(S), NEW c \in S,
         MaskHolds(mask, field, typed)
  PROVE  /\ MaskTakes(mask, field, c) => MaskHolds(mask, MaskAdded(mask, field, c), Append(typed, c))
         /\ ~MaskTakes(mask, field, c) => MaskHolds(mask, MaskAdded(mask, field, c), typed)
<1> DEFINE E == MaskEditable(mask)
           p == field.pos
           i == MaskPlace(mask, p)
           k == Cardinality({j \in E : j < p})
           h == MaskAdded(mask, field, c)
           buffer == [field.buffer EXCEPT ![i] = c]
           more == Append(typed, c)
<1>1. /\ field = [buffer |-> field.buffer, pos |-> p, complete |-> field.complete]
      /\ p \in 1 .. Len(mask) + 1 /\ field.complete \in BOOLEAN /\ Len(typed) = k
      /\ field.buffer = [j \in DOMAIN mask |->
                           IF j \notin E THEN mask[j]
                           ELSE IF j < p THEN typed[MaskRank(mask, j)] ELSE MaskPlaceholder(mask[j])]
      /\ field.complete <=> MaskIsComplete(mask, field.buffer)
  BY DEF MaskHolds
<1>2. /\ i \in Nat /\ p <= i /\ i <= Len(mask) + 1 /\ (i <= Len(mask) => i \in E)
      /\ \A j \in E : j < i <=> j < p
  BY <1>1, MaskPlaceIs
<1>3. /\ k \in Nat
      /\ \A j \in E : /\ MaskRank(mask, j) \in Nat \ {0}
                      /\ j < p <=> MaskRank(mask, j) <= k
                      /\ (j >= p /\ \A l \in E : l >= p => j <= l)
                           => /\ MaskRank(mask, j) = k + 1
                              /\ Cardinality({l \in E : l < j + 1}) = MaskRank(mask, j)
  <2>1. p \in Nat BY <1>1
  <2> QED BY <2>1, MaskRanks
<1>4. E \subseteq 1 .. Len(mask) /\ Len(mask) \in Nat /\ DOMAIN mask = 1 .. Len(mask) BY DEF MaskEditable
<1>5. CASE MaskTakes(mask, field, c)
  <2>1. i <= Len(mask) /\ i \in E BY <1>2, <1>5 DEF MaskTakes
  <2>2. h = [buffer |-> buffer, pos |-> i + 1, complete |-> MaskIsComplete(mask, buffer)]
    BY <1>5 DEF MaskAdded
  <2>3. \A l \in E : l >= p => i <= l
    <3>1. ASSUME NEW l \in E, l >= p PROVE i <= l
      <4>1. l \in Nat /\ p \in Nat /\ ~(l < p) BY <1>1, <1>4, <3>1
      <4>2. ~(l < i) BY <1>2, <4>1
      <4> QED BY <1>2, <4>1, <4>2
    <3> QED BY <3>1
  <2>4. MaskRank(mask, i) = k + 1 /\ Cardinality({l \in E : l < i + 1}) = k + 1
    BY <1>2, <1>3, <2>1, <2>3
  <2>5. more \in Seq(S) /\ Len(more) = k + 1 /\ more[k + 1] = c /\ \A n \in 1 .. k : more[n] = typed[n]
    <3> HIDE DEF k
    <3> QED BY <1>1, <1>3
  <2> HIDE DEF more, k, i
  <2>6. buffer = [j \in DOMAIN mask |->
                    IF j \notin E THEN mask[j]
                    ELSE IF j < i + 1 THEN more[MaskRank(mask, j)] ELSE MaskPlaceholder(mask[j])]
    <3>1. DOMAIN field.buffer = DOMAIN mask /\ DOMAIN buffer = DOMAIN mask BY <1>1
    <3>2. ASSUME NEW j \in DOMAIN mask
          PROVE  buffer[j] = IF j \notin E THEN mask[j]
                             ELSE IF j < i + 1 THEN more[MaskRank(mask, j)] ELSE MaskPlaceholder(mask[j])
      <4>1. CASE j = i BY <1>2, <2>1, <2>4, <2>5, <3>1, <4>1
      <4>2. CASE j # i /\ j \notin E BY <1>1, <3>1, <4>2
      <4>3. CASE j \in E /\ j < i
        <5>1. j < p BY <1>2, <4>3
        <5>2. MaskRank(mask, j) \in Nat \ {0} /\ (j < p <=> MaskRank(mask, j) <= k) /\ k \in Nat BY <1>3, <4>3
        <5>3. MaskRank(mask, j) \in 1 .. k BY <5>1, <5>2
        <5>4. buffer[j] = typed[MaskRank(mask, j)] BY <1>1, <1>2, <1>4, <3>1, <4>3, <5>1
        <5> QED BY <1>2, <1>4, <2>5, <4>3, <5>1, <5>3, <5>4
      <4>4. CASE j \in E /\ j > i
        <5>1. ~(j < p) /\ ~(j < i + 1) BY <1>1, <1>2, <1>4, <4>4
        <5> QED BY <1>1, <1>2, <1>4, <3>1, <4>4, <5>1
      <4> QED BY <1>2, <1>4, <4>1, <4>2, <4>3, <4>4
    <3>3. buffer = [j \in DOMAIN mask |-> buffer[j]] BY <3>1
    <3> HIDE DEF buffer
    <3> QED BY <3>2, <3>3
  <2> HIDE DEF buffer
  <2>7. MaskIsComplete(mask, buffer) \in BOOLEAN BY DEF MaskIsComplete
  <2>8. h.buffer = buffer /\ h.pos = i + 1 /\ h.complete = MaskIsComplete(mask, buffer)
        /\ h = [buffer |-> h.buffer, pos |-> h.pos, complete |-> h.complete]
    BY <2>2
  <2>9. i + 1 \in 1 .. Len(mask) + 1 BY <1>2, <1>4, <2>1
  <2> HIDE DEF h
  <2> QED BY <1>5, <2>4, <2>5, <2>6, <2>7, <2>8, <2>9 DEF MaskHolds, more, h
<1>6. CASE ~MaskTakes(mask, field, c)
  <2>1. h = [field EXCEPT !.pos = i] BY <1>6 DEF MaskAdded
  <2>2. h.buffer = field.buffer /\ h.pos = i /\ h.complete = field.complete
        /\ h = [buffer |-> h.buffer, pos |-> h.pos, complete |-> h.complete]
    <3> HIDE DEF p, i, h
    <3> QED BY <1>1, <2>1
  <2>3. {j \in E : j < i} = {j \in E : j < p} BY <1>2
  <2>4. i \in 1 .. Len(mask) + 1 BY <1>1, <1>2, <1>4
  <2>5. field.buffer = [j \in DOMAIN mask |->
                          IF j \notin E THEN mask[j]
                          ELSE IF j < i THEN typed[MaskRank(mask, j)] ELSE MaskPlaceholder(mask[j])]
    BY <1>1, <1>2
  <2> HIDE DEF i, h
  <2> QED BY <1>1, <1>6, <2>2, <2>3, <2>4, <2>5 DEF MaskHolds, h
<1> QED BY <1>5, <1>6

\* A text, taken until a character is refused.
LEMMA MaskTakenHolds ==
  ASSUME NEW mask \in MaskMasks, NEW value \in Seq(MaskChars)
  PROVE  /\ MaskTaken(mask, value).typed \in Seq(MaskChars)
         /\ MaskHolds(mask, MaskTaken(mask, value).field, MaskTaken(mask, value).typed)
<1> DEFINE N == Len(value)
           Chars == STRING \cup MaskChars \cup {" ", "0"}
           Fields == [buffer : [DOMAIN mask -> Chars], pos : Nat, complete : BOOLEAN]
           S == {s \in [field : Fields, over : BOOLEAN, typed : Seq(MaskChars)] : MaskHolds(mask, s.field, s.typed)}
           s0 == [field |-> MaskBlank(mask), over |-> FALSE, typed |-> <<>>]
           step == [n \in 1 .. N |-> [s \in S |-> MaskTakeNext(mask, s, value[n])]]
           Unfold(x) == [n \in 0 .. N |-> IF n = 0 THEN s0 ELSE MaskTakeNext(mask, x[n - 1], value[n])]
           after == CHOOSE x : x = Unfold(x)
<1>1. mask \in Seq(STRING) /\ MaskHolds(mask, MaskBlank(mask), <<>>) BY MaskBlankHolds
<1>2. N \in Nat /\ \A n \in 1 .. N : value[n] \in MaskChars OBVIOUS
<1>3. ASSUME NEW field, NEW typed \in Seq(MaskChars), MaskHolds(mask, field, typed)
      PROVE  field \in Fields
  <2> DEFINE p == field.pos
             E == MaskEditable(mask)
  <2>1. /\ field = [buffer |-> field.buffer, pos |-> p, complete |-> field.complete]
        /\ p \in 1 .. Len(mask) + 1 /\ field.complete \in BOOLEAN
        /\ Len(typed) = Cardinality({j \in E : j < p})
        /\ field.buffer = [j \in DOMAIN mask |->
                             IF j \notin E THEN mask[j]
                             ELSE IF j < p THEN typed[MaskRank(mask, j)] ELSE MaskPlaceholder(mask[j])]
    BY <1>3 DEF MaskHolds
  <2>2. p \in Nat BY <1>1, <2>1
  <2>3. ASSUME NEW j \in DOMAIN mask PROVE field.buffer[j] \in Chars
    <3>0. mask[j] \in STRING BY <1>1
    <3>1. CASE j \notin E
      <4>1. field.buffer[j] = mask[j] BY <2>1, <3>1
      <4> QED BY <3>0, <4>1
    <3>2. CASE j \in E /\ j < p
      <4>1. MaskRank(mask, j) \in Nat \ {0} /\ (j < p <=> MaskRank(mask, j) <= Cardinality({l \in E : l < p}))
        BY <1>1, <2>2, <3>2, MaskRanks
      <4>2. MaskRank(mask, j) \in 1 .. Len(typed) BY <2>1, <3>2, <4>1
      <4>3. typed[MaskRank(mask, j)] \in MaskChars BY <4>2
      <4> QED BY <2>1, <3>2, <4>3
    <3>3. CASE j \in E /\ ~(j < p)
      <4>1. MaskPlaceholder(mask[j]) \in {" ", "0"} BY DEF MaskPlaceholder
      <4> QED BY <2>1, <3>3, <4>1
    <3> QED BY <3>1, <3>2, <3>3
  <2>4. field.buffer \in [DOMAIN mask -> Chars]
    <3>1. field.buffer = [j \in DOMAIN mask |-> field.buffer[j]] BY <2>1
    <3> HIDE DEF Chars
    <3> QED BY <2>3, <3>1
  <2>5. field = [buffer |-> field.buffer, pos |-> p, complete |-> field.complete] /\ field.complete \in BOOLEAN
    BY <2>1
  <2> HIDE DEF p, Chars
  <2> QED BY ONLY <2>2, <2>4, <2>5 DEF Fields
<1> HIDE DEF Fields
<1>4. s0 \in S
  <2>1. <<>> \in Seq(MaskChars) OBVIOUS
  <2>2. MaskBlank(mask) \in Fields BY <1>1, <1>3, <2>1
  <2> QED BY <1>1, <2>1, <2>2
<1>5. ASSUME NEW s \in S, NEW c \in MaskChars PROVE MaskTakeNext(mask, s, c) \in S
  <2>1. CASE s.over BY <2>1 DEF MaskTakeNext
  <2>2. CASE ~s.over
    <3> DEFINE field == MaskAdded(mask, s.field, c)
               over == ~MaskTakes(mask, s.field, c)
               typed == IF over THEN s.typed ELSE Append(s.typed, c)
    <3>1. MaskTakeNext(mask, s, c) = [field |-> field, over |-> over, typed |-> typed]
      BY <2>2 DEF MaskTakeNext
    <3>2. s.typed \in Seq(MaskChars) /\ MaskHolds(mask, s.field, s.typed) OBVIOUS
    <3>3. over \in BOOLEAN BY DEF MaskTakes
    <3>4. typed \in Seq(MaskChars) BY <3>2
    <3>5. MaskHolds(mask, field, typed) BY <1>1, <3>2, MaskAddedHolds
    <3>6. field \in Fields BY <1>3, <3>4, <3>5
    <3> HIDE DEF field, over, typed
    <3> QED BY <3>1, <3>3, <3>4, <3>5, <3>6
  <2> QED BY <2>1, <2>2
<1>6. MaskTaken(mask, value) = after[N] BY DEF MaskTaken
<1> HIDE DEF S, s0
<1>7. after = Unfold(after)
  <2>1. step \in [1 .. N -> [S -> S]] BY <1>2, <1>5
  <2>2. HasRecursion(N, S, s0, step) BY <1>2, <1>4, <2>1, RecursionIn
  <2>3. PICK g \in [0 .. N -> S] : g[0] = s0 /\ \A n \in 1 .. N : g[n] = step[n][g[n - 1]]
    <3> HIDE DEF step
    <3> QED BY <2>2 DEF HasRecursion
  <2>4. ASSUME NEW n \in 0 .. N PROVE g[n] = Unfold(g)[n]
    <3>0. Unfold(g)[n] = IF n = 0 THEN s0 ELSE MaskTakeNext(mask, g[n - 1], value[n]) OBVIOUS
    <3>1. CASE n = 0 BY <2>3, <3>0, <3>1
    <3>2. CASE n # 0
      <4>1. n \in 1 .. N /\ n - 1 \in 0 .. N BY <1>2, <3>2
      <4>2. g[n - 1] \in S BY <2>3, <4>1
      <4>3. step[n][g[n - 1]] = MaskTakeNext(mask, g[n - 1], value[n]) BY <4>1, <4>2
      <4> QED BY <2>3, <3>0, <3>2, <4>1, <4>3
    <3> QED BY <3>1, <3>2
  <2>5. g = Unfold(g)
    <3>1. g = [n \in 0 .. N |-> g[n]] BY <2>3
    <3>2. Unfold(g) = [n \in 0 .. N |-> Unfold(g)[n]] OBVIOUS
    <3> HIDE DEF Unfold, N
    <3> QED BY <2>4, <3>1, <3>2
  <2> HIDE DEF Unfold
  <2> QED BY <2>5
<1>8. after[0] = s0 /\ \A n \in 1 .. N : after[n] = MaskTakeNext(mask, after[n - 1], value[n])
  <2> HIDE DEF after
  <2>1. ASSUME NEW n \in 0 .. N PROVE after[n] = IF n = 0 THEN s0 ELSE MaskTakeNext(mask, after[n - 1], value[n])
    <3>1. after[n] = Unfold(after)[n] BY <1>7
    <3> QED BY <3>1
  <2>2. 0 \in 0 .. N /\ \A n \in 1 .. N : n \in 0 .. N /\ n # 0 BY <1>2
  <2> QED BY <2>1, <2>2
<1> HIDE DEF after
<1>9. after[N] \in S
  <2> DEFINE T == {k \in Nat : k <= N => after[k] \in S}
  <2>1. 0 \in T BY <1>4, <1>8
  <2>2. ASSUME NEW k \in Nat, k \in T PROVE k + 1 \in T
    <3> SUFFICES ASSUME k + 1 <= N PROVE after[k + 1] \in S OBVIOUS
    <3>1. after[k] \in S /\ k + 1 \in 1 .. N /\ k + 1 - 1 = k BY <1>2, <2>2
    <3>2. after[k + 1] = MaskTakeNext(mask, after[k], value[k + 1]) BY <1>8, <3>1
    <3>3. value[k + 1] \in MaskChars BY <1>2, <3>1
    <3> QED BY <1>5, <3>1, <3>2, <3>3
  <2>3. N \in T
    <3> HIDE DEF T
    <3> QED BY <1>2, <2>1, <2>2, InductIn
  <2> QED BY <1>2, <2>3
<1> QED BY <1>6, <1>9 DEF S

-----------------------------------------------------------------------------
\* The field of the mask holds the characters typed.
MaskInv ==
  /\ maskMask \in MaskMasks
  /\ maskTyped \in Seq(MaskChars)
  /\ MaskHolds(maskMask, maskField, maskTyped)

\* Every call keeps what was typed in its places.
LEMMA MaskInvStep == ASSUME MaskInv, [MaskNext]_maskVars PROVE MaskInv'
<1>1. /\ maskMask \in MaskMasks /\ maskTyped \in Seq(MaskChars) /\ MaskHolds(maskMask, maskField, maskTyped)
      /\ maskMask \in Seq(STRING)
  BY MaskBlankHolds DEF MaskInv
<1>2. CASE MaskAddChar
  <2>1. PICK c \in MaskChars :
          /\ maskField' = MaskAdded(maskMask, maskField, c)
          /\ maskTyped' = IF MaskTakes(maskMask, maskField, c) THEN Append(maskTyped, c) ELSE maskTyped
          /\ maskMask' = maskMask
    BY <1>2 DEF MaskAddChar
  <2>2. maskTyped' \in Seq(MaskChars) BY <1>1, <2>1
  <2>3. MaskHolds(maskMask, maskField', maskTyped') BY <1>1, <2>1, MaskAddedHolds
  <2> QED BY <1>1, <2>1, <2>2, <2>3 DEF MaskInv, MaskHolds
<1>3. CASE MaskSetValue
  <2>1. PICK value \in MaskValues :
          /\ maskField' = [MaskTaken(maskMask, value).field EXCEPT
                             !.complete = MaskIsComplete(maskMask, MaskTaken(maskMask, value).field.buffer)]
          /\ maskTyped' = MaskTaken(maskMask, value).typed
          /\ maskMask' = maskMask
    BY <1>3 DEF MaskSetValue
  <2> DEFINE field == MaskTaken(maskMask, value).field
  <2>2. value \in Seq(MaskChars) BY MaskAssumption DEF MaskAssumption
  <2>3. maskTyped' \in Seq(MaskChars) /\ MaskHolds(maskMask, field, maskTyped')
    BY <1>1, <2>1, <2>2, MaskTakenHolds
  <2>4. maskField' = field
    <3>1. /\ field = [buffer |-> field.buffer, pos |-> field.pos, complete |-> field.complete]
          /\ field.complete \in BOOLEAN
          /\ field.complete <=> MaskIsComplete(maskMask, field.buffer)
      BY <2>3 DEF MaskHolds
    <3>2. MaskIsComplete(maskMask, field.buffer) \in BOOLEAN BY DEF MaskIsComplete
    <3>3. field.complete = MaskIsComplete(maskMask, field.buffer) BY <3>1, <3>2
    <3>4. maskField' = [field EXCEPT !.complete = field.complete] BY <2>1, <3>3
    <3> HIDE DEF field
    <3> QED BY <3>1, <3>4
  <2> HIDE DEF field
  <2> QED BY <1>1, <2>1, <2>3, <2>4 DEF MaskInv, MaskHolds
<1>4. CASE MaskReset
  <2>1. maskField' = MaskBlank(maskMask) /\ maskTyped' = <<>> /\ maskMask' = maskMask BY <1>4 DEF MaskReset
  <2>2. MaskHolds(maskMask, MaskBlank(maskMask), <<>>) /\ <<>> \in Seq(MaskChars) BY <1>1, MaskBlankHolds
  <2> HIDE DEF MaskBlank
  <2> QED BY <1>1, <2>1, <2>2 DEF MaskInv, MaskHolds
<1>5. CASE UNCHANGED maskVars BY <1>1, <1>5 DEF maskVars, MaskInv, MaskHolds
<1> QED BY <1>2, <1>3, <1>4, <1>5 DEF MaskNext

\* What MaskHolds says of the field is the property.
LEMMA MaskInvHolds == MaskInv => MaskHoldsWhatWasTyped
<1> SUFFICES ASSUME MaskInv PROVE MaskHoldsWhatWasTyped OBVIOUS
<1> DEFINE E == MaskEditable(maskMask)
           R == MaskRequired(maskMask)
           p == maskField.pos
           rank(i) == MaskRank(maskMask, i)
           typed(i) == rank(i) <= Len(maskTyped)
<1>1. maskMask \in Seq(STRING) /\ MaskHolds(maskMask, maskField, maskTyped) BY MaskBlankHolds DEF MaskInv
<1>2. /\ p \in 1 .. Len(maskMask) + 1
      /\ Len(maskTyped) = Cardinality({j \in E : j < p})
      /\ maskField.buffer = [j \in DOMAIN maskMask |->
                               IF j \notin E THEN maskMask[j]
                               ELSE IF j < p THEN maskTyped[rank(j)] ELSE MaskPlaceholder(maskMask[j])]
      /\ maskField.complete <=> MaskIsComplete(maskMask, maskField.buffer)
  BY <1>1 DEF MaskHolds
<1>3. E \subseteq DOMAIN maskMask /\ R \subseteq E BY DEF MaskEditable, MaskRequired
<1>4. ASSUME NEW i \in E PROVE typed(i) <=> i < p
  <2>1. p \in Nat BY <1>1, <1>2
  <2>2. i < p <=> rank(i) <= Cardinality({j \in E : j < p}) BY <1>1, <2>1, MaskRanks
  <2> QED BY <1>2, <2>2
<1>5. ASSUME NEW i \in DOMAIN maskMask
      PROVE  maskField.buffer[i] = IF i \notin E THEN maskMask[i]
                                   ELSE IF typed(i) THEN maskTyped[rank(i)] ELSE MaskPlaceholder(maskMask[i])
  <2>1. maskField.buffer[i] = IF i \notin E THEN maskMask[i]
                              ELSE IF i < p THEN maskTyped[rank(i)] ELSE MaskPlaceholder(maskMask[i])
    BY <1>2
  <2> QED BY <1>4, <2>1
<1>6. maskField.complete <=> \A i \in R : typed(i) /\ maskTyped[rank(i)] # MaskPlaceholder(maskMask[i])
  <2>1. ASSUME NEW i \in R
        PROVE  maskField.buffer[i] # MaskPlaceholder(maskMask[i])
                 <=> typed(i) /\ maskTyped[rank(i)] # MaskPlaceholder(maskMask[i])
    <3> HIDE DEF E, R, rank, typed
    <3> QED BY <1>3, <1>5
  <2> HIDE DEF rank, typed
  <2> QED BY <1>2, <2>1 DEF MaskIsComplete
<1>7. MaskIsFull => \A i \in E : typed(i)
  <2> SUFFICES ASSUME MaskIsFull, NEW i \in E PROVE typed(i) OBVIOUS
  <2>1. p > Len(maskMask) /\ i \in 1 .. Len(maskMask) /\ Len(maskMask) \in Nat BY <1>1, <1>3 DEF MaskIsFull
  <2>2. i < p BY <1>2, <2>1
  <2> QED BY <1>4, <2>2
<1>8. maskField.complete => \A i \in R : typed(i) BY <1>6
<1> HIDE DEF rank, typed
<1> QED BY <1>4, <1>5, <1>7, <1>8 DEF MaskHoldsWhatWasTyped, rank, typed

\* For every mask and whatever is typed into it, the field holds it, and is not
\* called complete or full too early (mask_format.c:118-239).
THEOREM MaskHoldsIt == MaskSpec => []MaskHoldsWhatWasTyped
<1>1. MaskInit => MaskInv
  <2> SUFFICES ASSUME MaskInit PROVE MaskInv OBVIOUS
  <2>1. maskMask \in MaskMasks /\ maskField = MaskBlank(maskMask) /\ maskTyped = <<>> BY DEF MaskInit
  <2>2. MaskHolds(maskMask, MaskBlank(maskMask), <<>>) /\ <<>> \in Seq(MaskChars) BY <2>1, MaskBlankHolds
  <2> HIDE DEF MaskBlank
  <2> QED BY <2>1, <2>2 DEF MaskInv
<1>2. MaskInv /\ [MaskNext]_maskVars => MaskInv' BY MaskInvStep
<1> QED BY <1>1, <1>2, MaskInvHolds, PTL DEF MaskSpec

-----------------------------------------------------------------------------
(* A number in a field.                                                    *)

\* The places of a field that move, and the characters they and a text hold.
NumRoom(f) == IF NumPointAt(f) = 0 THEN f.total ELSE f.total - 1
NumChars == (0 .. 9) \cup {NumPoint}
NumCells == NumChars \cup {NumSpace}

\* The fields of a format, by NumAssumption.
LEMMA NumFormatIs ==
  ASSUME NEW f \in NumFormats
  PROVE  /\ f.zeros \in BOOLEAN /\ f.negative \in BOOLEAN /\ f.decimal \in BOOLEAN
         /\ f.total \in Nat /\ 1 <= f.total /\ f.precision \in Nat /\ (~f.decimal => f.precision = 0)
         /\ NumPointAt(f) \in Nat /\ NumPointAt(f) < f.total
         /\ NumPointAt(f) > 0 => NumPointAt(f) = f.total - f.precision /\ f.precision >= 1
         /\ NumRoom(f) \in Nat \ {0}
         /\ NumRoom(f) = (IF NumPointAt(f) = 0 THEN f.total ELSE f.total - 1)
         /\ NumPad(f) \in NumCells /\ NumPad(f) # NumPoint /\ NumPad(f) \notin 1 .. 9
         /\ f.zeros => NumPad(f) = 0
<1>1. /\ f.zeros \in BOOLEAN /\ f.negative \in BOOLEAN /\ f.decimal \in BOOLEAN
      /\ f.total \in 1 .. 29 /\ f.precision \in Nat /\ (~f.decimal => f.precision = 0)
  BY NumAssumption DEF NumAssumption
<1>2. /\ NumPointAt(f) \in Nat /\ NumPointAt(f) < f.total
      /\ NumPointAt(f) > 0 => NumPointAt(f) = f.total - f.precision /\ f.precision >= 1
  BY <1>1 DEF NumPointAt
<1>3. NumRoom(f) \in Nat \ {0} BY <1>1, <1>2 DEF NumRoom
<1>4. NumPad(f) \in NumCells /\ NumPad(f) # NumPoint /\ NumPad(f) \notin 1 .. 9 /\ (f.zeros => NumPad(f) = 0)
  BY DEF NumPad, NumCells, NumChars, NumSpace, NumPoint
<1> QED BY <1>1, <1>2, <1>3, <1>4 DEF NumRoom

\* A sequence with an element set in.
LEMMA NumInserted ==
  ASSUME NEW S, NEW s \in Seq(S), NEW x \in S, NEW p \in 1 .. Len(s) + 1
  PROVE  /\ Places!InsertAt(s, p, x) \in Seq(S) /\ Len(Places!InsertAt(s, p, x)) = Len(s) + 1
         /\ \A i \in 1 .. Len(s) + 1 :
              Places!InsertAt(s, p, x)[i] = IF i < p THEN s[i] ELSE IF i = p THEN x ELSE s[i - 1]
<1> DEFINE a == SubSeq(s, 1, p - 1)
           b == SubSeq(s, p, Len(s))
<1>1. Len(s) \in Nat /\ p \in Nat /\ 1 <= p /\ p <= Len(s) + 1 OBVIOUS
<1>2. a \in Seq(S) /\ Len(a) = p - 1 /\ \A i \in 1 .. p - 1 : a[i] = s[i]
  BY <1>1, SubSeqProperties
<1>3. b \in Seq(S) /\ Len(b) = Len(s) + 1 - p /\ \A i \in 1 .. Len(s) + 1 - p : b[i] = s[p + i - 1]
  BY <1>1, SubSeqProperties
<1>4. <<x>> \in Seq(S) /\ Len(<<x>>) = 1 /\ <<x>>[1] = x OBVIOUS
<1> HIDE DEF a, b
<1> DEFINE c == a \o <<x>>
           t == c \o b
<1>5. c \in Seq(S) /\ Len(c) = p /\ \A i \in 1 .. p : c[i] = IF i < p THEN a[i] ELSE x
  BY <1>1, <1>2, <1>4, ConcatProperties
<1> HIDE DEF c
<1>6. t \in Seq(S) /\ Len(t) = Len(s) + 1 /\ \A i \in 1 .. Len(s) + 1 : t[i] = IF i <= p THEN c[i] ELSE b[i - p]
  BY <1>1, <1>3, <1>5, ConcatProperties
<1>7. Places!InsertAt(s, p, x) = t BY DEF Places!InsertAt, a, b, c
<1> HIDE DEF t
<1>8. ASSUME NEW i \in 1 .. Len(s) + 1
      PROVE  t[i] = IF i < p THEN s[i] ELSE IF i = p THEN x ELSE s[i - 1]
  <2>1. CASE i < p BY <1>1, <1>2, <1>5, <1>6, <2>1
  <2>2. CASE i = p BY <1>1, <1>5, <1>6, <2>2
  <2>3. CASE i > p
    <3>1. i - p \in 1 .. Len(s) + 1 - p /\ p + (i - p) - 1 = i - 1 BY <1>1, <2>3
    <3>2. t[i] = b[i - p] BY <1>1, <1>6, <2>3
    <3> QED BY <1>1, <1>3, <2>3, <3>1, <3>2
  <2> QED BY <1>1, <2>1, <2>2, <2>3
<1> QED BY <1>6, <1>7, <1>8

\* A sequence with an element taken out.
LEMMA NumRemoved ==
  ASSUME NEW S, NEW s \in Seq(S), NEW p \in 1 .. Len(s)
  PROVE  /\ Places!RemoveAt(s, p) \in Seq(S) /\ Len(Places!RemoveAt(s, p)) = Len(s) - 1
         /\ \A i \in 1 .. Len(s) - 1 : Places!RemoveAt(s, p)[i] = IF i < p THEN s[i] ELSE s[i + 1]
<1> DEFINE a == SubSeq(s, 1, p - 1)
           b == SubSeq(s, p + 1, Len(s))
           t == a \o b
<1>1. Len(s) \in Nat /\ p \in Nat /\ 1 <= p /\ p <= Len(s) OBVIOUS
<1>2. a \in Seq(S) /\ Len(a) = p - 1 /\ \A i \in 1 .. p - 1 : a[i] = s[i]
  BY <1>1, SubSeqProperties
<1>3. b \in Seq(S) /\ Len(b) = Len(s) - p /\ \A i \in 1 .. Len(s) - p : b[i] = s[p + i]
  BY <1>1, SubSeqProperties
<1>4. Places!RemoveAt(s, p) = t BY DEF Places!RemoveAt
<1> HIDE DEF a, b
<1>5. t \in Seq(S) /\ Len(t) = Len(s) - 1 /\ \A i \in 1 .. Len(s) - 1 : t[i] = IF i < p THEN a[i] ELSE b[i - p + 1]
  <2>1. /\ t \in Seq(S) /\ Len(t) = Len(a) + Len(b)
        /\ \A i \in 1 .. Len(a) + Len(b) : t[i] = IF i <= Len(a) THEN a[i] ELSE b[i - Len(a)]
    BY <1>2, <1>3, ConcatProperties
  <2>2. Len(a) + Len(b) = Len(s) - 1 BY <1>1, <1>2, <1>3
  <2> HIDE DEF t
  <2>3. ASSUME NEW i \in 1 .. Len(s) - 1
        PROVE  (i <= Len(a) <=> i < p) /\ i - Len(a) = i - p + 1
    BY <1>1, <1>2
  <2> QED BY <2>1, <2>2, <2>3
<1> HIDE DEF t
<1>6. ASSUME NEW i \in 1 .. Len(s) - 1 PROVE t[i] = IF i < p THEN s[i] ELSE s[i + 1]
  <2>1. CASE i < p
    <3>1. i \in 1 .. p - 1 BY <1>1, <2>1
    <3>2. t[i] = a[i] BY <1>5, <2>1
    <3> QED BY <1>2, <2>1, <3>1, <3>2
  <2>2. CASE i >= p
    <3>1. i - p + 1 \in 1 .. Len(s) - p /\ p + (i - p + 1) = i + 1 BY <1>1, <2>2
    <3> QED BY <1>1, <1>3, <1>5, <2>2, <3>1
  <2> QED BY <1>1, <2>1, <2>2
<1> QED BY <1>4, <1>5, <1>6

\* The field with its point, and without it again.
LEMMA NumPlacedIs ==
  ASSUME NEW f \in NumFormats, NEW w \in Seq(NumCells), Len(w) = NumRoom(f)
  PROVE  /\ NumPlaced(f, w) \in Seq(NumCells) /\ Len(NumPlaced(f, w)) = f.total
         /\ NumMoving(f, NumPlaced(f, w)) = w
         /\ \A i \in 1 .. f.total :
              NumPlaced(f, w)[i] = IF NumPointAt(f) = 0 \/ i < NumPointAt(f) THEN w[i]
                                   ELSE IF i = NumPointAt(f) THEN NumPoint ELSE w[i - 1]
<1> DEFINE p == NumPointAt(f)
           v == NumPlaced(f, w)
<1>1. p \in Nat /\ p < f.total /\ f.total \in Nat /\ NumRoom(f) = (IF p = 0 THEN f.total ELSE f.total - 1)
  BY NumFormatIs
<1>2. CASE p = 0
  <2>1. v = w /\ NumMoving(f, v) = w BY <1>2 DEF NumPlaced, NumMoving
  <2>2. Len(v) = f.total BY <1>1, <1>2, <2>1
  <2>3. \A i \in 1 .. f.total : v[i] = IF p = 0 \/ i < p THEN w[i] ELSE IF i = p THEN NumPoint ELSE w[i - 1]
    BY <1>2, <2>1
  <2> HIDE DEF p, v
  <2> QED BY <2>1, <2>2, <2>3 DEF p, v
<1>3. CASE p # 0
  <2>1. v = Places!InsertAt(w, p, NumPoint) /\ NumMoving(f, v) = Places!RemoveAt(v, p) BY <1>3 DEF NumPlaced, NumMoving
  <2>2. p \in 1 .. Len(w) + 1 /\ Len(w) + 1 = f.total /\ Len(w) \in Nat /\ p \in 1 .. Len(w) BY <1>1, <1>3
  <2>3. NumPoint \in NumCells BY DEF NumCells, NumChars
  <2> HIDE DEF p, v
  <2>4. /\ v \in Seq(NumCells) /\ Len(v) = f.total
        /\ \A i \in 1 .. f.total : v[i] = IF i < p THEN w[i] ELSE IF i = p THEN NumPoint ELSE w[i - 1]
    <3>1. /\ v \in Seq(NumCells) /\ Len(v) = Len(w) + 1
          /\ \A i \in 1 .. Len(w) + 1 : v[i] = IF i < p THEN w[i] ELSE IF i = p THEN NumPoint ELSE w[i - 1]
      <4> DEFINE u == Places!InsertAt(w, p, NumPoint)
      <4>1. /\ u \in Seq(NumCells) /\ Len(u) = Len(w) + 1
            /\ \A i \in 1 .. Len(w) + 1 : u[i] = IF i < p THEN w[i] ELSE IF i = p THEN NumPoint ELSE w[i - 1]
        BY ONLY w \in Seq(NumCells), <2>2, <2>3, NumInserted
      <4>2. v = u BY <2>1
      <4> HIDE DEF u
      <4> QED BY <4>1, <4>2
    <3> QED BY <2>2, <3>1
  <2>5. /\ Places!RemoveAt(v, p) \in Seq(NumCells) /\ Len(Places!RemoveAt(v, p)) = f.total - 1
        /\ \A i \in 1 .. f.total - 1 : Places!RemoveAt(v, p)[i] = IF i < p THEN v[i] ELSE v[i + 1]
    <3>1. p \in 1 .. Len(v) BY <2>2, <2>4
    <3> QED BY <2>4, <3>1, NumRemoved
  <2>6. ASSUME NEW i \in 1 .. Len(w) PROVE Places!RemoveAt(v, p)[i] = w[i]
    <3>1. i \in 1 .. f.total - 1 /\ i \in 1 .. f.total /\ i + 1 \in 1 .. f.total /\ i + 1 - 1 = i BY <2>2
    <3>2. CASE i < p BY <2>4, <2>5, <3>1, <3>2
    <3>3. CASE i >= p
      <4>1. ~(i < p) /\ ~(i + 1 < p) /\ i + 1 # p BY <2>2, <3>1, <3>3
      <4>2. Places!RemoveAt(v, p)[i] = v[i + 1] BY <2>5, <3>1, <4>1
      <4>3. v[i + 1] = w[i + 1 - 1] BY <2>4, <3>1, <4>1
      <4> QED BY <3>1, <4>2, <4>3
    <3> QED BY <2>2, <3>1, <3>2, <3>3
  <2>7. Places!RemoveAt(v, p) = w BY <2>2, <2>5, <2>6, SeqEqual
  <2> QED BY <1>3, <2>1, <2>4, <2>7 DEF p, v
<1> QED BY <1>2, <1>3

\* The places that move, with a text at their right end.
NumRow(f, typed) ==
  [i \in 1 .. NumRoom(f) |->
     IF i <= NumRoom(f) - Len(typed) THEN NumPad(f) ELSE typed[i - (NumRoom(f) - Len(typed))]]

\* It fills the places that move.
LEMMA NumRowIs ==
  ASSUME NEW f \in NumFormats, NEW typed \in Seq(NumChars), Len(typed) <= NumRoom(f)
  PROVE  NumRow(f, typed) \in Seq(NumCells) /\ Len(NumRow(f, typed)) = NumRoom(f)
<1> DEFINE r == NumRoom(f)
           k == r - Len(typed)
           row == NumRow(f, typed)
<1>1. r \in Nat \ {0} /\ NumPad(f) \in NumCells BY NumFormatIs
<1>2. Len(typed) \in Nat /\ k \in Nat /\ k + Len(typed) = r BY <1>1
<1>3. row = [i \in 1 .. r |-> IF i <= k THEN NumPad(f) ELSE typed[i - k]] BY DEF NumRow
<1> HIDE DEF r, k, row
<1>4. ASSUME NEW i \in 1 .. r PROVE row[i] \in NumCells
  <2>1. CASE i <= k BY <1>1, <1>3, <2>1
  <2>2. CASE i > k
    <3>1. i - k \in 1 .. Len(typed) BY <1>1, <1>2, <2>2
    <3>2. typed[i - k] \in NumChars BY <3>1
    <3>3. row[i] = typed[i - k] BY <1>2, <1>3, <2>2
    <3> QED BY <3>2, <3>3 DEF NumCells
  <2> QED BY <1>1, <1>2, <2>1, <2>2
<1>5. row \in [1 .. r -> NumCells] BY <1>3, <1>4
<1>6. row \in Seq(NumCells) /\ Len(row) = r BY <1>1, <1>5
<1> QED BY <1>6 DEF row, r

\* A character shifted in.
LEMMA NumShiftedIn ==
  ASSUME NEW f \in NumFormats, NEW typed \in Seq(NumChars), Len(typed) <= NumRoom(f), NEW c \in NumChars,
         NEW more, more = IF Len(typed) < NumRoom(f) THEN Append(typed, c) ELSE Tail(Append(typed, c))
  PROVE  /\ NumShiftIn(f, NumPlaced(f, NumRow(f, typed)), c) = NumPlaced(f, NumRow(f, more))
         /\ more \in Seq(NumChars)
         /\ Len(more) = IF Len(typed) < NumRoom(f) THEN Len(typed) + 1 ELSE Len(typed)
<1> DEFINE r == NumRoom(f)
           k == r - Len(typed)
           l == r - Len(more)
           row == NumRow(f, typed)
           new == NumRow(f, more)
           s == Append(typed, c)
           t == Tail(s)
           u == Append(Tail(row), c)
<1>1. r \in Nat \ {0} /\ Len(typed) \in Nat /\ Len(typed) <= r BY NumFormatIs
<1>2. /\ s \in Seq(NumChars) /\ Len(s) = Len(typed) + 1 /\ s[Len(typed) + 1] = c
      /\ \A i \in 1 .. Len(typed) : s[i] = typed[i]
  OBVIOUS
<1>3. t \in Seq(NumChars) /\ Len(t) = Len(typed) /\ \A i \in 1 .. Len(typed) : t[i] = s[i + 1]
  <2> HIDE DEF s
  <2>1. s # <<>> BY <1>1, <1>2
  <2> QED BY <1>1, <1>2, <2>1, HeadTailProperties
<1>4. /\ more \in Seq(NumChars) /\ Len(more) = IF Len(typed) < r THEN Len(typed) + 1 ELSE Len(typed)
      /\ Len(more) \in Nat /\ Len(more) <= r
  <2> HIDE DEF r, s, t
  <2>1. more = IF Len(typed) < r THEN s ELSE t BY DEF r, s, t
  <2> QED BY <1>1, <1>2, <1>3, <2>1
<1>5. row \in Seq(NumCells) /\ Len(row) = r /\ new \in Seq(NumCells) /\ Len(new) = r
  <2> HIDE DEF r
  <2>1. Len(typed) <= NumRoom(f) /\ Len(more) <= NumRoom(f) BY <1>1, <1>4 DEF r
  <2> QED BY <1>4, <2>1, NumRowIs DEF r
<1>6. /\ \A i \in 1 .. r : row[i] = IF i <= k THEN NumPad(f) ELSE typed[i - k]
      /\ \A i \in 1 .. r : new[i] = IF i <= l THEN NumPad(f) ELSE more[i - l]
  BY DEF NumRow
<1>7. more = IF Len(typed) < r THEN s ELSE t OBVIOUS
<1>8. k \in Nat /\ l \in Nat /\ k + Len(typed) = r /\ l + Len(more) = r BY <1>1, <1>4
<1>9. c \in NumCells BY DEF NumCells
<1>10. NumMoving(f, NumPlaced(f, row)) = row
  <2> HIDE DEF row
  <2>1. Len(row) = NumRoom(f) BY <1>5
  <2> QED BY <1>5, <2>1, NumPlacedIs
<1> HIDE DEF r, k, l, row, new, s, t
<1>11. /\ u \in Seq(NumCells) /\ Len(u) = r /\ u[r] = c
       /\ \A i \in 1 .. r - 1 : u[i] = row[i + 1]
  <2> DEFINE v == Tail(row)
  <2>1. v \in Seq(NumCells) /\ Len(v) = r - 1 /\ \A i \in 1 .. r - 1 : v[i] = row[i + 1]
    <3>1. row # <<>> BY <1>1, <1>5
    <3> QED BY ONLY <1>1, <1>5, <3>1, HeadTailProperties
  <2> HIDE DEF v
  <2>2. u = Append(v, c) BY DEF v
  <2> HIDE DEF u
  <2> QED BY ONLY <1>1, <1>9, <2>1, <2>2
<1> HIDE DEF u
<1>12. ASSUME NEW i \in 1 .. r PROVE u[i] = new[i]
  <2>1. CASE Len(typed) < r
    <3>1. l = k - 1 /\ more = s /\ Len(more) = Len(typed) + 1 BY <1>1, <1>4, <1>7, <1>8, <2>1
    <3>2. CASE i = r
      <4>1. ~(i <= l) /\ i - l = Len(typed) + 1 BY <1>1, <1>8, <2>1, <3>1, <3>2
      <4>2. u[i] = c BY <1>11, <3>2
      <4>3. new[i] = s[Len(typed) + 1] BY <1>6, <3>1, <4>1
      <4> QED BY <1>2, <4>2, <4>3
    <3>3. CASE i < r
      <4>1. i \in 1 .. r - 1 /\ i + 1 \in 1 .. r BY <1>1, <3>3
      <4>2. u[i] = row[i + 1] /\ row[i + 1] = IF i + 1 <= k THEN NumPad(f) ELSE typed[i + 1 - k]
        <5>1. u[i] = row[i + 1] BY ONLY <1>11, <4>1
        <5>2. row[i + 1] = IF i + 1 <= k THEN NumPad(f) ELSE typed[i + 1 - k] BY <1>6, <1>8, <4>1
        <5> QED BY <5>1, <5>2
      <4>3. CASE i <= l
        <5>1. i + 1 <= k BY <1>8, <3>1, <4>1, <4>3
        <5> QED BY <1>6, <4>2, <4>3, <5>1
      <4>4. CASE i > l
        <5>1. ~(i + 1 <= k) /\ ~(i <= l) /\ i + 1 - k = i - l /\ i - l \in 1 .. Len(typed)
          BY <1>1, <1>8, <3>1, <4>1, <4>4
        <5>2. new[i] = s[i - l] BY <1>6, <3>1, <5>1
        <5>3. s[i - l] = typed[i - l] BY <1>2, <5>1
        <5> QED BY <4>2, <5>1, <5>2, <5>3
      <4> QED BY <1>8, <4>1, <4>3, <4>4
    <3> QED BY <1>1, <3>2, <3>3
  <2>2. CASE ~(Len(typed) < r)
    <3>1. k = 0 /\ l = 0 /\ more = t /\ Len(typed) = r
      <4>1. more = t BY <1>7, <2>2
      <4>2. Len(typed) = r /\ Len(more) = r BY ONLY <1>1, <1>4, <2>2
      <4>3. k = 0 /\ l = 0 BY ONLY <1>1, <1>8, <4>2
      <4> QED BY <4>1, <4>2, <4>3
    <3>2. new[i] = t[i] /\ t[i] = s[i + 1]
      <4>1. ~(i <= l) /\ i - l = i /\ i \in 1 .. Len(typed) BY <1>1, <3>1
      <4> QED BY <1>3, <1>6, <3>1, <4>1
    <3>3. CASE i = r BY <1>2, <1>11, <3>1, <3>2, <3>3
    <3>4. CASE i < r
      <4>1. i \in 1 .. r - 1 /\ i + 1 \in 1 .. r BY <1>1, <3>4
      <4>2. ~(i + 1 <= k) /\ i + 1 - k = i + 1 BY <3>1, <4>1
      <4>3. row[i + 1] = typed[i + 1]
        <5>1. row[i + 1] = IF i + 1 <= k THEN NumPad(f) ELSE typed[i + 1 - k] BY <1>6, <1>8, <4>1
        <5> QED BY <4>2, <5>1
      <4>4. s[i + 1] = typed[i + 1] BY <1>2, <3>1, <4>1
      <4> QED BY <1>11, <3>2, <4>1, <4>3, <4>4
    <3> QED BY <1>1, <3>3, <3>4
  <2> QED BY <2>1, <2>2
<1>13. u = new BY ONLY <1>5, <1>11, <1>12, SeqEqual
<1>14. NumShiftIn(f, NumPlaced(f, row), c) = NumPlaced(f, u) BY <1>10 DEF NumShiftIn, u
<1> QED BY <1>4, <1>13, <1>14 DEF row, new, r

\* A character shifted out.
LEMMA NumShiftedOut ==
  ASSUME NEW f \in NumFormats, NEW typed \in Seq(NumChars), Len(typed) <= NumRoom(f),
         NEW less, less = IF typed = <<>> THEN typed ELSE Places!Front(typed)
  PROVE  /\ NumShiftOut(f, NumPlaced(f, NumRow(f, typed))) = NumPlaced(f, NumRow(f, less))
         /\ less \in Seq(NumChars)
         /\ Len(less) = IF typed = <<>> THEN 0 ELSE Len(typed) - 1
         /\ \A i \in 1 .. Len(less) : less[i] = typed[i]
<1> DEFINE r == NumRoom(f)
           k == r - Len(typed)
           l == r - Len(less)
           row == NumRow(f, typed)
           new == NumRow(f, less)
           front == Places!Front(row)
           u == <<NumPad(f)>> \o front
<1>1. r \in Nat \ {0} /\ Len(typed) \in Nat /\ Len(typed) <= r /\ NumPad(f) \in NumCells BY NumFormatIs
<1>2. /\ less \in Seq(NumChars) /\ Len(less) = (IF typed = <<>> THEN 0 ELSE Len(typed) - 1)
      /\ \A i \in 1 .. Len(less) : less[i] = typed[i]
  <2>1. CASE typed = <<>> BY <2>1
  <2>2. CASE typed # <<>>
    <3>1. Len(typed) > 0 BY <1>1, <2>2
    <3>2. less = SubSeq(typed, 1, Len(typed) - 1) BY <2>2 DEF Places!Front
    <3>3. \A i \in 1 .. Len(typed) - 1 : typed[i] \in NumChars BY <3>1
    <3> QED BY <1>1, <2>2, <3>1, <3>2, <3>3, SubSeqProperties
  <2> QED BY <2>1, <2>2
<1>3. Len(less) \in Nat /\ Len(less) <= r /\ k \in Nat /\ l \in Nat /\ k + Len(typed) = r /\ l + Len(less) = r
      /\ (typed # <<>> => Len(typed) >= 1) /\ (typed = <<>> => Len(typed) = 0)
  <2>1. typed # <<>> => Len(typed) >= 1 BY <1>1
  <2> HIDE DEF r
  <2> QED BY <1>1, <1>2, <2>1
<1>4. row \in Seq(NumCells) /\ Len(row) = r /\ new \in Seq(NumCells) /\ Len(new) = r
  <2> HIDE DEF r
  <2>1. Len(typed) <= NumRoom(f) /\ Len(less) <= NumRoom(f) BY <1>1, <1>3 DEF r
  <2> QED BY <1>2, <2>1, NumRowIs DEF r
<1>5. /\ \A i \in 1 .. r : row[i] = IF i <= k THEN NumPad(f) ELSE typed[i - k]
      /\ \A i \in 1 .. r : new[i] = IF i <= l THEN NumPad(f) ELSE less[i - l]
  BY DEF NumRow
<1>6. NumMoving(f, NumPlaced(f, row)) = row
  <2> HIDE DEF row
  <2>1. Len(row) = NumRoom(f) BY <1>4
  <2> QED BY <1>4, <2>1, NumPlacedIs
<1> HIDE DEF r, k, l, row, new, front
<1>7. front \in Seq(NumCells) /\ Len(front) = r - 1 /\ \A i \in 1 .. r - 1 : front[i] = row[i]
  <2>1. front = SubSeq(row, 1, r - 1) BY <1>4 DEF Places!Front, front
  <2>2. \A i \in 1 .. r - 1 : row[i] \in NumCells BY <1>1, <1>4
  <2> QED BY <1>1, <2>1, <2>2, SubSeqProperties
<1>8. /\ u \in Seq(NumCells) /\ Len(u) = r /\ u[1] = NumPad(f)
      /\ \A i \in 2 .. r : u[i] = row[i - 1]
  <2>1. <<NumPad(f)>> \in Seq(NumCells) /\ Len(<<NumPad(f)>>) = 1 /\ <<NumPad(f)>>[1] = NumPad(f) BY <1>1
  <2>2. /\ u \in Seq(NumCells) /\ Len(u) = 1 + (r - 1)
        /\ \A i \in 1 .. 1 + (r - 1) : u[i] = IF i <= 1 THEN <<NumPad(f)>>[i] ELSE front[i - 1]
    BY <1>1, <1>7, <2>1, ConcatProperties
  <2> HIDE DEF u
  <2>3. u[1] = NumPad(f) BY <1>1, <2>1, <2>2
  <2>4. ASSUME NEW i \in 2 .. r PROVE u[i] = row[i - 1]
    <3>1. i \in 1 .. 1 + (r - 1) /\ ~(i <= 1) /\ i - 1 \in 1 .. r - 1 BY <1>1
    <3> QED BY <1>7, <2>2, <3>1
  <2>5. Len(u) = r BY <1>1, <2>2
  <2> QED BY <2>2, <2>3, <2>4, <2>5
<1> HIDE DEF u
<1>9. ASSUME NEW i \in 1 .. r PROVE u[i] = new[i]
  <2>1. CASE typed = <<>>
    <3>1. k = r /\ l = r BY <1>1, <1>2, <1>3, <2>1
    <3>2. i = 1 \/ (i \in 2 .. r /\ i - 1 \in 1 .. r /\ i - 1 <= k) BY <1>1, <3>1
    <3>3. i <= l BY <1>1, <3>1
    <3> QED BY <1>5, <1>8, <3>2, <3>3
  <2>2. CASE typed # <<>>
    <3>1. l = k + 1 /\ Len(less) = Len(typed) - 1 BY <1>1, <1>2, <1>3, <2>2
    <3>2. CASE i = 1
      <4>1. i <= l BY <1>3, <3>1, <3>2
      <4> QED BY <1>5, <1>8, <3>2, <4>1
    <3>3. CASE i # 1
      <4>1. i \in 2 .. r /\ i - 1 \in 1 .. r BY <1>1, <3>3
      <4>2. u[i] = IF i - 1 <= k THEN NumPad(f) ELSE typed[i - 1 - k] BY <1>5, <1>8, <4>1
      <4>3. CASE i <= l
        <5>1. i - 1 <= k BY <1>3, <3>1, <4>1, <4>3
        <5> QED BY <1>5, <4>2, <4>3, <5>1
      <4>4. CASE i > l
        <5>1. ~(i <= l) /\ ~(i - 1 <= k) /\ i - 1 - k = i - l /\ i - l \in 1 .. Len(less)
          BY <1>1, <1>3, <3>1, <4>1, <4>4
        <5>2. less[i - l] = typed[i - l] BY <1>2, <5>1
        <5>3. new[i] = less[i - l] BY <1>5, <5>1
        <5> QED BY <4>2, <5>1, <5>2, <5>3
      <4> QED BY <1>3, <4>1, <4>3, <4>4
    <3> QED BY <3>2, <3>3
  <2> QED BY <2>1, <2>2
<1>10. u = new BY ONLY <1>4, <1>8, <1>9, SeqEqual
<1>11. NumShiftOut(f, NumPlaced(f, row)) = NumPlaced(f, u) BY <1>6 DEF NumShiftOut, u, front
<1> QED BY <1>2, <1>10, <1>11 DEF row, new

-----------------------------------------------------------------------------
(* Reading a text from the left, one character after the other.            *)

\* m holds what has been read after each character.
NumReads(m, X, F, first, text) ==
  /\ m \in [0 .. Len(text) -> X]
  /\ m[0] = first
  /\ \A n \in 1 .. Len(text) : m[n] = F[<<m[n - 1], text[n]>>]

\* The rounds of the loops of get_value: the number, and the digits behind
\* the point.
NumDigit == [r \in Nat \X NumCells |-> IF r[2] \in 0 .. 9 THEN 10 * r[1] + r[2] ELSE r[1]]
NumDecimal ==
  [r \in Int \X NumCells |->
     IF r[2] = NumPoint THEN 0 ELSE IF r[2] \in 0 .. 9 /\ r[1] >= 0 THEN r[1] + 1 ELSE r[1]]

\* Every text can be read to its end.
LEMMA NumReadable ==
  ASSUME NEW X, NEW F \in [X \X NumCells -> X], NEW first \in X, NEW text \in Seq(NumCells)
  PROVE  \E m : NumReads(m, X, F, first, text)
<1> DEFINE N == Len(text)
           turn == [n \in 1 .. N |-> [x \in X |-> F[<<x, text[n]>>]]]
<1>1. N \in Nat /\ \A n \in 1 .. N : text[n] \in NumCells OBVIOUS
<1>2. turn \in [1 .. N -> [X -> X]] BY <1>1
<1>3. HasRecursion(N, X, first, turn)
  <2> HIDE DEF N, turn
  <2> QED BY <1>1, <1>2, RecursionIn
<1>4. PICK g \in [0 .. N -> X] : g[0] = first /\ \A n \in 1 .. N : g[n] = turn[n][g[n - 1]]
  <2> HIDE DEF turn
  <2> QED BY <1>3 DEF HasRecursion
<1>5. ASSUME NEW n \in 1 .. N PROVE g[n] = F[<<g[n - 1], text[n]>>]
  <2>1. n - 1 \in 0 .. N BY <1>1
  <2>2. g[n - 1] \in X BY <1>4, <2>1
  <2>3. turn[n][g[n - 1]] = F[<<g[n - 1], text[n]>>] BY <2>2
  <2> QED BY <1>4, <2>3
<1>6. NumReads(g, X, F, first, text)
  <2> HIDE DEF turn
  <2> QED BY <1>4, <1>5 DEF NumReads
<1> QED BY <1>6

\* NumMantissa is such a reading, digit by digit.
LEMMA NumMantissaIs ==
  ASSUME NEW text \in Seq(NumCells)
  PROVE  \E m : NumReads(m, Nat, NumDigit, 0, text) /\ NumMantissa(text) = m[Len(text)]
<1> DEFINE N == Len(text)
           Unfold(x) == [n \in 0 .. N |-> IF n = 0 THEN 0
                           ELSE IF text[n] \in 0 .. 9 THEN 10 * x[n - 1] + text[n] ELSE x[n - 1]]
           m == CHOOSE x : x = Unfold(x)
<1>1. N \in Nat /\ \A n \in 1 .. N : text[n] \in NumCells OBVIOUS
<1>2. NumMantissa(text) = m[N] BY DEF NumMantissa
<1>3. ASSUME NEW x \in Nat, NEW c \in NumCells
      PROVE  NumDigit[<<x, c>>] = (IF c \in 0 .. 9 THEN 10 * x + c ELSE x) /\ NumDigit[<<x, c>>] \in Nat
  <2>1. <<x, c>> \in Nat \X NumCells /\ <<x, c>>[1] = x /\ <<x, c>>[2] = c OBVIOUS
  <2>2. NumDigit[<<x, c>>] = (IF c \in 0 .. 9 THEN 10 * x + c ELSE x) BY <2>1 DEF NumDigit
  <2> QED BY <2>2
<1>4. NumDigit \in [Nat \X NumCells -> Nat]
  <2>1. ASSUME NEW r \in Nat \X NumCells
        PROVE  (IF r[2] \in 0 .. 9 THEN 10 * r[1] + r[2] ELSE r[1]) \in Nat
    OBVIOUS
  <2> QED BY <2>1 DEF NumDigit
<1>5. m = Unfold(m)
  <2>1. PICK g : NumReads(g, Nat, NumDigit, 0, text) BY <1>4, NumReadable
  <2>2. g = [n \in 0 .. N |-> g[n]] /\ g[0] = 0 /\ \A n \in 0 .. N : g[n] \in Nat BY <2>1 DEF NumReads
  <2>3. ASSUME NEW n \in 0 .. N
        PROVE  g[n] = IF n = 0 THEN 0 ELSE IF text[n] \in 0 .. 9 THEN 10 * g[n - 1] + text[n] ELSE g[n - 1]
    <3>1. CASE n = 0 BY <2>2, <3>1
    <3>2. CASE n # 0
      <4>1. n \in 1 .. N /\ n - 1 \in 0 .. N BY <1>1, <3>2
      <4>2. g[n] = NumDigit[<<g[n - 1], text[n]>>] BY <2>1, <4>1 DEF NumReads
      <4>3. g[n - 1] \in Nat /\ text[n] \in NumCells BY <1>1, <2>2, <4>1
      <4> QED BY <1>3, <3>2, <4>2, <4>3
    <3> QED BY <3>1, <3>2
  <2>4. g = Unfold(g)
    <3> HIDE DEF N
    <3> QED BY <2>2, <2>3
  <2> HIDE DEF Unfold
  <2> QED BY <2>4
<1> HIDE DEF m
<1>6. ASSUME NEW n \in 0 .. N
      PROVE  m[n] = IF n = 0 THEN 0 ELSE IF text[n] \in 0 .. 9 THEN 10 * m[n - 1] + text[n] ELSE m[n - 1]
  <2>1. m[n] = Unfold(m)[n] BY <1>5
  <2> QED BY <2>1
<1> DEFINE T == {k \in Nat : k <= N => m[k] \in Nat}
<1>7. 0 \in T BY <1>1, <1>6
<1>8. ASSUME NEW k \in Nat, k \in T PROVE k + 1 \in T
  <2> SUFFICES ASSUME k + 1 <= N PROVE m[k + 1] \in Nat OBVIOUS
  <2>1. m[k] \in Nat /\ k + 1 \in 0 .. N /\ k + 1 # 0 /\ k + 1 - 1 = k BY <1>1, <1>8
  <2>2. m[k + 1] = IF text[k + 1] \in 0 .. 9 THEN 10 * m[k] + text[k + 1] ELSE m[k] BY <1>6, <2>1
  <2>3. CASE text[k + 1] \in 0 .. 9
    <3>1. text[k + 1] \in Nat BY <2>3
    <3>2. 10 * m[k] + text[k + 1] \in Nat BY ONLY <2>1, <3>1
    <3> QED BY <2>2, <2>3, <3>2
  <2>4. CASE text[k + 1] \notin 0 .. 9 BY <2>1, <2>2, <2>4
  <2> QED BY <2>3, <2>4
<1>9. \A k \in 0 .. N : m[k] \in Nat
  <2>1. Nat \subseteq T
    <3> HIDE DEF T
    <3> QED BY <1>7, <1>8, InductIn
  <2> QED BY <1>1, <2>1
<1>10. m \in [0 .. N -> Nat]
  <2>1. m = [n \in 0 .. N |-> m[n]]
    <3>1. DOMAIN Unfold(m) = 0 .. N /\ Unfold(m) = [n \in 0 .. N |-> Unfold(m)[n]] OBVIOUS
    <3> HIDE DEF Unfold, N
    <3> QED BY <1>5, <3>1
  <2> HIDE DEF N
  <2> QED BY <1>9, <2>1
<1>11. ASSUME NEW n \in 1 .. N PROVE m[n] = NumDigit[<<m[n - 1], text[n]>>]
  <2>1. n \in 0 .. N /\ n # 0 /\ n - 1 \in 0 .. N BY <1>1
  <2>2. m[n - 1] \in Nat /\ text[n] \in NumCells BY <1>1, <1>9, <2>1
  <2> QED BY <1>3, <1>6, <2>1, <2>2
<1>12. m[0] = 0 BY <1>1, <1>6
<1> QED BY <1>2, <1>10, <1>11, <1>12 DEF NumReads

\* So is NumDecimals, which starts before any point.
LEMMA NumDecimalsIs ==
  ASSUME NEW text \in Seq(NumCells)
  PROVE  \E m : NumReads(m, Int, NumDecimal, -1, text) /\ NumDecimals(text) = m[Len(text)]
<1> DEFINE N == Len(text)
           Unfold(x) == [n \in 0 .. N |-> IF n = 0 THEN -1
                           ELSE IF text[n] = NumPoint THEN 0
                           ELSE IF text[n] \in 0 .. 9 /\ x[n - 1] >= 0 THEN x[n - 1] + 1 ELSE x[n - 1]]
           m == CHOOSE x : x = Unfold(x)
<1>1. N \in Nat /\ \A n \in 1 .. N : text[n] \in NumCells OBVIOUS
<1>2. NumDecimals(text) = m[N] BY DEF NumDecimals
<1>3. ASSUME NEW x \in Int, NEW c \in NumCells
      PROVE  /\ NumDecimal[<<x, c>>] = IF c = NumPoint THEN 0 ELSE IF c \in 0 .. 9 /\ x >= 0 THEN x + 1 ELSE x
             /\ NumDecimal[<<x, c>>] \in Int
  <2>1. <<x, c>> \in Int \X NumCells /\ <<x, c>>[1] = x /\ <<x, c>>[2] = c OBVIOUS
  <2>2. NumDecimal[<<x, c>>] = IF c = NumPoint THEN 0 ELSE IF c \in 0 .. 9 /\ x >= 0 THEN x + 1 ELSE x
    BY <2>1 DEF NumDecimal
  <2> QED BY <2>2
<1>4. NumDecimal \in [Int \X NumCells -> Int]
  <2>1. ASSUME NEW r \in Int \X NumCells
        PROVE  (IF r[2] = NumPoint THEN 0 ELSE IF r[2] \in 0 .. 9 /\ r[1] >= 0 THEN r[1] + 1 ELSE r[1]) \in Int
    OBVIOUS
  <2> QED BY <2>1 DEF NumDecimal
<1>5. m = Unfold(m)
  <2>0. -1 \in Int OBVIOUS
  <2>1. PICK g : NumReads(g, Int, NumDecimal, -1, text) BY <1>4, <2>0, NumReadable
  <2>2. g = [n \in 0 .. N |-> g[n]] /\ g[0] = -1 /\ \A n \in 0 .. N : g[n] \in Int BY <2>1 DEF NumReads
  <2>3. ASSUME NEW n \in 0 .. N
        PROVE  g[n] = IF n = 0 THEN -1 ELSE IF text[n] = NumPoint THEN 0
                        ELSE IF text[n] \in 0 .. 9 /\ g[n - 1] >= 0 THEN g[n - 1] + 1 ELSE g[n - 1]
    <3>1. CASE n = 0 BY <2>2, <3>1
    <3>2. CASE n # 0
      <4>1. n \in 1 .. N /\ n - 1 \in 0 .. N BY <1>1, <3>2
      <4>2. g[n] = NumDecimal[<<g[n - 1], text[n]>>] BY <2>1, <4>1 DEF NumReads
      <4>3. g[n - 1] \in Int /\ text[n] \in NumCells BY <1>1, <2>2, <4>1
      <4> QED BY <1>3, <3>2, <4>2, <4>3
    <3> QED BY <3>1, <3>2
  <2>4. g = Unfold(g)
    <3> HIDE DEF N
    <3> QED BY <2>2, <2>3
  <2> HIDE DEF Unfold
  <2> QED BY <2>4
<1> HIDE DEF m
<1>6. ASSUME NEW n \in 0 .. N
      PROVE  m[n] = IF n = 0 THEN -1 ELSE IF text[n] = NumPoint THEN 0
                        ELSE IF text[n] \in 0 .. 9 /\ m[n - 1] >= 0 THEN m[n - 1] + 1 ELSE m[n - 1]
  <2>1. m[n] = Unfold(m)[n] BY <1>5
  <2> QED BY <2>1
<1> DEFINE T == {k \in Nat : k <= N => m[k] \in Int}
<1>7. 0 \in T BY <1>1, <1>6
<1>8. ASSUME NEW k \in Nat, k \in T PROVE k + 1 \in T
  <2> SUFFICES ASSUME k + 1 <= N PROVE m[k + 1] \in Int OBVIOUS
  <2>1. m[k] \in Int /\ k + 1 \in 0 .. N /\ k + 1 # 0 /\ k + 1 - 1 = k BY <1>1, <1>8
  <2>2. m[k + 1] = IF text[k + 1] = NumPoint THEN 0
                    ELSE IF text[k + 1] \in 0 .. 9 /\ m[k] >= 0 THEN m[k] + 1 ELSE m[k]
    BY <1>6, <2>1
  <2> QED BY <2>1, <2>2
<1>9. \A k \in 0 .. N : m[k] \in Int
  <2>1. Nat \subseteq T
    <3> HIDE DEF T
    <3> QED BY <1>7, <1>8, InductIn
  <2> QED BY <1>1, <2>1
<1>10. m \in [0 .. N -> Int]
  <2>1. m = [n \in 0 .. N |-> m[n]]
    <3>1. DOMAIN Unfold(m) = 0 .. N /\ Unfold(m) = [n \in 0 .. N |-> Unfold(m)[n]] OBVIOUS
    <3> HIDE DEF Unfold, N
    <3> QED BY <1>5, <3>1
  <2> HIDE DEF N
  <2> QED BY <1>9, <2>1
<1>11. ASSUME NEW n \in 1 .. N PROVE m[n] = NumDecimal[<<m[n - 1], text[n]>>]
  <2>1. n \in 0 .. N /\ n # 0 /\ n - 1 \in 0 .. N BY <1>1
  <2>2. m[n - 1] \in Int /\ text[n] \in NumCells BY <1>1, <1>9, <2>1
  <2> QED BY <1>3, <1>6, <2>1, <2>2
<1>12. m[0] = -1 BY <1>1, <1>6
<1> QED BY <1>2, <1>10, <1>11, <1>12 DEF NumReads

NumReader(X, F, first) == F \in [X \X NumCells -> X] /\ first \in X

\* s is t behind k characters that leave nothing read.
NumPads(F, first, s, t, k) ==
  /\ k \in Nat /\ Len(s) = k + Len(t)
  /\ \A i \in 1 .. k : F[<<first, s[i]>>] = first
  /\ \A j \in 1 .. Len(t) : s[k + j] = t[j]

\* s is t with a character at q that is not read.
NumHides(X, F, s, t, q) ==
  /\ q \in 1 .. Len(s) /\ Len(s) = Len(t) + 1
  /\ \A x \in X : F[<<x, s[q]>>] = x
  /\ \A i \in 1 .. Len(t) : t[i] = IF i < q THEN s[i] ELSE s[i + 1]

\* Characters in front that leave nothing read do not matter.
LEMMA NumSkipped ==
  ASSUME NEW X, NEW F, NEW first, NumReader(X, F, first),
         NEW s \in Seq(NumCells), NEW t \in Seq(NumCells), NEW k, NumPads(F, first, s, t, k),
         NEW a, NEW b, NumReads(a, X, F, first, s), NumReads(b, X, F, first, t)
  PROVE  a[Len(s)] = b[Len(t)]
<1>0. /\ k \in Nat /\ Len(s) = k + Len(t)
      /\ \A i \in 1 .. k : F[<<first, s[i]>>] = first
      /\ \A j \in 1 .. Len(t) : s[k + j] = t[j]
  BY DEF NumPads, NumReader
<1>1. a[0] = first /\ \A n \in 1 .. Len(s) : a[n] = F[<<a[n - 1], s[n]>>] BY DEF NumReads
<1>2. b[0] = first /\ \A n \in 1 .. Len(t) : b[n] = F[<<b[n - 1], t[n]>>] BY DEF NumReads
<1>3. Len(s) \in Nat /\ Len(t) \in Nat OBVIOUS
<1>4. a[k] = first
  <2> DEFINE T == {i \in Nat : i <= k => a[i] = first}
  <2>1. 0 \in T BY <1>1
  <2>2. ASSUME NEW i \in Nat, i \in T PROVE i + 1 \in T
    <3> SUFFICES ASSUME i + 1 <= k PROVE a[i + 1] = first OBVIOUS
    <3>1. a[i] = first /\ i + 1 \in 1 .. k /\ i + 1 \in 1 .. Len(s) /\ i + 1 - 1 = i BY <1>0, <1>3, <2>2
    <3>2. a[i + 1] = F[<<a[i], s[i + 1]>>] BY <1>1, <3>1
    <3> QED BY <1>0, <3>1, <3>2
  <2>3. k \in T
    <3> HIDE DEF T
    <3> QED BY <1>0, <2>1, <2>2, InductIn
  <2> QED BY <2>3
<1> DEFINE T == {j \in Nat : j <= Len(t) => a[k + j] = b[j]}
<1>5. 0 \in T
  <2>1. k + 0 = k BY <1>0
  <2> QED BY <1>2, <1>4, <2>1
<1>6. ASSUME NEW j \in Nat, j \in T PROVE j + 1 \in T
  <2> SUFFICES ASSUME j + 1 <= Len(t) PROVE a[k + (j + 1)] = b[j + 1] OBVIOUS
  <2>1. /\ a[k + j] = b[j] /\ j + 1 \in 1 .. Len(t) /\ j + 1 - 1 = j
        /\ k + (j + 1) \in 1 .. Len(s) /\ k + (j + 1) - 1 = k + j
    BY <1>0, <1>3, <1>6
  <2>2. a[k + (j + 1)] = F[<<a[k + j], s[k + (j + 1)]>>]
    <3> DEFINE n == k + (j + 1)
    <3>1. n \in 1 .. Len(s) /\ n - 1 = k + j BY <1>0, <2>1
    <3> HIDE DEF n
    <3>2. a[n] = F[<<a[n - 1], s[n]>>] BY <1>1, <3>1
    <3>3. a[n] = F[<<a[k + j], s[n]>>] BY <3>1, <3>2
    <3> QED BY <3>3 DEF n
  <2>3. b[j + 1] = F[<<b[j], t[j + 1]>>] BY <1>2, <2>1
  <2>4. s[k + (j + 1)] = t[j + 1] BY <1>0, <2>1
  <2> QED BY <2>1, <2>2, <2>3, <2>4
<1>7. Len(t) \in T
  <2> HIDE DEF T
  <2> QED BY <1>3, <1>5, <1>6, InductIn
<1> QED BY <1>0, <1>3, <1>7

\* Nor does one that is not read at all.
LEMMA NumOverlooked ==
  ASSUME NEW X, NEW F, NEW first, NumReader(X, F, first),
         NEW s \in Seq(NumCells), NEW t \in Seq(NumCells), NEW q, NumHides(X, F, s, t, q),
         NEW a, NEW b, NumReads(a, X, F, first, s), NumReads(b, X, F, first, t)
  PROVE  a[Len(s)] = b[Len(t)]
<1>0. /\ q \in 1 .. Len(s) /\ Len(s) = Len(t) + 1 /\ \A x \in X : F[<<x, s[q]>>] = x
      /\ \A i \in 1 .. Len(t) : t[i] = IF i < q THEN s[i] ELSE s[i + 1]
  BY DEF NumHides, NumReader
<1>1. /\ a[0] = first /\ \A n \in 1 .. Len(s) : a[n] = F[<<a[n - 1], s[n]>>]
      /\ \A n \in 0 .. Len(s) : a[n] \in X
  BY DEF NumReads
<1>2. b[0] = first /\ \A n \in 1 .. Len(t) : b[n] = F[<<b[n - 1], t[n]>>] BY DEF NumReads
<1>3. Len(s) \in Nat /\ Len(t) \in Nat /\ q \in Nat /\ 1 <= q /\ q <= Len(t) + 1 /\ Len(s) = Len(t) + 1 BY <1>0
<1> DEFINE T == {j \in Nat : j <= Len(t) => b[j] = IF j < q THEN a[j] ELSE a[j + 1]}
<1>4. a[q] = a[q - 1]
  <2>1. q \in 1 .. Len(s) /\ q - 1 \in 0 .. Len(s) BY <1>3
  <2>2. a[q] = F[<<a[q - 1], s[q]>>] /\ a[q - 1] \in X BY <1>1, <2>1
  <2> QED BY <1>0, <2>2
<1>5. 0 \in T BY <1>1, <1>2, <1>3
<1>6. ASSUME NEW j \in Nat, j \in T PROVE j + 1 \in T
  <2> SUFFICES ASSUME j + 1 <= Len(t) PROVE b[j + 1] = IF j + 1 < q THEN a[j + 1] ELSE a[j + 1 + 1] OBVIOUS
  <2>1. /\ b[j] = IF j < q THEN a[j] ELSE a[j + 1]
        /\ j + 1 \in 1 .. Len(t) /\ j + 1 \in 1 .. Len(s) /\ j + 1 + 1 \in 1 .. Len(s)
        /\ j + 1 - 1 = j /\ j + 1 + 1 - 1 = j + 1
    BY <1>3, <1>6
  <2>2. b[j + 1] = F[<<b[j], t[j + 1]>>] BY <1>2, <2>1
  <2>3. CASE j + 1 < q
    <3>1. b[j] = a[j] BY <1>3, <2>1, <2>3
    <3>2. t[j + 1] = s[j + 1] BY <1>0, <2>1, <2>3
    <3>3. a[j + 1] = F[<<a[j], s[j + 1]>>] BY <1>1, <2>1
    <3> QED BY <2>2, <2>3, <3>1, <3>2, <3>3
  <2>4. CASE ~(j + 1 < q)
    <3>1. b[j] = a[j + 1]
      <4>1. CASE j < q
        <5>1. j + 1 = q /\ q - 1 = j BY <1>3, <2>4, <4>1
        <5> QED BY <1>4, <2>1, <4>1, <5>1
      <4>2. CASE ~(j < q) BY <2>1, <4>2
      <4> QED BY <4>1, <4>2
    <3>2. t[j + 1] = s[j + 1 + 1] BY <1>0, <2>1, <2>4
    <3>3. a[j + 1 + 1] = F[<<a[j + 1], s[j + 1 + 1]>>] BY <1>1, <2>1
    <3> QED BY <2>2, <2>4, <3>1, <3>2, <3>3
  <2> QED BY <2>3, <2>4
<1>7. Len(t) \in T
  <2> HIDE DEF T
  <2> QED BY <1>3, <1>5, <1>6, InductIn
<1>8. CASE Len(t) < q
  <2>1. q = Len(s) /\ q - 1 = Len(t) BY <1>3, <1>8
  <2> QED BY <1>3, <1>4, <1>7, <1>8, <2>1
<1>9. CASE ~(Len(t) < q) BY <1>3, <1>7, <1>9
<1> QED BY <1>8, <1>9

\* What one character of a text does to what is read.
LEMMA NumTurns ==
  /\ NumDigit \in [Nat \X NumCells -> Nat] /\ NumDecimal \in [Int \X NumCells -> Int]
  /\ \A x \in Nat : NumDigit[<<x, NumSpace>>] = x /\ NumDigit[<<x, NumPoint>>] = x
  /\ NumDigit[<<0, 0>>] = 0
  /\ \A c \in NumCells \ {NumPoint} : NumDecimal[<<-1, c>>] = -1
<1>1. ASSUME NEW r \in Nat \X NumCells PROVE (IF r[2] \in 0 .. 9 THEN 10 * r[1] + r[2] ELSE r[1]) \in Nat
  OBVIOUS
<1>2. ASSUME NEW r \in Int \X NumCells
      PROVE  (IF r[2] = NumPoint THEN 0 ELSE IF r[2] \in 0 .. 9 /\ r[1] >= 0 THEN r[1] + 1 ELSE r[1]) \in Int
  OBVIOUS
<1>3. ASSUME NEW x \in Nat, NEW c \in NumCells PROVE NumDigit[<<x, c>>] = IF c \in 0 .. 9 THEN 10 * x + c ELSE x
  <2>1. <<x, c>> \in Nat \X NumCells /\ <<x, c>>[1] = x /\ <<x, c>>[2] = c OBVIOUS
  <2> QED BY <2>1 DEF NumDigit
<1>4. ASSUME NEW x \in Int, NEW c \in NumCells
      PROVE  NumDecimal[<<x, c>>] = IF c = NumPoint THEN 0 ELSE IF c \in 0 .. 9 /\ x >= 0 THEN x + 1 ELSE x
  <2>1. <<x, c>> \in Int \X NumCells /\ <<x, c>>[1] = x /\ <<x, c>>[2] = c OBVIOUS
  <2> QED BY <2>1 DEF NumDecimal
<1>5. /\ NumSpace \in NumCells /\ NumPoint \in NumCells /\ 0 \in NumCells
      /\ NumSpace \notin 0 .. 9 /\ NumPoint \notin 0 .. 9
  BY DEF NumCells, NumChars, NumSpace, NumPoint
<1>6. NumDigit[<<0, 0>>] = 0
  <2>1. 0 \in Nat /\ 0 \in 0 .. 9 /\ 10 * 0 + 0 = 0 OBVIOUS
  <2> QED BY <1>3, <1>5, <2>1
<1>7. ASSUME NEW c \in NumCells, c # NumPoint PROVE NumDecimal[<<-1, c>>] = -1
  <2>1. -1 \in Int /\ ~(-1 >= 0) OBVIOUS
  <2> QED BY <1>4, <1>7, <2>1
<1>8. NumDigit \in [Nat \X NumCells -> Nat] /\ NumDecimal \in [Int \X NumCells -> Int]
  BY <1>1, <1>2 DEF NumDigit, NumDecimal
<1>9. \A x \in Nat : NumDigit[<<x, NumSpace>>] = x /\ NumDigit[<<x, NumPoint>>] = x BY <1>3, <1>5
<1> QED BY <1>6, <1>7, <1>8, <1>9

\* What is read of a field is what is read of the text it pads, or hides a
\* point in.
LEMMA NumMantissaPadded ==
  ASSUME NEW s \in Seq(NumCells), NEW t \in Seq(NumCells), NEW k, NumPads(NumDigit, 0, s, t, k)
  PROVE  NumMantissa(s) = NumMantissa(t)
<1>1. PICK a : NumReads(a, Nat, NumDigit, 0, s) /\ NumMantissa(s) = a[Len(s)] BY NumMantissaIs
<1>2. PICK b : NumReads(b, Nat, NumDigit, 0, t) /\ NumMantissa(t) = b[Len(t)] BY NumMantissaIs
<1>3. NumReader(Nat, NumDigit, 0) BY NumTurns DEF NumReader
<1>4. a[Len(s)] = b[Len(t)] BY <1>1, <1>2, <1>3, NumSkipped
<1> QED BY <1>1, <1>2, <1>4

LEMMA NumMantissaHidden ==
  ASSUME NEW s \in Seq(NumCells), NEW t \in Seq(NumCells), NEW q, NumHides(Nat, NumDigit, s, t, q)
  PROVE  NumMantissa(s) = NumMantissa(t)
<1>1. PICK a : NumReads(a, Nat, NumDigit, 0, s) /\ NumMantissa(s) = a[Len(s)] BY NumMantissaIs
<1>2. PICK b : NumReads(b, Nat, NumDigit, 0, t) /\ NumMantissa(t) = b[Len(t)] BY NumMantissaIs
<1>3. NumReader(Nat, NumDigit, 0) BY NumTurns DEF NumReader
<1>4. a[Len(s)] = b[Len(t)] BY <1>1, <1>2, <1>3, NumOverlooked
<1> QED BY <1>1, <1>2, <1>4

LEMMA NumDecimalsPadded ==
  ASSUME NEW s \in Seq(NumCells), NEW t \in Seq(NumCells), NEW k, NumPads(NumDecimal, -1, s, t, k)
  PROVE  NumDecimals(s) = NumDecimals(t)
<1>1. PICK a : NumReads(a, Int, NumDecimal, -1, s) /\ NumDecimals(s) = a[Len(s)] BY NumDecimalsIs
<1>2. PICK b : NumReads(b, Int, NumDecimal, -1, t) /\ NumDecimals(t) = b[Len(t)] BY NumDecimalsIs
<1>3. NumReader(Int, NumDecimal, -1) BY NumTurns DEF NumReader
<1>4. a[Len(s)] = b[Len(t)] BY <1>1, <1>2, <1>3, NumSkipped
<1> QED BY <1>1, <1>2, <1>4

\* Digits behind a point are counted.
LEMMA NumBehindPoint ==
  ASSUME NEW text \in Seq(NumCells), NEW q \in 1 .. Len(text), text[q] = NumPoint,
         \A i \in q + 1 .. Len(text) : text[i] \in 0 .. 9
  PROVE  NumDecimals(text) = Len(text) - q
<1>1. PICK m : NumReads(m, Int, NumDecimal, -1, text) /\ NumDecimals(text) = m[Len(text)] BY NumDecimalsIs
<1>2. /\ \A n \in 0 .. Len(text) : m[n] \in Int
      /\ \A n \in 1 .. Len(text) : m[n] = NumDecimal[<<m[n - 1], text[n]>>]
  BY <1>1 DEF NumReads
<1>3. Len(text) \in Nat /\ q \in Nat /\ 1 <= q /\ q <= Len(text) /\ \A n \in 1 .. Len(text) : text[n] \in NumCells
  OBVIOUS
<1>4. ASSUME NEW x \in Int, NEW c \in NumCells
      PROVE  NumDecimal[<<x, c>>] = IF c = NumPoint THEN 0 ELSE IF c \in 0 .. 9 /\ x >= 0 THEN x + 1 ELSE x
  <2>1. <<x, c>> \in Int \X NumCells /\ <<x, c>>[1] = x /\ <<x, c>>[2] = c OBVIOUS
  <2> QED BY <2>1 DEF NumDecimal
<1> DEFINE T == {j \in Nat : j <= Len(text) - q => m[q + j] = j}
<1>5. 0 \in T
  <2>1. q - 1 \in 0 .. Len(text) /\ q \in 1 .. Len(text) BY <1>3
  <2>2. m[q] = NumDecimal[<<m[q - 1], text[q]>>] /\ m[q - 1] \in Int /\ text[q] \in NumCells BY <1>2, <1>3, <2>1
  <2>3. m[q] = 0 BY <1>4, <2>2
  <2>4. q + 0 = q BY <1>3
  <2> QED BY <2>3, <2>4
<1>6. ASSUME NEW j \in Nat, j \in T PROVE j + 1 \in T
  <2> SUFFICES ASSUME j + 1 <= Len(text) - q PROVE m[q + (j + 1)] = j + 1 OBVIOUS
  <2> DEFINE n == q + (j + 1)
  <2>1. m[q + j] = j /\ n \in 1 .. Len(text) /\ n \in q + 1 .. Len(text) /\ n - 1 = q + j BY <1>3, <1>6
  <2> HIDE DEF n
  <2>2. m[n] = NumDecimal[<<m[n - 1], text[n]>>] BY <1>2, <2>1
  <2>3. text[n] \in 0 .. 9 /\ text[n] \in NumCells /\ text[n] # NumPoint BY <1>3, <2>1 DEF NumPoint
  <2>4. m[n - 1] = j BY <2>1
  <2>5. m[n] = j + 1 BY <1>4, <2>2, <2>3, <2>4
  <2> QED BY <2>5 DEF n
<1>7. Len(text) - q \in T
  <2>1. Len(text) - q \in Nat BY <1>3
  <2> HIDE DEF T
  <2> QED BY <1>5, <1>6, <2>1, InductIn
<1>8. q + (Len(text) - q) = Len(text) BY <1>3
<1> QED BY <1>1, <1>7, <1>8

-----------------------------------------------------------------------------
\* The characters typed stand at the right end of the field; none of them is
\* a point where there is a fixed one, and one at most where there is not.
NumPointIsOne(f, typed, has) ==
  /\ NumPointAt(f) > 0 => has /\ \A i \in 1 .. Len(typed) : typed[i] # NumPoint
  /\ NumPointAt(f) = 0 => /\ has <=> \E i \in 1 .. Len(typed) : typed[i] = NumPoint
                          /\ \A i, j \in 1 .. Len(typed) : typed[i] = NumPoint /\ typed[j] = NumPoint => i = j

NumInv ==
  /\ numFormat \in NumFormats
  /\ numTyped \in Seq(NumChars) /\ Len(numTyped) <= NumRoom(numFormat)
  /\ numValue = NumPlaced(numFormat, NumRow(numFormat, numTyped))
  /\ numLost \in {0, 1} /\ (numLost = 1 => NumPointAt(numFormat) > 0)
  /\ numCount = Len(numTyped) + numLost /\ numCount <= numFormat.total
  /\ numNegative \in BOOLEAN /\ (numNegative => numFormat.negative)
  /\ numHasPoint \in BOOLEAN /\ NumPointIsOne(numFormat, numTyped, numHasPoint)

\* A field that is empty.
LEMMA NumEmptyIs ==
  ASSUME NEW f \in NumFormats
  PROVE  /\ NumEmpty(f) = NumPlaced(f, NumRow(f, <<>>))
         /\ <<>> \in Seq(NumChars) /\ Len(<<>>) <= NumRoom(f) /\ NumPointIsOne(f, <<>>, NumPointAt(f) > 0)
<1> DEFINE p == NumPointAt(f)
           r == NumRoom(f)
           n == f.total
           row == NumRow(f, <<>>)
           e == NumEmpty(f)
           v == NumPlaced(f, row)
<1>1. /\ n \in Nat /\ 1 <= n /\ p \in Nat /\ p < n /\ r \in Nat \ {0} /\ r = (IF p = 0 THEN n ELSE n - 1)
      /\ NumPad(f) \in NumCells
  BY NumFormatIs
<1>2. <<>> \in Seq(NumChars) /\ Len(<<>>) = 0 OBVIOUS
<1>3. row \in Seq(NumCells) /\ Len(row) = r
  <2>1. Len(<<>>) <= NumRoom(f) BY <1>1, <1>2
  <2> QED BY <1>2, <2>1, NumRowIs
<1>4. \A i \in 1 .. r : row[i] = NumPad(f)
  <2>1. r - Len(<<>>) = r BY <1>1, <1>2
  <2> QED BY <1>1, <2>1 DEF NumRow
<1>5. /\ v \in Seq(NumCells) /\ Len(v) = n
      /\ \A i \in 1 .. n : v[i] = IF p = 0 \/ i < p THEN row[i] ELSE IF i = p THEN NumPoint ELSE row[i - 1]
  <2> HIDE DEF row
  <2> QED BY <1>3, NumPlacedIs
<1>6. e = [i \in 1 .. n |-> IF i = p THEN NumPoint ELSE NumPad(f)] BY DEF NumEmpty
<1>7. NumPoint \in NumCells BY DEF NumCells, NumChars
<1> HIDE DEF p, r, n, row, e, v
<1>8. e \in Seq(NumCells) /\ Len(e) = n BY <1>1, <1>6, <1>7
<1>9. ASSUME NEW i \in 1 .. n PROVE e[i] = v[i]
  <2>1. e[i] = IF i = p THEN NumPoint ELSE NumPad(f) BY <1>6
  <2>2. v[i] = IF p = 0 \/ i < p THEN row[i] ELSE IF i = p THEN NumPoint ELSE row[i - 1] BY <1>5
  <2>3. CASE p = 0 \/ i < p
    <3>1. i # p /\ i \in 1 .. r BY <1>1, <2>3
    <3> QED BY <1>4, <2>1, <2>2, <2>3, <3>1
  <2>4. CASE i = p BY <1>1, <2>1, <2>2, <2>4
  <2>5. CASE p # 0 /\ i > p
    <3>1. i # p /\ ~(i < p) /\ i - 1 \in 1 .. r BY <1>1, <2>5
    <3> QED BY <1>4, <2>1, <2>2, <2>5, <3>1
  <2> QED BY <1>1, <2>3, <2>4, <2>5
<1>10. e = v BY ONLY <1>5, <1>8, <1>9, SeqEqual
<1>11. NumPointIsOne(f, <<>>, NumPointAt(f) > 0)
  <2>1. 1 .. Len(<<>>) = {} BY <1>2
  <2> QED BY <1>1, <2>1 DEF NumPointIsOne, p
<1> QED BY <1>1, <1>2, <1>10, <1>11 DEF e, v, row, r

\* Every call keeps what was typed at the right end of the field.
LEMMA NumInvStep == ASSUME NumInv, [NumNext]_numVars PROVE NumInv'
<1> DEFINE f == numFormat
           r == NumRoom(f)
           p == NumPointAt(f)
<1>1. /\ f \in NumFormats /\ numTyped \in Seq(NumChars) /\ Len(numTyped) <= r
      /\ numValue = NumPlaced(f, NumRow(f, numTyped))
      /\ numLost \in {0, 1} /\ (numLost = 1 => p > 0)
      /\ numCount = Len(numTyped) + numLost /\ numCount <= f.total
      /\ numNegative \in BOOLEAN /\ (numNegative => f.negative)
      /\ numHasPoint \in BOOLEAN /\ NumPointIsOne(f, numTyped, numHasPoint)
  BY DEF NumInv
<1>2. /\ f.total \in Nat /\ 1 <= f.total /\ p \in Nat /\ p < f.total /\ r \in Nat \ {0}
      /\ r = (IF p = 0 THEN f.total ELSE f.total - 1) /\ f.precision \in Nat
  BY <1>1, NumFormatIs
<1>3. Len(numTyped) \in Nat BY <1>1
<1>4. CASE NumMinus BY <1>1, <1>4 DEF NumMinus, NumInv
<1>5. CASE NumSetNegative BY <1>1, <1>5 DEF NumSetNegative, NumInv
<1>6. CASE NumAddPoint
  <2> DEFINE more == Append(numTyped, NumPoint)
  <2>1. /\ f.precision = 0 /\ numHasPoint = FALSE /\ numCount < f.total
        /\ numValue' = NumShiftIn(f, numValue, NumPoint)
        /\ numCount' = numCount + 1 /\ numHasPoint' = TRUE /\ numTyped' = more
        /\ numFormat' = f /\ numNegative' = numNegative /\ numLost' = numLost
    BY <1>1, <1>6 DEF NumAddPoint
  <2>2. p = 0 BY <1>2, <2>1 DEF NumPointAt
  <2>3. numLost = 0 /\ Len(numTyped) < r BY <1>1, <1>2, <1>3, <2>1, <2>2
  <2>4. NumPoint \in NumChars BY DEF NumChars
  <2>5. /\ NumShiftIn(f, numValue, NumPoint) = NumPlaced(f, NumRow(f, more))
        /\ more \in Seq(NumChars) /\ Len(more) = Len(numTyped) + 1
    <3>1. more = IF Len(numTyped) < NumRoom(f) THEN Append(numTyped, NumPoint) ELSE Tail(Append(numTyped, NumPoint))
      BY <2>3
    <3> HIDE DEF more
    <3> QED BY <1>1, <2>3, <2>4, <3>1, NumShiftedIn
  <2>6. more[Len(numTyped) + 1] = NumPoint /\ \A i \in 1 .. Len(numTyped) : more[i] = numTyped[i] BY <1>1, <2>4
  <2>7. \A i \in 1 .. Len(numTyped) : numTyped[i] # NumPoint BY <1>1, <2>1, <2>2 DEF NumPointIsOne
  <2> HIDE DEF more, p, r, f
  <2>8. \A i \in 1 .. Len(more) : more[i] = NumPoint => i = Len(numTyped) + 1
    <3>1. ASSUME NEW i \in 1 .. Len(more), i # Len(numTyped) + 1 PROVE more[i] # NumPoint
      <4>1. i \in 1 .. Len(numTyped) BY <1>3, <2>5, <3>1
      <4> QED BY <2>6, <2>7, <4>1
    <3> QED BY <3>1
  <2>9. \E i \in 1 .. Len(more) : more[i] = NumPoint
    <3>1. Len(numTyped) + 1 \in 1 .. Len(more) BY <1>3, <2>5
    <3> QED BY <2>6, <3>1
  <2>10. NumPointIsOne(f, more, TRUE)
    <3>1. \A i, j \in 1 .. Len(more) : more[i] = NumPoint /\ more[j] = NumPoint => i = j BY <2>8
    <3> QED BY <2>2, <2>9, <3>1 DEF NumPointIsOne, p
  <2>11. Len(more) <= r /\ numCount' = Len(more) + numLost /\ numCount' <= f.total
    BY <1>1, <1>2, <1>3, <2>1, <2>3, <2>5
  <2> QED BY <1>1, <2>1, <2>3, <2>5, <2>10, <2>11 DEF NumInv, f, r
<1>7. CASE \E c \in NumDigits : NumAddDigit(c)
  <2>1. PICK c \in NumDigits : NumAddDigit(c) BY <1>7
  <2> DEFINE s == Append(numTyped, c)
             more == IF Len(numTyped) < r THEN s ELSE Tail(s)
  <2>2. c \in NumChars /\ c # NumPoint
    <3>1. c \in 0 .. 9 BY NumAssumption DEF NumAssumption
    <3> QED BY <3>1 DEF NumChars, NumPoint
  <2>3. /\ NumShiftIn(f, numValue, c) = NumPlaced(f, NumRow(f, more))
        /\ more \in Seq(NumChars) /\ Len(more) = IF Len(numTyped) < r THEN Len(numTyped) + 1 ELSE Len(numTyped)
    <3>1. more = IF Len(numTyped) < NumRoom(f) THEN Append(numTyped, c) ELSE Tail(Append(numTyped, c)) OBVIOUS
    <3> HIDE DEF more
    <3> QED BY <1>1, <2>2, <3>1, NumShiftedIn
  <2>4. Len(NumMoving(f, numValue)) = r
    <3>1. NumRow(f, numTyped) \in Seq(NumCells) /\ Len(NumRow(f, numTyped)) = r BY <1>1, NumRowIs
    <3>2. NumMoving(f, numValue) = NumRow(f, numTyped) BY <1>1, <3>1, NumPlacedIs
    <3> QED BY <3>1, <3>2
  <2>5. Len(s) = Len(numTyped) + 1 /\ s \in Seq(NumChars) /\ s[Len(numTyped) + 1] = c
        /\ \A i \in 1 .. Len(numTyped) : s[i] = numTyped[i]
    BY <1>1, <2>2
  <2>6. /\ numCount < f.total /\ numValue' = NumShiftIn(f, numValue, c)
        /\ numCount' = numCount + 1
        /\ numTyped' = (IF Len(s) > r THEN Tail(s) ELSE s)
        /\ numLost' = (IF Len(s) > r THEN 1 ELSE numLost)
        /\ numFormat' = f /\ numNegative' = numNegative /\ numHasPoint' = numHasPoint
    BY <2>1, <2>4 DEF NumAddDigit
  <2> HIDE DEF s
  <2>7. Len(s) > r <=> ~(Len(numTyped) < r) BY <1>2, <1>3, <2>5
  <2>8. numTyped' = more BY <2>6, <2>7
  <2>9. ~(Len(numTyped) < r) => \A i \in 1 .. Len(numTyped) : more[i] = s[i + 1]
    <3>1. s # <<>> BY <1>3, <2>5
    <3>2. Len(Tail(s)) = Len(numTyped) /\ \A i \in 1 .. Len(Tail(s)) : Tail(s)[i] = s[i + 1]
      <4>1. Len(Tail(s)) = Len(s) - 1 /\ \A i \in 1 .. Len(Tail(s)) : Tail(s)[i] = s[i + 1]
        BY ONLY <2>5, <3>1, HeadTailProperties
      <4> QED BY <1>3, <2>5, <4>1
    <3> QED BY <3>2
  <2>10. Len(numTyped) < r => more = s OBVIOUS
  <2> HIDE DEF more, f, r, p
  <2>11. CASE Len(numTyped) < r
    <3>1. numLost' = numLost /\ Len(more) = Len(numTyped) + 1 /\ more = s BY <2>3, <2>6, <2>7, <2>10, <2>11
    <3>2. \A i \in 1 .. Len(more) : more[i] = NumPoint => i \in 1 .. Len(numTyped) /\ numTyped[i] = NumPoint
      <4>1. ASSUME NEW i \in 1 .. Len(more), more[i] = NumPoint PROVE i \in 1 .. Len(numTyped) /\ numTyped[i] = NumPoint
        <5>1. i # Len(numTyped) + 1 BY <2>2, <2>5, <3>1, <4>1
        <5>2. i \in 1 .. Len(numTyped) BY <1>3, <3>1, <5>1
        <5> QED BY <2>5, <3>1, <4>1, <5>2
      <4> QED BY <4>1
    <3>3. \A i \in 1 .. Len(numTyped) : i \in 1 .. Len(more) /\ more[i] = numTyped[i] BY <1>3, <2>5, <3>1
    <3>4. NumPointIsOne(f, more, numHasPoint)
      <4>1. (\E i \in 1 .. Len(more) : more[i] = NumPoint) <=> \E i \in 1 .. Len(numTyped) : numTyped[i] = NumPoint
        BY <3>2, <3>3
      <4>2. p = 0 => \A i, j \in 1 .. Len(more) : more[i] = NumPoint /\ more[j] = NumPoint => i = j
        BY <1>1, <3>2 DEF NumPointIsOne, p
      <4>3. p > 0 => numHasPoint /\ \A i \in 1 .. Len(more) : more[i] # NumPoint
        BY <1>1, <3>2 DEF NumPointIsOne, p
      <4>4. p = 0 => (numHasPoint <=> \E i \in 1 .. Len(numTyped) : numTyped[i] = NumPoint)
        BY <1>1 DEF NumPointIsOne, p
      <4> QED BY <4>1, <4>2, <4>3, <4>4 DEF NumPointIsOne, p
    <3>5. Len(more) <= r /\ numCount' = Len(more) + numLost /\ numCount' <= f.total
      BY <1>1, <1>2, <1>3, <2>6, <2>11, <3>1
    <3> QED BY <1>1, <2>3, <2>6, <2>8, <3>1, <3>4, <3>5 DEF NumInv, f, r, p
  <2>12. CASE ~(Len(numTyped) < r)
    <3>1. numLost' = 1 /\ Len(more) = Len(numTyped) /\ Len(numTyped) = r BY <1>1, <1>2, <1>3, <2>3, <2>6, <2>7, <2>12
    <3>2. numLost = 0 /\ p > 0 BY <1>1, <1>2, <1>3, <2>6, <3>1
    <3>3. NumPointIsOne(f, more, numHasPoint)
      <4>1. numHasPoint /\ \A i \in 1 .. Len(numTyped) : numTyped[i] # NumPoint BY <1>1, <3>2 DEF NumPointIsOne, p
      <4>2. ASSUME NEW i \in 1 .. Len(more) PROVE more[i] # NumPoint
        <5>1. i \in 1 .. Len(numTyped) /\ more[i] = s[i + 1] BY <2>9, <2>12, <3>1
        <5>2. CASE i = Len(numTyped) BY <2>2, <2>5, <5>1, <5>2
        <5>3. CASE i # Len(numTyped)
          <6>1. i + 1 \in 1 .. Len(numTyped) BY <1>3, <5>1, <5>3
          <6> QED BY <2>5, <4>1, <5>1, <6>1
        <5> QED BY <5>2, <5>3
      <4> QED BY <3>2, <4>1, <4>2 DEF NumPointIsOne, p
    <3>4. Len(more) <= r /\ numCount' = Len(more) + 1 /\ numCount' <= f.total
      BY <1>1, <1>2, <1>3, <2>6, <3>1, <3>2
    <3> QED BY <1>1, <2>3, <2>6, <2>8, <3>1, <3>2, <3>3, <3>4 DEF NumInv, f, r, p
  <2> QED BY <2>11, <2>12
<1>8. CASE NumRemove
  <2> DEFINE less == IF numTyped = <<>> THEN numTyped ELSE Places!Front(numTyped)
  <2>1. /\ numCount > 0 /\ numValue' = NumShiftOut(f, numValue)
        /\ numCount' = numCount - 1
        /\ numHasPoint' = (numHasPoint /\ ~(p = 0 /\ Places!Last(numValue) = NumPoint))
        /\ numTyped' = less /\ numLost' = (IF numTyped = <<>> THEN 0 ELSE numLost)
        /\ numFormat' = f /\ numNegative' = numNegative
    BY <1>8 DEF NumRemove
  <2>2. /\ NumShiftOut(f, numValue) = NumPlaced(f, NumRow(f, less))
        /\ less \in Seq(NumChars) /\ Len(less) = (IF numTyped = <<>> THEN 0 ELSE Len(numTyped) - 1)
        /\ \A i \in 1 .. Len(less) : less[i] = numTyped[i]
    <3>1. less = IF numTyped = <<>> THEN numTyped ELSE Places!Front(numTyped) OBVIOUS
    <3> HIDE DEF less
    <3> QED BY <1>1, <3>1, NumShiftedOut
  <2>3. numTyped = <<>> <=> Len(numTyped) = 0 BY <1>1
  <2>4. p = 0 /\ numTyped # <<>> => Places!Last(numValue) = numTyped[Len(numTyped)]
    <3> SUFFICES ASSUME p = 0, numTyped # <<>> PROVE Places!Last(numValue) = numTyped[Len(numTyped)] OBVIOUS
    <3> DEFINE row == NumRow(f, numTyped)
    <3>1. row \in Seq(NumCells) /\ Len(row) = r BY <1>1, NumRowIs
    <3>2. numValue = row BY <1>1 DEF NumPlaced
    <3>3. row[r] = IF r <= r - Len(numTyped) THEN NumPad(f) ELSE numTyped[r - (r - Len(numTyped))]
      <4>1. r \in 1 .. NumRoom(f) BY <1>2
      <4> QED BY <4>1 DEF NumRow
    <3>4. ~(r <= r - Len(numTyped)) /\ r - (r - Len(numTyped)) = Len(numTyped) BY <1>2, <1>3, <2>3
    <3> QED BY <3>1, <3>2, <3>3, <3>4 DEF Places!Last
  <2> HIDE DEF less, f, r, p
  <2>5. CASE numTyped = <<>>
    <3>1. Len(numTyped) = 0 /\ Len(less) = 0 BY <2>2, <2>3, <2>5
    <3>2. numLost = 1 /\ p > 0 /\ numCount = 1 BY <1>1, <2>1, <3>1
    <3>3. numHasPoint' = numHasPoint /\ numHasPoint BY <1>1, <1>2, <2>1, <3>2 DEF NumPointIsOne, p
    <3>4. NumPointIsOne(f, less, numHasPoint')
      <4>1. 1 .. Len(less) = {} BY <3>1
      <4> QED BY <3>2, <3>3, <4>1 DEF NumPointIsOne, p
    <3>5. numLost' = 0 /\ numCount' = Len(less) + numLost' /\ numCount' <= f.total /\ Len(less) <= r
      BY <1>2, <2>1, <2>5, <3>1, <3>2
    <3>6. numHasPoint' \in BOOLEAN BY <1>1, <3>3
    <3> QED BY <1>1, <2>1, <2>2, <3>4, <3>5, <3>6 DEF NumInv, f, r, p
  <2>6. CASE numTyped # <<>>
    <3>1. Len(less) = Len(numTyped) - 1 /\ numLost' = numLost /\ Len(numTyped) >= 1 BY <1>3, <2>1, <2>2, <2>3, <2>6
    <3>2. \A i \in 1 .. Len(less) : i \in 1 .. Len(numTyped) /\ i # Len(numTyped) /\ less[i] = numTyped[i]
      BY <1>3, <2>2, <3>1
    <3>3. \A i \in 1 .. Len(numTyped) : i # Len(numTyped) => i \in 1 .. Len(less) BY <1>3, <3>1
    <3>4. Len(numTyped) \in 1 .. Len(numTyped) BY <1>3, <3>1
    <3>5. NumPointIsOne(f, less, numHasPoint')
      <4>1. CASE p > 0
        <5>1. numHasPoint' = numHasPoint BY <1>1, <2>1, <4>1
        <5>2. numHasPoint /\ \A i \in 1 .. Len(numTyped) : numTyped[i] # NumPoint
          BY <1>1, <4>1 DEF NumPointIsOne, p
        <5>3. \A i \in 1 .. Len(less) : less[i] # NumPoint BY <3>2, <5>2
        <5> QED BY <4>1, <5>1, <5>2, <5>3 DEF NumPointIsOne, p
      <4>2. CASE p = 0
        <5>1. /\ numHasPoint <=> \E i \in 1 .. Len(numTyped) : numTyped[i] = NumPoint
              /\ \A i, j \in 1 .. Len(numTyped) : numTyped[i] = NumPoint /\ numTyped[j] = NumPoint => i = j
          BY <1>1, <4>2 DEF NumPointIsOne, p
        <5>2. numHasPoint' <=> numHasPoint /\ numTyped[Len(numTyped)] # NumPoint BY <2>1, <2>4, <2>6, <4>2
        <5>3. numHasPoint' <=> \E i \in 1 .. Len(less) : less[i] = NumPoint
          <6>1. ASSUME numHasPoint' PROVE \E i \in 1 .. Len(less) : less[i] = NumPoint
            <7>1. PICK i \in 1 .. Len(numTyped) : numTyped[i] = NumPoint BY <5>1, <5>2, <6>1
            <7>2. i # Len(numTyped) BY <5>2, <6>1, <7>1
            <7> QED BY <3>2, <3>3, <7>1, <7>2
          <6>2. ASSUME NEW i \in 1 .. Len(less), less[i] = NumPoint PROVE numHasPoint'
            <7>1. i \in 1 .. Len(numTyped) /\ i # Len(numTyped) /\ numTyped[i] = NumPoint BY <3>2, <6>2
            <7>2. numTyped[Len(numTyped)] # NumPoint BY <3>4, <5>1, <7>1
            <7> QED BY <5>1, <5>2, <7>1, <7>2
          <6> QED BY <6>1, <6>2
        <5>4. \A i, j \in 1 .. Len(less) : less[i] = NumPoint /\ less[j] = NumPoint => i = j BY <3>2, <5>1
        <5> QED BY <4>2, <5>3, <5>4 DEF NumPointIsOne, p
      <4> QED BY <1>2, <4>1, <4>2
    <3>6. Len(less) <= r /\ numCount' = Len(less) + numLost /\ numCount' <= f.total
      BY <1>1, <1>2, <1>3, <2>1, <3>1
    <3>7. numHasPoint' \in BOOLEAN BY <1>1, <2>1
    <3> QED BY <1>1, <2>1, <2>2, <3>1, <3>5, <3>6, <3>7 DEF NumInv, f, r, p
  <2> QED BY <2>5, <2>6
<1>9. CASE NumClean
  <2>1. /\ numFormat' = f /\ numValue' = NumEmpty(f) /\ numCount' = 0 /\ numNegative' = FALSE
        /\ numHasPoint' = (NumPointAt(f) > 0) /\ numTyped' = <<>> /\ numLost' = 0
    BY <1>9 DEF NumClean, NumReset
  <2>2. /\ NumEmpty(f) = NumPlaced(f, NumRow(f, <<>>)) /\ <<>> \in Seq(NumChars)
        /\ Len(<<>>) <= NumRoom(f) /\ NumPointIsOne(f, <<>>, NumPointAt(f) > 0)
    BY <1>1, NumEmptyIs
  <2>3. 0 = Len(<<>>) + 0 /\ 0 <= f.total /\ (NumPointAt(f) > 0) \in BOOLEAN BY <1>2
  <2> DEFINE e == <<>>
             has == NumPointAt(f) > 0
  <2>4. /\ numTyped' = e /\ e \in Seq(NumChars) /\ Len(e) <= NumRoom(f) /\ numHasPoint' = has /\ has \in BOOLEAN
        /\ numValue' = NumPlaced(f, NumRow(f, e)) /\ NumPointIsOne(f, e, has) /\ 0 = Len(e) + 0
    BY <2>1, <2>2, <2>3
  <2> HIDE DEF e, has, f
  <2> QED BY <1>1, <2>1, <2>3, <2>4 DEF NumInv, f
<1>10. CASE UNCHANGED numVars BY <1>1, <1>10 DEF numVars, numField, NumInv
<1> QED BY <1>4, <1>5, <1>6, <1>7, <1>8, <1>9, <1>10 DEF NumNext

-----------------------------------------------------------------------------
(* What the field shows.                                                   *)

\* The places that move are padding, and behind it the characters typed.
LEMMA NumRowSplit ==
  ASSUME NEW f \in NumFormats, NEW typed \in Seq(NumChars), Len(typed) <= NumRoom(f)
  PROVE  NumRow(f, typed) = [i \in 1 .. NumRoom(f) - Len(typed) |-> NumPad(f)] \o typed
<1> DEFINE r == NumRoom(f)
           k == r - Len(typed)
           pads == [i \in 1 .. k |-> NumPad(f)]
           row == NumRow(f, typed)
<1>1. row \in Seq(NumCells) /\ Len(row) = r /\ r \in Nat /\ NumPad(f) \in NumCells BY NumRowIs, NumFormatIs
<1>2. Len(typed) \in Nat /\ k \in Nat /\ k + Len(typed) = r BY <1>1
<1>3. \A i \in 1 .. r : row[i] = IF i <= k THEN NumPad(f) ELSE typed[i - k] BY DEF NumRow
<1>4. typed \in Seq(NumCells)
  <2>1. NumChars \subseteq NumCells BY DEF NumCells
  <2> QED BY <2>1
<1> HIDE DEF r, k, row
<1>5. pads \in Seq(NumCells) /\ Len(pads) = k /\ \A i \in 1 .. k : pads[i] = NumPad(f) BY <1>1, <1>2
<1> HIDE DEF pads
<1>6. pads \o typed \in Seq(NumCells) /\ Len(pads \o typed) = r BY <1>2, <1>4, <1>5, ConcatProperties
<1>7. ASSUME NEW i \in 1 .. r PROVE row[i] = (pads \o typed)[i]
  <2>1. (pads \o typed)[i] = IF i <= Len(pads) THEN pads[i] ELSE typed[i - Len(pads)]
    <3>1. i \in 1 .. Len(pads) + Len(typed) BY <1>2, <1>5
    <3> QED BY ONLY <1>4, <1>5, <3>1, ConcatProperties
  <2>2. row[i] = IF i <= k THEN NumPad(f) ELSE typed[i - k] BY <1>3
  <2>3. CASE i <= k
    <3>1. i \in 1 .. k BY <1>1, <1>2, <2>3
    <3> QED BY <1>5, <2>1, <2>2, <2>3, <3>1
  <2>4. CASE ~(i <= k) BY <1>5, <2>1, <2>2, <2>4
  <2> QED BY <2>3, <2>4
<1>8. row = pads \o typed BY <1>1, <1>6, <1>7, SeqEqual
<1> QED BY <1>8 DEF row, pads, k, r

\* The field, place by place.
LEMMA NumValueIs ==
  ASSUME NEW f \in NumFormats, NEW typed \in Seq(NumChars), Len(typed) <= NumRoom(f),
         NEW v, v = NumPlaced(f, NumRow(f, typed)), NEW p, p = NumPointAt(f),
         NEW k, k = NumRoom(f) - Len(typed)
  PROVE  /\ v \in Seq(NumCells) /\ Len(v) = f.total /\ NumMoving(f, v) = NumRow(f, typed)
         /\ k \in Nat /\ k + Len(typed) = NumRoom(f)
         /\ NumRow(f, typed) \in Seq(NumCells) /\ Len(NumRow(f, typed)) = NumRoom(f)
         /\ \A i \in 1 .. NumRoom(f) : NumRow(f, typed)[i] = IF i <= k THEN NumPad(f) ELSE typed[i - k]
         /\ p = 0 => v = NumRow(f, typed)
         /\ \A i \in 1 .. f.total :
              v[i] = IF p = 0 \/ i < p THEN NumRow(f, typed)[i]
                     ELSE IF i = p THEN NumPoint ELSE NumRow(f, typed)[i - 1]
<1>1. NumRow(f, typed) \in Seq(NumCells) /\ Len(NumRow(f, typed)) = NumRoom(f) BY NumRowIs
<1>2. /\ v \in Seq(NumCells) /\ Len(v) = f.total /\ NumMoving(f, v) = NumRow(f, typed)
      /\ \A i \in 1 .. f.total :
           v[i] = IF p = 0 \/ i < p THEN NumRow(f, typed)[i]
                  ELSE IF i = p THEN NumPoint ELSE NumRow(f, typed)[i - 1]
  <2> DEFINE w == NumRow(f, typed)
  <2> HIDE DEF w
  <2>1. w \in Seq(NumCells) /\ Len(w) = NumRoom(f) /\ v = NumPlaced(f, w) BY <1>1 DEF w
  <2>2. /\ v \in Seq(NumCells) /\ Len(v) = f.total /\ NumMoving(f, v) = w
        /\ \A i \in 1 .. f.total :
             v[i] = IF p = 0 \/ i < p THEN w[i] ELSE IF i = p THEN NumPoint ELSE w[i - 1]
    BY <2>1, NumPlacedIs
  <2> QED BY <2>2 DEF w
<1>3. k \in Nat /\ k + Len(typed) = NumRoom(f) BY NumFormatIs
<1>4. \A i \in 1 .. NumRoom(f) : NumRow(f, typed)[i] = IF i <= k THEN NumPad(f) ELSE typed[i - k] BY DEF NumRow
<1>5. p = 0 => v = NumRow(f, typed) BY DEF NumPlaced
<1> QED BY <1>1, <1>2, <1>3, <1>4, <1>5

\* The points in the field: the fixed one, or the one typed.
LEMMA NumPoints ==
  ASSUME NEW f \in NumFormats, NEW typed \in Seq(NumChars), Len(typed) <= NumRoom(f),
         NEW v, v = NumPlaced(f, NumRow(f, typed)), NEW has \in BOOLEAN, NumPointIsOne(f, typed, has)
  PROVE  /\ has <=> \E i \in 1 .. f.total : v[i] = NumPoint
         /\ \A i, j \in 1 .. f.total : v[i] = NumPoint /\ v[j] = NumPoint => i = j
         /\ NumPointAt(f) > 0 => v[NumPointAt(f)] = NumPoint
<1> DEFINE p == NumPointAt(f)
           r == NumRoom(f)
           k == r - Len(typed)
           row == NumRow(f, typed)
<1>1. /\ f.total \in Nat /\ p \in Nat /\ p < f.total /\ r = (IF p = 0 THEN f.total ELSE f.total - 1)
      /\ NumPad(f) # NumPoint
  BY NumFormatIs
<1>2. /\ k \in Nat /\ k + Len(typed) = r /\ Len(typed) \in Nat
      /\ \A i \in 1 .. r : row[i] = IF i <= k THEN NumPad(f) ELSE typed[i - k]
      /\ p = 0 => v = row
      /\ \A i \in 1 .. f.total : v[i] = IF p = 0 \/ i < p THEN row[i] ELSE IF i = p THEN NumPoint ELSE row[i - 1]
  BY NumValueIs
<1>3. /\ p > 0 => has /\ \A i \in 1 .. Len(typed) : typed[i] # NumPoint
      /\ p = 0 => /\ has <=> \E i \in 1 .. Len(typed) : typed[i] = NumPoint
                  /\ \A i, j \in 1 .. Len(typed) : typed[i] = NumPoint /\ typed[j] = NumPoint => i = j
  BY DEF NumPointIsOne
<1> HIDE DEF p, r, k, row
<1>4. ASSUME NEW i \in 1 .. r, row[i] = NumPoint PROVE i - k \in 1 .. Len(typed) /\ typed[i - k] = NumPoint
  <2>1. ~(i <= k) BY <1>1, <1>2, <1>4
  <2>2. i - k \in 1 .. Len(typed) BY <1>1, <1>2, <2>1
  <2> QED BY <1>2, <1>4, <2>1, <2>2
<1>5. CASE p > 0
  <2>1. v[p] = NumPoint /\ p \in 1 .. f.total BY <1>1, <1>2, <1>5
  <2>2. ASSUME NEW i \in 1 .. f.total, i # p PROVE v[i] # NumPoint
    <3>1. \A j \in 1 .. r : row[j] # NumPoint BY <1>3, <1>4, <1>5
    <3>2. CASE i < p
      <4>1. i \in 1 .. r BY <1>1, <3>2
      <4> QED BY <1>2, <3>1, <3>2, <4>1
    <3>3. CASE i > p
      <4>1. i - 1 \in 1 .. r /\ p # 0 /\ ~(i < p)
        <5>1. i \in Nat /\ i <= f.total /\ p \in Nat /\ f.total \in Nat /\ r = f.total - 1 BY <1>1, <1>5
        <5> QED BY ONLY <5>1, <1>5, <3>3
      <4>2. v[i] = row[i - 1]
        <5>1. v[i] = IF p = 0 \/ i < p THEN row[i] ELSE IF i = p THEN NumPoint ELSE row[i - 1] BY <1>2
        <5> QED BY <2>2, <4>1, <5>1
      <4> QED BY <3>1, <4>1, <4>2
    <3> QED BY <1>1, <2>2, <3>2, <3>3
  <2> QED BY <1>3, <1>5, <2>1, <2>2 DEF p
<1>6. CASE p = 0
  <2>1. v = row /\ r = f.total BY <1>1, <1>2, <1>6
  <2>2. ASSUME NEW i \in 1 .. f.total, v[i] = NumPoint PROVE has
    <3>1. i - k \in 1 .. Len(typed) /\ typed[i - k] = NumPoint BY <1>4, <2>1, <2>2
    <3> QED BY <1>3, <1>6, <3>1
  <2>3. ASSUME has PROVE \E i \in 1 .. f.total : v[i] = NumPoint
    <3>1. PICK j \in 1 .. Len(typed) : typed[j] = NumPoint BY <1>3, <1>6, <2>3
    <3>2. k + j \in 1 .. r /\ ~(k + j <= k) /\ k + j - k = j BY <1>1, <1>2
    <3>3. row[k + j] = typed[k + j - k] BY <1>2, <3>2
    <3>4. v[k + j] = NumPoint BY <2>1, <3>1, <3>2, <3>3
    <3> QED BY <2>1, <3>2, <3>4
  <2>4. ASSUME NEW i \in 1 .. f.total, NEW j \in 1 .. f.total, v[i] = NumPoint, v[j] = NumPoint PROVE i = j
    <3>1. /\ i - k \in 1 .. Len(typed) /\ typed[i - k] = NumPoint
          /\ j - k \in 1 .. Len(typed) /\ typed[j - k] = NumPoint
      BY <1>4, <2>1, <2>4
    <3>2. i - k = j - k BY <1>3, <1>6, <3>1
    <3> QED BY <1>2, <3>2
  <2>5. ~(p > 0) BY <1>6
  <2> QED BY <2>2, <2>3, <2>4, <2>5 DEF p
<1> QED BY <1>1, <1>5, <1>6

\* The value read: the number typed, whatever pads it and wherever its point is.
LEMMA NumValueReads ==
  ASSUME NEW f \in NumFormats, NEW typed \in Seq(NumChars), Len(typed) <= NumRoom(f),
         NEW v, v = NumPlaced(f, NumRow(f, typed))
  PROVE  NumMantissa(v) = NumMantissa(typed)
<1> DEFINE p == NumPointAt(f)
           r == NumRoom(f)
           k == r - Len(typed)
           row == NumRow(f, typed)
<1>1. /\ f.total \in Nat /\ p \in Nat /\ p < f.total /\ r = (IF p = 0 THEN f.total ELSE f.total - 1)
      /\ NumPad(f) \in {0, NumSpace}
  BY NumFormatIs DEF NumPad
<1>2. /\ k \in Nat /\ k + Len(typed) = r /\ Len(typed) \in Nat
      /\ v \in Seq(NumCells) /\ Len(v) = f.total /\ row \in Seq(NumCells) /\ Len(row) = r
      /\ \A i \in 1 .. r : row[i] = IF i <= k THEN NumPad(f) ELSE typed[i - k]
      /\ p = 0 => v = row
      /\ \A i \in 1 .. f.total : v[i] = IF p = 0 \/ i < p THEN row[i] ELSE IF i = p THEN NumPoint ELSE row[i - 1]
  BY NumValueIs
<1>3. typed \in Seq(NumCells)
  <2>1. NumChars \subseteq NumCells BY DEF NumCells
  <2> QED BY <2>1
<1> HIDE DEF p, r, k, row
<1>4. NumMantissa(row) = NumMantissa(typed)
  <2>1. ASSUME NEW i \in 1 .. k PROVE NumDigit[<<0, row[i]>>] = 0
    <3>1. i \in 1 .. r /\ i <= k BY <1>1, <1>2
    <3>2. row[i] = NumPad(f) BY <1>2, <3>1
    <3> QED BY <1>1, <3>2, NumTurns
  <2>2. ASSUME NEW j \in 1 .. Len(typed) PROVE row[k + j] = typed[j]
    <3>1. k + j \in 1 .. r /\ ~(k + j <= k) /\ k + j - k = j BY <1>1, <1>2
    <3>2. row[k + j] = typed[k + j - k] BY <1>2, <3>1
    <3> QED BY <3>1, <3>2
  <2>3. Len(row) = k + Len(typed) BY <1>2
  <2>4. NumPads(NumDigit, 0, row, typed, k) BY <1>2, <2>1, <2>2, <2>3 DEF NumPads
  <2> QED BY <1>2, <1>3, <2>4, NumMantissaPadded
<1>5. NumMantissa(v) = NumMantissa(row)
  <2>1. CASE p = 0 BY <1>2, <2>1
  <2>2. CASE p > 0
    <3>1. p \in 1 .. Len(v) /\ Len(v) = Len(row) + 1 BY <1>1, <1>2, <2>2
    <3>2. \A x \in Nat : NumDigit[<<x, v[p]>>] = x
      <4>1. v[p] = NumPoint BY <1>1, <1>2, <2>2
      <4> QED BY <4>1, NumTurns
    <3>3. ASSUME NEW i \in 1 .. Len(row) PROVE row[i] = IF i < p THEN v[i] ELSE v[i + 1]
      <4>1. CASE i < p
        <5>1. i \in 1 .. f.total BY <1>2, <3>1
        <5> QED BY <1>2, <4>1, <5>1
      <4>2. CASE ~(i < p)
        <5>1. i + 1 \in 1 .. f.total /\ p # 0 /\ ~(i + 1 < p) /\ i + 1 # p /\ i + 1 - 1 = i
          BY <1>1, <1>2, <2>2, <3>1, <4>2
        <5>2. v[i + 1] = row[i + 1 - 1] BY <1>2, <5>1
        <5> QED BY <4>2, <5>1, <5>2
      <4> QED BY <4>1, <4>2
    <3>4. NumHides(Nat, NumDigit, v, row, p) BY <3>1, <3>2, <3>3 DEF NumHides
    <3> QED BY <1>2, <3>4, NumMantissaHidden
  <2> QED BY <1>1, <2>1, <2>2
<1> QED BY <1>4, <1>5

\* Its digits behind the point: those the format asks for, or those typed.
LEMMA NumValueDecimals ==
  ASSUME NEW f \in NumFormats, NEW typed \in Seq(NumChars), Len(typed) <= NumRoom(f),
         NEW v, v = NumPlaced(f, NumRow(f, typed)),
         NEW has \in BOOLEAN, NumPointIsOne(f, typed, has),
         NumPointAt(f) = 0 \/ f.zeros \/ Len(typed) >= f.precision
  PROVE  NumDecimals(v) = IF NumPointAt(f) > 0 THEN f.precision ELSE NumDecimals(typed)
<1> DEFINE p == NumPointAt(f)
           r == NumRoom(f)
           k == r - Len(typed)
           row == NumRow(f, typed)
<1>1. /\ f.total \in Nat /\ p \in Nat /\ p < f.total /\ r = (IF p = 0 THEN f.total ELSE f.total - 1)
      /\ NumPad(f) \in NumCells /\ NumPad(f) # NumPoint /\ (f.zeros => NumPad(f) = 0)
      /\ f.precision \in Nat /\ (p > 0 => p = f.total - f.precision)
  BY NumFormatIs
<1>2. /\ k \in Nat /\ k + Len(typed) = r /\ Len(typed) \in Nat
      /\ v \in Seq(NumCells) /\ Len(v) = f.total /\ row \in Seq(NumCells) /\ Len(row) = r
      /\ \A i \in 1 .. r : row[i] = IF i <= k THEN NumPad(f) ELSE typed[i - k]
      /\ p = 0 => v = row
      /\ \A i \in 1 .. f.total : v[i] = IF p = 0 \/ i < p THEN row[i] ELSE IF i = p THEN NumPoint ELSE row[i - 1]
  BY NumValueIs
<1>3. typed \in Seq(NumCells) /\ \A j \in 1 .. Len(typed) : typed[j] \in NumChars
  <2>1. NumChars \subseteq NumCells BY DEF NumCells
  <2> QED BY <2>1
<1>4. p > 0 => \A i \in 1 .. Len(typed) : typed[i] # NumPoint BY DEF NumPointIsOne
<1>5. p = 0 \/ f.zeros \/ Len(typed) >= f.precision OBVIOUS
<1> HIDE DEF p, r, k, row
<1>6. CASE p = 0
  <2>1. ASSUME NEW i \in 1 .. k PROVE NumDecimal[<<-1, row[i]>>] = -1
    <3>1. i \in 1 .. r /\ i <= k BY <1>1, <1>2
    <3>2. row[i] = NumPad(f) BY <1>2, <3>1
    <3> QED BY <1>1, <3>2, NumTurns
  <2>2. ASSUME NEW j \in 1 .. Len(typed) PROVE row[k + j] = typed[j]
    <3>1. k + j \in 1 .. r /\ ~(k + j <= k) /\ k + j - k = j BY <1>1, <1>2
    <3>2. row[k + j] = typed[k + j - k] BY <1>2, <3>1
    <3> QED BY <3>1, <3>2
  <2>3. Len(row) = k + Len(typed) BY <1>2
  <2>4. NumPads(NumDecimal, -1, row, typed, k) BY <1>2, <2>1, <2>2, <2>3 DEF NumPads
  <2>5. NumDecimals(row) = NumDecimals(typed) BY <1>2, <1>3, <2>4, NumDecimalsPadded
  <2>6. v = row /\ ~(p > 0) BY <1>2, <1>6
  <2> QED BY <2>5, <2>6 DEF p
<1>7. CASE p > 0
  <2>1. p \in 1 .. Len(v) /\ v[p] = NumPoint BY <1>1, <1>2, <1>7
  <2>2. ASSUME NEW i \in p + 1 .. Len(v) PROVE v[i] \in 0 .. 9
    <3>1. i \in Int /\ i > p /\ i <= f.total /\ p \in Nat /\ f.total \in Nat /\ r = f.total - 1 BY <1>1, <1>2, <1>7
    <3>2. i \in 1 .. f.total /\ p # 0 /\ ~(i < p) /\ i # p /\ i - 1 \in 1 .. r BY ONLY <3>1, <1>7
    <3>3. v[i] = row[i - 1]
      <4>1. v[i] = IF p = 0 \/ i < p THEN row[i] ELSE IF i = p THEN NumPoint ELSE row[i - 1] BY <1>2, <3>2
      <4> QED BY <3>2, <4>1
    <3>4. row[i - 1] = IF i - 1 <= k THEN NumPad(f) ELSE typed[i - 1 - k] BY <1>2, <3>2
    <3>5. CASE i - 1 <= k
      <4>1. p <= k BY <1>2, <3>1, <3>5
      <4>2. f.zeros
        <5>1. Len(typed) + p <= r /\ p = f.total - f.precision BY <1>1, <1>2, <1>7, <4>1
        <5>2. ~(Len(typed) >= f.precision)
          <6>1. f.precision \in Nat /\ Len(typed) \in Nat BY <1>1, <1>2
          <6>2. r + 1 = p + f.precision BY ONLY <3>1, <5>1, <6>1
          <6>3. Len(typed) + p < p + f.precision BY ONLY <3>1, <5>1, <6>1, <6>2
          <6> QED BY ONLY <3>1, <6>1, <6>3
        <5> QED BY <1>5, <1>7, <5>2
      <4> QED BY <1>1, <3>3, <3>4, <3>5, <4>2
    <3>6. CASE ~(i - 1 <= k)
      <4>1. i - 1 - k \in 1 .. Len(typed) BY <1>2, <3>1, <3>2, <3>6
      <4>2. typed[i - 1 - k] \in NumChars /\ typed[i - 1 - k] # NumPoint BY <1>3, <1>4, <1>7, <4>1
      <4> QED BY <3>3, <3>4, <3>6, <4>2 DEF NumChars
    <3> QED BY <3>5, <3>6
  <2>3. NumDecimals(v) = Len(v) - p BY <1>2, <2>1, <2>2, NumBehindPoint
  <2>4. Len(v) - p = f.precision BY <1>1, <1>2, <1>7
  <2> QED BY <1>7, <2>3, <2>4 DEF p
<1> QED BY <1>1, <1>6, <1>7

\* The first character that is no space, and the text from it on.
NumFirstShown(v) == LET S == {i \in 1 .. Len(v) : v[i] # NumSpace} IN IF S # {} THEN Places!Min(S) ELSE 0
NumText(v, n) == IF NumFirstShown(v) = 0 THEN <<0>> ELSE SubSeq(v, NumFirstShown(v), n)

\* Only spaces stand before it.
LEMMA NumShownFrom ==
  ASSUME NEW v \in Seq(NumCells)
  PROVE  /\ NumFirstShown(v) \in 0 .. Len(v)
         /\ NumFirstShown(v) = 0 => \A i \in 1 .. Len(v) : v[i] = NumSpace
         /\ NumFirstShown(v) > 0 => \A i \in 1 .. NumFirstShown(v) - 1 : v[i] = NumSpace
<1> DEFINE S == {i \in 1 .. Len(v) : v[i] # NumSpace}
           shown == NumFirstShown(v)
<1>1. shown = IF S # {} THEN Places!Min(S) ELSE 0 BY DEF NumFirstShown
<1>2. Len(v) \in Nat OBVIOUS
<1> HIDE DEF shown
<1>3. CASE S = {}
  <2>1. \A i \in 1 .. Len(v) : v[i] = NumSpace BY <1>3
  <2>2. shown = 0 BY <1>1, <1>3
  <2> QED BY <1>2, <2>1, <2>2 DEF shown
<1>4. CASE S # {}
  <2>1. S \in SUBSET Nat OBVIOUS
  <2>2. PICK m \in S : \A y \in S : m <= y
    <3> HIDE DEF S
    <3> QED BY <1>4, <2>1, LeastIn
  <2>3. Places!Min(S) \in S /\ \A y \in S : Places!Min(S) <= y
    <3> HIDE DEF S
    <3> QED BY <2>2 DEF Places!Min
  <2>4. shown \in S /\ \A y \in S : shown <= y BY <1>1, <1>4, <2>3
  <2>5. ASSUME NEW i \in 1 .. shown - 1 PROVE v[i] = NumSpace
    <3>1. i \in 1 .. Len(v) /\ ~(shown <= i) BY <1>2, <2>4
    <3>2. i \notin S BY <2>4, <3>1
    <3> QED BY <3>1, <3>2
  <2>6. shown \in 1 .. Len(v) BY <2>4
  <2>7. shown \in 0 .. Len(v) /\ shown # 0 BY <1>2, <2>6
  <2> HIDE DEF S
  <2> QED BY <2>5, <2>7 DEF shown
<1> QED BY <1>3, <1>4

\* A zero set in front of a text is not read.
LEMMA NumZeroInFront ==
  ASSUME NEW text \in Seq(NumCells)
  PROVE  NumMantissa(<<0>> \o text) = NumMantissa(text)
<1> DEFINE zero == <<0>>
           w == zero \o text
<1>1. 0 \in NumCells BY DEF NumCells, NumChars
<1>2. zero \in Seq(NumCells) /\ Len(zero) = 1 /\ zero[1] = 0 BY <1>1
<1>3. Len(text) \in Nat OBVIOUS
<1> HIDE DEF zero
<1>4. /\ w \in Seq(NumCells) /\ Len(w) = Len(zero) + Len(text)
      /\ \A i \in 1 .. Len(zero) + Len(text) : w[i] = IF i <= Len(zero) THEN zero[i] ELSE text[i - Len(zero)]
  BY <1>2, ConcatProperties
<1> HIDE DEF w
<1>5. w[1] = 0
  <2>1. 1 \in 1 .. Len(zero) + Len(text) /\ 1 <= Len(zero) BY <1>2, <1>3
  <2> QED BY <1>2, <1>4, <2>1
<1>6. ASSUME NEW j \in 1 .. Len(text) PROVE w[1 + j] = text[j]
  <2>1. 1 + j \in 1 .. Len(zero) + Len(text) /\ ~(1 + j <= Len(zero)) /\ 1 + j - Len(zero) = j BY <1>2, <1>3
  <2>2. w[1 + j] = text[1 + j - Len(zero)] BY <1>4, <2>1
  <2> QED BY <2>1, <2>2
<1>7. \A i \in 1 .. 1 : NumDigit[<<0, w[i]>>] = 0
  <2>1. NumDigit[<<0, w[1]>>] = 0 BY <1>5, NumTurns
  <2> QED BY <2>1
<1>8. NumPads(NumDigit, 0, w, text, 1) BY <1>2, <1>4, <1>6, <1>7 DEF NumPads
<1>9. NumMantissa(w) = NumMantissa(text) BY <1>4, <1>8, NumMantissaPadded
<1> QED BY <1>9 DEF w, zero

\* The text shown is read as the field it is taken from.
LEMMA NumTextReads ==
  ASSUME NEW v \in Seq(NumCells), NEW n, n = Len(v)
  PROVE  NumText(v, n) \in Seq(NumCells) /\ NumMantissa(NumText(v, n)) = NumMantissa(v)
<1> DEFINE shown == NumFirstShown(v)
           text == NumText(v, n)
<1>1. /\ shown \in 0 .. n /\ n \in Nat /\ shown \in Nat
      /\ shown = 0 => \A i \in 1 .. n : v[i] = NumSpace
      /\ shown > 0 => \A i \in 1 .. shown - 1 : v[i] = NumSpace
  BY NumShownFrom
<1>2. text = IF shown = 0 THEN <<0>> ELSE SubSeq(v, shown, n) BY DEF NumText
<1>3. NumDigit[<<0, NumSpace>>] = 0 BY NumTurns
<1> HIDE DEF shown, text
<1>4. CASE shown = 0
  <2> DEFINE none == <<>>
  <2>1. none \in Seq(NumCells) /\ Len(none) = 0 OBVIOUS
  <2>2. text = <<0>> \o none BY <1>2, <1>4
  <2>3. text \in Seq(NumCells)
    <3>1. 0 \in NumCells BY DEF NumCells, NumChars
    <3> QED BY <1>2, <1>4, <3>1
  <2> HIDE DEF none
  <2>4. NumMantissa(text) = NumMantissa(none) BY <2>1, <2>2, NumZeroInFront
  <2>5. NumMantissa(v) = NumMantissa(none)
    <3>1. \A i \in 1 .. n : NumDigit[<<0, v[i]>>] = 0 BY <1>1, <1>3, <1>4
    <3>2. \A j \in 1 .. Len(none) : v[n + j] = none[j]
      <4>1. 1 .. Len(none) = {} BY <2>1
      <4> QED BY <4>1
    <3>3. Len(v) = n + Len(none) BY <1>1, <2>1
    <3>4. NumPads(NumDigit, 0, v, none, n) BY <1>1, <3>1, <3>2, <3>3 DEF NumPads
    <3> QED BY <2>1, <3>4, NumMantissaPadded
  <2> QED BY <2>3, <2>4, <2>5 DEF text
<1>5. CASE shown > 0
  <2>1. text = SubSeq(v, shown, n) BY <1>1, <1>2, <1>5
  <2>2. /\ text \in Seq(NumCells) /\ Len(text) = n - shown + 1
        /\ \A j \in 1 .. n - shown + 1 : text[j] = v[shown + j - 1]
    <3>1. \A i \in shown .. n : v[i] \in NumCells BY <1>1, <1>5
    <3>2. shown \in Int /\ n \in Int /\ shown <= n BY <1>1
    <3> QED BY ONLY <2>1, <3>1, <3>2, SubSeqProperties
  <2> DEFINE k == shown - 1
  <2>3. k \in Nat /\ n = k + Len(text) /\ n - shown + 1 = Len(text) BY <1>1, <1>5, <2>2
  <2>4. \A i \in 1 .. k : NumDigit[<<0, v[i]>>] = 0 BY <1>1, <1>3, <1>5
  <2>5. ASSUME NEW j \in 1 .. Len(text) PROVE v[k + j] = text[j]
    <3>1. k + j = shown + j - 1 BY <1>1
    <3>2. text[j] = v[shown + j - 1] BY <2>2, <2>3
    <3> QED BY <3>1, <3>2
  <2> HIDE DEF k
  <2>6. NumPads(NumDigit, 0, v, text, k) BY <2>3, <2>4, <2>5 DEF NumPads
  <2>7. NumMantissa(text) = NumMantissa(v) BY <2>2, <2>6, NumMantissaPadded
  <2> QED BY <2>2, <2>7 DEF text
<1> QED BY <1>1, <1>4, <1>5

-----------------------------------------------------------------------------
\* A field that holds the characters typed shows and gives their number.
LEMMA NumInvShows == NumInv => NumberShowsWhatWasTyped
<1> SUFFICES ASSUME NumInv PROVE NumberShowsWhatWasTyped OBVIOUS
<1> DEFINE f == numFormat
           p == NumPointAt(f)
           r == NumRoom(f)
           moving == NumMoving(f, numValue)
           padding == Len(moving) - Len(numTyped)
           text == NumText(numValue, f.total)
<1>1. /\ f \in NumFormats /\ numTyped \in Seq(NumChars) /\ Len(numTyped) <= r
      /\ numValue = NumPlaced(f, NumRow(f, numTyped))
      /\ numLost \in {0, 1} /\ (numLost = 1 => p > 0)
      /\ numCount = Len(numTyped) + numLost /\ numCount <= f.total
      /\ numNegative \in BOOLEAN /\ (numNegative => f.negative)
      /\ numHasPoint \in BOOLEAN /\ NumPointIsOne(f, numTyped, numHasPoint)
  BY DEF NumInv
<1>2. f.total \in Nat /\ p \in Nat /\ f.negative \in BOOLEAN BY <1>1, NumFormatIs
<1>3. /\ numValue \in Seq(NumCells) /\ Len(numValue) = f.total /\ moving = NumRow(f, numTyped)
      /\ Len(NumRow(f, numTyped)) = r
  BY <1>1, NumValueIs
<1>4. numCount = Len(numTyped) + numLost /\ numCount \in 0 .. f.total /\ (numLost > 0 => p > 0) BY <1>1, <1>2
<1>5. moving = [i \in 1 .. padding |-> NumPad(f)] \o numTyped
  <2>1. padding = r - Len(numTyped) BY <1>3
  <2>2. NumRow(f, numTyped) = [i \in 1 .. r - Len(numTyped) |-> NumPad(f)] \o numTyped BY <1>1, NumRowSplit
  <2> HIDE DEF padding, moving, f, r
  <2> QED BY <1>3, <2>1, <2>2
<1>6. /\ numHasPoint <=> \E i \in 1 .. f.total : numValue[i] = NumPoint
      /\ \A i, j \in 1 .. f.total : numValue[i] = NumPoint /\ numValue[j] = NumPoint => i = j
      /\ p > 0 => numValue[p] = NumPoint
  BY <1>1, NumPoints
<1>7. DOMAIN numValue = 1 .. f.total BY <1>3
<1>8. numHasPoint <=> NumPoint \in Places!ToSet(numValue) BY <1>6, <1>7 DEF Places!ToSet
<1>9. NumMantissa(numValue) = NumMantissa(numTyped) BY <1>1, NumValueReads
<1>10. ASSUME p = 0 \/ f.zeros \/ Len(numTyped) >= f.precision PROVE NumGetValue = NumTypedNumber
  <2>1. NumDecimals(numValue) = IF p > 0 THEN f.precision ELSE NumDecimals(numTyped)
    BY <1>1, <1>10, NumValueDecimals
  <2> QED BY <1>9, <2>1 DEF NumGetValue, NumTypedNumber
<1>11. NumMantissa(text) = NumMantissa(numTyped) /\ NumMantissa(<<0>> \o text) = NumMantissa(numTyped)
  <2>1. text \in Seq(NumCells) /\ NumMantissa(text) = NumMantissa(numTyped) BY <1>3, <1>9, NumTextReads
  <2> HIDE DEF text
  <2>2. NumMantissa(<<0>> \o text) = NumMantissa(text) BY <2>1, NumZeroInFront
  <2> QED BY <2>1, <2>2
<1>12. NumMantissa(NumGetString.text) = NumTypedNumber.mantissa
  <2>1. NumGetString.text = IF Head(text) = NumPoint /\ ~f.zeros THEN <<0>> \o text ELSE text
    BY DEF NumGetString, Places!SelectInSeq, NumText, NumFirstShown
  <2>2. NumTypedNumber.mantissa = NumMantissa(numTyped) BY DEF NumTypedNumber
  <2> HIDE DEF text, f
  <2> QED BY <1>11, <2>1, <2>2
<1>13. NumGetString.negative = numNegative
  <2>1. NumGetString.negative = (numNegative /\ numFormat.negative) BY DEF NumGetString
  <2> QED BY <1>1, <1>2, <2>1
<1> HIDE DEF f, p, r, moving, padding
<1> QED BY <1>4, <1>5, <1>6, <1>7, <1>8, <1>10, <1>12, <1>13 DEF NumberShowsWhatWasTyped, f, p, moving, padding

\* Whatever is typed, removed and typed again, the field holds, shows and gives
\* the number typed and not removed (string_format.c:32-172, :233-497).
THEOREM NumberShowsIt == NumSpec => []NumberShowsWhatWasTyped
<1>1. NumInit => NumInv
  <2> SUFFICES ASSUME NumInit PROVE NumInv OBVIOUS
  <2>1. /\ numFormat \in NumFormats /\ numValue = NumEmpty(numFormat)
        /\ numCount = 0 /\ numNegative = FALSE /\ numHasPoint = (NumPointAt(numFormat) > 0)
        /\ numTyped = <<>> /\ numLost = 0
    BY DEF NumInit
  <2>2. /\ NumEmpty(numFormat) = NumPlaced(numFormat, NumRow(numFormat, <<>>))
        /\ <<>> \in Seq(NumChars) /\ Len(<<>>) <= NumRoom(numFormat)
        /\ NumPointIsOne(numFormat, <<>>, NumPointAt(numFormat) > 0)
    BY <2>1, NumEmptyIs
  <2>3. 0 = Len(<<>>) + 0 /\ 0 <= numFormat.total
    BY <2>1, NumFormatIs
  <2> DEFINE e == <<>>
             has == NumPointAt(numFormat) > 0
  <2>4. /\ numTyped = e /\ e \in Seq(NumChars) /\ Len(e) <= NumRoom(numFormat) /\ numHasPoint = has
        /\ has \in BOOLEAN /\ numValue = NumPlaced(numFormat, NumRow(numFormat, e))
        /\ NumPointIsOne(numFormat, e, has) /\ 0 = Len(e) + 0
    BY <2>1, <2>2, <2>3
  <2> HIDE DEF e, has
  <2>5. numFormat \in NumFormats /\ numCount = 0 /\ numNegative = FALSE /\ numLost = 0 /\ 0 <= numFormat.total
    BY <2>1, <2>3
  <2>6. /\ numTyped \in Seq(NumChars) /\ Len(numTyped) <= NumRoom(numFormat) /\ numCount = Len(numTyped) + numLost
        /\ numValue = NumPlaced(numFormat, NumRow(numFormat, numTyped))
        /\ numHasPoint \in BOOLEAN /\ NumPointIsOne(numFormat, numTyped, numHasPoint)
    BY <2>4, <2>5
  <2>7. /\ numLost \in {0, 1} /\ (numLost = 1 => NumPointAt(numFormat) > 0)
        /\ numCount <= numFormat.total
    BY <2>5
  <2>8. numNegative \in BOOLEAN /\ (numNegative => numFormat.negative) BY <2>5
  <2> QED BY <2>5, <2>6, <2>7, <2>8 DEF NumInv
<1>2. NumInv /\ [NumNext]_numVars => NumInv' BY NumInvStep
<1> QED BY <1>1, <1>2, NumInvShows, PTL DEF NumSpec
=============================================================================
