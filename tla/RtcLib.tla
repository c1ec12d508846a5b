------------------------------- MODULE RtcLib -------------------------------
(***************************************************************************)
(* src/rtc_lib.c: the calendar of a clock that holds a date: the day of    *)
(* the week, the seconds since 1970 and the way back, in the integer       *)
(* arithmetic of the code.  The clock itself, which knows the lengths of   *)
(* the months and takes any date it is given, is the device; a tick of it  *)
(* is a day.                                                               *)
(*                                                                         *)
(* A 32-bit timestamp is a number of days and one of seconds, the          *)
(* remainder of a division by 86400; it wraps in February 2106.            *)
(***************************************************************************)
EXTENDS Integers, Sequences, FiniteSets

CONSTANTS
  RtcYears,     \* the years the clock runs through
  RtcDates,     \* the dates given to rtc_set
  RtcDays,      \* the timestamps given to rtc_set_timestamp, in days
  RtcSeconds    \* the times of day, in seconds

VARIABLES
  rtcDate,      \* the device: year, mon, mday, and seconds of the day
  rtcRuns       \* the device has been set

rtcVars == <<rtcDate, rtcRuns>>

-----------------------------------------------------------------------------
\* rtc_is_leap_year.
RtcIsLeapYear(y) == (y % 4 = 0 /\ y % 100 # 0) \/ y % 400 = 0

\* The device: the lengths of the months.
RtcMonthLength(y, m) ==
  IF m = 2 THEN (IF RtcIsLeapYear(y) THEN 29 ELSE 28) ELSE IF m \in {4, 6, 9, 11} THEN 30 ELSE 31

\* Years have 16 bits with a sign, timestamps 32.
ASSUME RtcAssumption ==
  /\ RtcYears \subseteq Nat /\ \A y \in RtcYears : 2021 <= y /\ y <= 32767
  /\ \A d \in RtcDates :
       /\ d \in [year : Nat, mon : 1 .. 12, mday : 1 .. 31, secs : Nat]
       /\ d.year <= 32767 /\ d.mday <= RtcMonthLength(d.year, d.mon) /\ d.secs < 86400
  /\ RtcDays \subseteq Nat /\ \A n \in RtcDays : n <= 49709
  /\ RtcSeconds \subseteq Nat /\ \A n \in RtcSeconds : n < 86400

\* rtc_calc_week_day: a year before 2000 is taken for one after it, and stays
\* so in the date of the caller.
RtcFullYear(y) == IF y < 2000 THEN y + 2000 ELSE y
RtcCalcWeekDay(d) ==
  LET adjustment == (14 - d.mon) \div 12
      mm == d.mon + 12 * adjustment - 2
      yy == RtcFullYear(d.year) - adjustment
  IN  (((d.mday - 1 + (13 * mm - 1) \div 5 + yy + yy \div 4 - yy \div 100 + yy \div 400) % 7) + 1) % 7

\* Seeded fault: January and February are left in their year.
RtcCalcDaysPlain(d) ==
  365 * d.year + d.year \div 4 - d.year \div 100 + d.year \div 400
    + 30 * d.mon + (3 * (d.mon + 1)) \div 5 + d.mday - 719561

\* The days of rtc_calc_timestamp: January and February are months 13 and 14.
RtcCalcDays(d) ==
  LET late == d.mon <= 2
      y == IF late THEN d.year - 1 ELSE d.year
      m == IF late THEN d.mon + 12 ELSE d.mon
  IN  365 * y + y \div 4 - y \div 100 + y \div 400 + 30 * m + (3 * (m + 1)) \div 5 + d.mday - 719561

\* What 32 bits keep: 2^32 seconds are 49710 days and 23296 seconds.
RtcWrap(days, secs) ==
  LET turns == days \div 49710
      rest == secs - 23296 * turns
      left == (days % 49710) + rest \div 86400
      more == (rest % 86400) + 23296
  IN  IF left >= 0 THEN [days |-> left, secs |-> rest % 86400]
      ELSE [days |-> left + 49710 + more \div 86400, secs |-> more % 86400]

RtcCalcTimestamp(d) == RtcWrap(RtcCalcDays(d), d.secs)

\* The date of a timestamp.
RtcCivil(t) ==
  LET a == (4 * t.days + 102032) \div 146097 + 15
      b == t.days + 2442113 + a - a \div 4
      c == (20 * b - 2442) \div 7305
      d == b - 365 * c - c \div 4
      e == (d * 1000) \div 30601
      f == d - e * 30 - (e * 601) \div 1000
      late == e > 13
  IN  [year |-> IF late THEN c - 4715 ELSE c - 4716, mon |-> IF late THEN e - 13 ELSE e - 1,
       mday |-> f, secs |-> t.secs]

\* rtc_convert_timestamp_to_rtctime: it ends in rtc_calc_week_day.
RtcConvert(t) == [RtcCivil(t) EXCEPT !.year = RtcFullYear(@)]

\* rtc_get, rtc_get_timestamp.
RtcGet == [rtcDate EXCEPT !.year = RtcFullYear(@)]
RtcGetTimestamp == RtcCalcTimestamp(RtcGet)

-----------------------------------------------------------------------------
(* The device: the calendar as it is.                                      *)

RtcTomorrow(d) ==
  IF d.mday < RtcMonthLength(d.year, d.mon) THEN [d EXCEPT !.mday = @ + 1]
  ELSE IF d.mon < 12 THEN [d EXCEPT !.mday = 1, !.mon = @ + 1]
  ELSE [d EXCEPT !.mday = 1, !.mon = 1, !.year = @ + 1]

\* No date is set: rtc_get_time fails.
RtcInit == rtcDate = [year |-> 2000, mon |-> 1, mday |-> 1, secs |-> 0] /\ rtcRuns = FALSE

RtcTick ==
  /\ rtcRuns /\ RtcTomorrow(rtcDate).year \in RtcYears
  /\ rtcDate' = RtcTomorrow(rtcDate)
  /\ UNCHANGED rtcRuns

\* rtc_set: a year up to 2020 is refused.
RtcStore(d) == d.year > 2020 /\ rtcDate' = d /\ rtcRuns' = TRUE

RtcSet == \E d \in RtcDates : RtcStore(d)

\* rtc_set_timestamp: 0 is refused.
RtcSetTimestamp ==
  \E n \in RtcDays, s \in RtcSeconds : n + s >= 1 /\ RtcStore(RtcConvert([days |-> n, secs |-> s]))

\* rtc_init: a clock that cannot be read is set to a date of its own.
RtcInitLib == ~rtcRuns /\ RtcStore([year |-> 2024, mon |-> 1, mday |-> 1, secs |-> 23 * 3600 + 50 * 60])

RtcNext == RtcTick \/ RtcSet \/ RtcSetTimestamp \/ RtcInitLib

RtcSpec == RtcInit /\ [][RtcNext]_rtcVars

-----------------------------------------------------------------------------
(* Properties.                                                             *)

\* The days since 1 January 1970, a Thursday, counted one year and one month
\* after the other.
RtcLeaps(y) == {x \in 1970 .. y - 1 : RtcIsLeapYear(x)}
RtcDaysBefore(y, m) == {day \in (1 .. m - 1) \X (1 .. 31) : day[2] <= RtcMonthLength(y, day[1])}
RtcDayCount(d) ==
  365 * (d.year - 1970) + Cardinality(RtcLeaps(d.year)) + Cardinality(RtcDaysBefore(d.year, d.mon)) + d.mday - 1

\* On every day the clock runs through, over leap years, century years and
\* the ends of months, the day of the week is that of counting; and in the
\* years that 32-bit timestamps have, so are the timestamp and the date of it
\* (rtc_lib.c:16-87, :168-223).
CalendarAgrees ==
  rtcRuns =>
    /\ RtcCalcWeekDay(rtcDate) = (RtcDayCount(rtcDate) + 4) % 7
    /\ rtcDate.year <= 2105 =>
         /\ RtcGetTimestamp = [days |-> RtcDayCount(rtcDate), secs |-> rtcDate.secs]
         /\ RtcConvert(RtcGetTimestamp) = rtcDate
=============================================================================
