------------------------------ MODULE Calendar ------------------------------
(***************************************************************************)
(* imond treats holidays as sundays (base/imond/imond.c, is_holiday): the  *)
(* movable ones hang on easter, computed with Gauss's rule.  The holidays  *)
(* of the last year asked for are kept.                                    *)
(***************************************************************************)
EXTENDS Integers

CONSTANT Years  \* bound: the years of the dates asked for

VARIABLES
  last_year,
  holidays    \* pairs of day and month

vars == <<last_year, holidays>>

TypeOK ==
  /\ last_year \in Years \cup {0}
  /\ holidays \subseteq (1 .. 31) \X (1 .. 12)

g_days_per_month == <<31, 28, 31, 30, 31, 30, 31, 31, 30, 31, 30, 31>>

IS_LEAP_YEAR(y) == y % 4 = 0 /\ (y % 100 # 0 \/ y % 400 = 0)

(* add_days.  The code lengthens january, not february, in a leap year.     *)
(* The dates it is given are near easter, so the year does not change, and *)
(* its loops come to another month at most twice.                          *)
DaysOf(month, year) ==
  g_days_per_month[month] + IF month = 1 /\ IS_LEAP_YEAR(year) THEN 1 ELSE 0

Carried(day, month, year) ==
  IF day <= 0 THEN <<day + DaysOf(month - 1, year), month - 1>>
  ELSE IF day > DaysOf(month, year) THEN <<day - DaysOf(month, year), month + 1>>
  ELSE <<day, month>>

add_days(start_day, start_month, year, n_days) ==
  LET once == Carried(start_day + n_days, start_month, year)
  IN Carried(once[1], once[2], year)

(* Days from march 21 to the full moon: D *)
FullMoon(year) ==
  LET a == year % 19
      m == (8 * (year \div 100) + 13) \div 25 - 2
      s == year \div 100 - year \div 400 - 2
      M == (15 + s - m) % 30
      d == (M + 19 * a) % 30
  IN IF d = 29 THEN 28 ELSE IF d = 28 /\ a >= 11 THEN 27 ELSE d

(* Days from march 21 to easter *)
EasterOffset(year) ==
  LET b == year % 4
      c == year % 7
      s == year \div 100 - year \div 400 - 2
      N == (6 + s) % 7
      e == (2 * b + 4 * c + 6 * FullMoon(year) + N) % 7
  IN FullMoon(year) + e + 1

fixed_holidays == {<<1, 1>>, <<1, 5>>, <<3, 10>>, <<25, 12>>, <<26, 12>>}
movable_holidays == {-2, 1, 39, 50}

(* ostern_day, ostern_month *)
Easter(year) ==
  LET day == 21 + EasterOffset(year)
  IN IF day > 31 THEN <<day - 31, 4>> ELSE <<day, 3>>

Holidays(year) ==
  fixed_holidays
    \cup {add_days(Easter(year)[1], Easter(year)[2], year, n) : n \in movable_holidays}

Init == last_year = 0 /\ holidays = {}

(* Faulty variant: takes it that years only go forward. *)
Faultyis_holiday(year) ==
  /\ last_year' = year
  /\ holidays' = IF last_year < year THEN Holidays(year) ELSE holidays

(* is_holiday, asked for a day of a year; the clock may be set back. *)
is_holiday(year) ==
  /\ last_year' = year
  /\ holidays' = IF last_year # year THEN Holidays(year) ELSE holidays

Next == \E year \in Years : is_holiday(year)

Spec == Init /\ [][Next]_vars

-----------------------------------------------------------------------------
(* Properties *)

(* The days since the first day, a monday, of the year 1. *)
DayNumber(day, month, year) ==
  LET y == year - 1
      before == <<0, 31, 59, 90, 120, 151, 181, 212, 243, 273, 304, 334>>
  IN 365 * y + y \div 4 - y \div 100 + y \div 400 + before[month] + day - 1
     + IF month > 2 /\ IS_LEAP_YEAR(year) THEN 1 ELSE 0

(* Lilius's epact: the age of the moon on january 1. *)
Epact(year) ==
  LET century == year \div 100
      golden == year % 19
      solar == century - century \div 4
      lunar == (8 * century + 13) \div 25
      e == (11 * golden + 8 - solar + lunar) % 30
  IN IF e = 25 /\ golden > 10 THEN 26 ELSE IF e = 24 THEN 25 ELSE e

(* Easter is the first sunday after the full moon on or after march 21. *)
IsEaster(n, year) ==
  LET equinox == DayNumber(21, 3, year)
      age == 44 - Epact(year)
      full_moon == equinox + (IF age < 21 THEN age + 30 ELSE age) - 21
  IN n % 7 = 6 /\ n > full_moon /\ n <= full_moon + 7

(* The holidays are the fixed ones, and good friday, easter monday,         *)
(* ascension and whit monday of the calendar as the church computes it from*)
(* the epact, in all exceptional years, whatever year was asked for before.*)
HolidaysRight ==
  last_year # 0 =>
    holidays = fixed_holidays \cup
      {date \in (1 .. 31) \X (3 .. 6) :
         \E n \in movable_holidays :
           /\ date[1] <= g_days_per_month[date[2]]
           /\ IsEaster(DayNumber(date[1], date[2], last_year) - n, last_year)}
=============================================================================
