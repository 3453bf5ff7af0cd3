------------------------------- MODULE Calendar -------------------------------
(***************************************************************************)
(* The date of a timestamp, as the interface harness writes it for the     *)
(* suite (src/interface-harness/src/plain.rs, time): whole days since      *)
(* 1970-01-01, before it too, made a date of the Gregorian calendar        *)
(* without a table.  It is compared with the calendar itself, walked day   *)
(* by day from the epoch in both directions.  \div and % round towards     *)
(* minus infinity, as div_euclid and rem_euclid do for these divisors.     *)
(***************************************************************************)
EXTENDS Integers

CONSTANTS First, Last   \* bounds: the days walked to, before and after the epoch

ASSUME DaysAssumption == First \in Int /\ Last \in Int /\ First <= 0 /\ 0 <= Last

VARIABLES days, date

vars == <<days, date>>

Date == [year : Int, month : 1..12, day : 1..31]

-------------------------------------------------------------------------------
\* plain.rs: an era is 400 years, a year of it begins on the first of March.

Shifted(d)   == d + 719468
Era(d)       == Shifted(d) \div 146097
DayOfEra(d)  == Shifted(d) % 146097

\* Mutant: a leap year every fourth, counted a day late.
YearOfEraLate(doe) == (doe - doe \div 1461 + doe \div 36524 - doe \div 146096) \div 365

YearOfEra(doe) == (doe - doe \div 1460 + doe \div 36524 - doe \div 146096) \div 365

DayOfYear(d) ==
  LET yoe == YearOfEra(DayOfEra(d))
  IN  DayOfEra(d) - (365 * yoe + yoe \div 4 - yoe \div 100)

MonthOfYear(doy) == (5 * doy + 2) \div 153

Month(mp) == IF mp < 10 THEN mp + 3 ELSE mp - 9

Civil(d) ==
  LET mp    == MonthOfYear(DayOfYear(d))
      month == Month(mp)
  IN  [year  |-> YearOfEra(DayOfEra(d)) + Era(d) * 400 + (IF month <= 2 THEN 1 ELSE 0),
       month |-> month,
       day   |-> DayOfYear(d) - (153 * mp + 2) \div 5 + 1]

-------------------------------------------------------------------------------
\* The calendar.

Leap(y) == y % 4 = 0 /\ (y % 100 = 0 => y % 400 = 0)

Length(y, m) ==
  CASE m = 2 -> IF Leap(y) THEN 29 ELSE 28
    [] m \in {4, 6, 9, 11} -> 30
    [] OTHER -> 31

After(d) ==
  IF d.day < Length(d.year, d.month) THEN [d EXCEPT !.day = @ + 1]
  ELSE IF d.month < 12 THEN [d EXCEPT !.month = @ + 1, !.day = 1]
  ELSE [year |-> d.year + 1, month |-> 1, day |-> 1]

Before(d) ==
  IF d.day > 1 THEN [d EXCEPT !.day = @ - 1]
  ELSE IF d.month > 1
    THEN [d EXCEPT !.month = @ - 1, !.day = Length(d.year, d.month - 1)]
  ELSE [year |-> d.year - 1, month |-> 12, day |-> 31]

Init == days = 0 /\ date = [year |-> 1970, month |-> 1, day |-> 1]

Tomorrow  == days >= 0 /\ days < Last  /\ days' = days + 1 /\ date' = After(date)
Yesterday == days <= 0 /\ days > First /\ days' = days - 1 /\ date' = Before(date)

Next == Tomorrow \/ Yesterday

Spec == Init /\ [][Next]_vars

-------------------------------------------------------------------------------
\* Properties.

\* The date written for a day is the calendar's: leap days, centuries and the days
\* before the epoch included (plain.rs:34-47).
CivilIsCalendar == Civil(days) = date

===============================================================================
