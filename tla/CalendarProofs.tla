---------------------------- MODULE CalendarProofs ----------------------------
(***************************************************************************)
(* The date written for a day is the calendar's on every day there is: the *)
(* arithmetic of Calendar is taken apart into an era, a year of it, a      *)
(* month of that and a day, each of which one more day moves on as the     *)
(* calendar moves.  Years and months are counted from March, as the code   *)
(* counts them, so that a leap day is the last of its year.                *)
(***************************************************************************)
EXTENDS Calendar, TLAPS

\* The day of an era on which its year y begins, and the day of a year on which its
\* month does.
YearStart(y)   == 365 * y + (y \div 4 - y \div 100)
MonthStart(mp) == (153 * mp + 2) \div 5

\* The February that ends year y of an era has a leap day.
LeapAfter(y) == (y + 1) % 4 = 0 /\ ((y + 1) % 100 = 0 => y = 399)

YearDays(y)      == IF LeapAfter(y) THEN 366 ELSE 365
MonthDays(y, mp) ==
  IF mp = 11 THEN YearDays(y) - 337 ELSE MonthStart(mp + 1) - MonthStart(mp)

\* Day d is the k-th, from 0, of month mp of year y of an era.
Falls(d, era, y, mp, k) ==
  /\ era \in Int /\ y \in Int /\ mp \in Int /\ k \in Int
  /\ 0 <= y /\ y <= 399 /\ 0 <= mp /\ mp <= 11 /\ 0 <= k /\ k < MonthDays(y, mp)
  /\ Shifted(d) = 146097 * era + YearStart(y) + MonthStart(mp) + k

YearOf(era, y) == y + era * 400

DateOf(era, y, mp, k) ==
  [year  |-> YearOf(era, y) + (IF Month(mp) <= 2 THEN 1 ELSE 0),
   month |-> Month(mp),
   day   |-> k + 1]

-------------------------------------------------------------------------------
\* Years.

LEMMA YearDaysAre ==
  ASSUME NEW y \in Int, 0 <= y, y <= 399
  PROVE  /\ YearDays(y) \in Int /\ YearStart(y) \in Int
         /\ y < 399 => YearStart(y + 1) = YearStart(y) + YearDays(y)
         /\ y = 399 => YearStart(y) + YearDays(y) = 146097
<1>1. CASE LeapAfter(y)
  BY <1>1 DEF YearDays, YearStart, LeapAfter
<1>2. CASE ~LeapAfter(y)
  BY <1>2 DEF YearDays, YearStart, LeapAfter
<1> QED
  BY <1>1, <1>2

\* The code's year of a day of an era is the one that day is in.
LEMMA YearOfEraIs ==
  ASSUME NEW doe \in Int, 0 <= doe, doe <= 146096
  PROVE  LET y == YearOfEra(doe)
         IN  /\ y \in Int /\ 0 <= y /\ y <= 399
             /\ YearStart(y) <= doe /\ doe < YearStart(y) + YearDays(y)
<1> DEFINE y == YearOfEra(doe)
<1>1. y \in Int /\ 0 <= y /\ y <= 399 /\ YearStart(y) <= doe
  BY DEF YearOfEra, YearStart
<1>2. y < 399 => doe < YearStart(y + 1)
  BY DEF YearOfEra, YearStart
<1> HIDE DEF y
<1>3. doe < YearStart(y) + YearDays(y)
  BY <1>1, <1>2, YearDaysAre
<1> QED
  BY <1>1, <1>3 DEF y

\* A day of an era is in one year of it.
LEMMA YearUnique ==
  ASSUME NEW doe \in Int, NEW y \in Int, NEW z \in Int,
         0 <= y, y <= 399, YearStart(y) <= doe, doe < YearStart(y) + YearDays(y),
         0 <= z, z <= 399, YearStart(z) <= doe, doe < YearStart(z) + YearDays(z)
  PROVE  y = z
<1>1. ASSUME NEW u \in Int, NEW v \in Int, 0 <= u, u < v, v <= 399
      PROVE  YearStart(u) + YearDays(u) <= YearStart(v)
  <2>1. YearStart(u + 1) <= YearStart(v)
    BY <1>1 DEF YearStart
  <2> QED
    BY <1>1, <2>1, YearDaysAre
<1>2. CASE y < z
  BY <1>1, <1>2, YearDaysAre
<1>3. CASE z < y
  BY <1>1, <1>3, YearDaysAre
<1> QED
  BY <1>2, <1>3

-------------------------------------------------------------------------------
\* Months.

LEMMA MonthDaysAre ==
  ASSUME NEW y \in Int, NEW mp \in Int, 0 <= mp, mp <= 11
  PROVE  /\ MonthDays(y, mp) \in Int /\ MonthStart(mp) \in Int
         /\ 28 <= MonthDays(y, mp) /\ MonthDays(y, mp) <= 31
         /\ mp < 11 => MonthStart(mp + 1) = MonthStart(mp) + MonthDays(y, mp)
         /\ mp = 11 => MonthStart(mp) + MonthDays(y, mp) = YearDays(y)
         /\ mp = 0 => MonthStart(mp) = 0
<1>1. CASE mp = 11
  BY <1>1 DEF MonthDays, MonthStart, YearDays
<1>2. CASE mp < 11
  BY <1>2 DEF MonthDays, MonthStart
<1> QED
  BY <1>1, <1>2

LEMMA MonthBounds ==
  ASSUME NEW y \in Int, NEW mp \in Int, 0 <= mp, mp <= 11
  PROVE  MonthDays(y, mp) \in Int /\ 28 <= MonthDays(y, mp)
BY MonthDaysAre

\* A month's length depends on its year for the last month alone, February.
LEMMA MonthLength ==
  ASSUME NEW era \in Int, NEW y \in Int, NEW mp \in Int,
         0 <= y, y <= 399, 0 <= mp, mp <= 11, NEW k \in Int
  PROVE  /\ Length(DateOf(era, y, mp, k).year, Month(mp)) = MonthDays(y, mp)
         /\ Month(mp) \in Int /\ 1 <= Month(mp) /\ Month(mp) <= 12
<1>1. CASE mp = 11
  <2>1. Leap(y + era * 400 + 1) <=> LeapAfter(y)
    BY DEF Leap, LeapAfter
  <2> QED
    BY <1>1, <2>1 DEF Length, DateOf, YearOf, Month, MonthDays, YearDays
<1>2. CASE mp < 11
  <2>1. mp \in {0, 1, 2, 3, 4, 5, 6, 7, 8, 9, 10}
    BY <1>2
  <2> QED
    BY <2>1 DEF Length, Month, MonthDays, MonthStart
<1> QED
  BY <1>1, <1>2

\* The code's month of a day of a year is the one that day is in.
LEMMA MonthOfYearIs ==
  ASSUME NEW doy \in Int, NEW y \in Int, NEW mp \in Int, 0 <= mp, mp <= 11,
         MonthStart(mp) <= doy, doy < MonthStart(mp) + MonthDays(y, mp)
  PROVE  MonthOfYear(doy) = mp
<1>1. mp < 11 => doy < MonthStart(mp + 1)
  BY MonthDaysAre
<1>2. mp = 11 => doy < 366
  BY MonthDaysAre DEF YearDays
<1> QED
  BY <1>1, <1>2 DEF MonthStart, MonthOfYear

LEMMA MonthOf ==
  ASSUME NEW doy \in Int, NEW y \in Int, 0 <= doy, doy < YearDays(y)
  PROVE  LET mp == MonthOfYear(doy)
         IN  /\ mp \in Int /\ 0 <= mp /\ mp <= 11
             /\ MonthStart(mp) <= doy /\ doy < MonthStart(mp) + MonthDays(y, mp)
<1> DEFINE mp == MonthOfYear(doy)
<1>0. doy < 366
  BY DEF YearDays
<1>1. /\ mp \in Int /\ 0 <= mp /\ mp <= 11 /\ MonthStart(mp) <= doy
      /\ doy < MonthStart(mp + 1)
  BY <1>0 DEF MonthOfYear, MonthStart
<1> HIDE DEF mp
<1>2. doy < MonthStart(mp) + MonthDays(y, mp)
  BY <1>1, MonthDaysAre
<1> QED
  BY <1>1, <1>2 DEF mp

-------------------------------------------------------------------------------
\* Days.

\* A month is in its year, and a year in its era.
LEMMA Within ==
  ASSUME NEW y \in Int, NEW mp \in Int, 0 <= y, y <= 399, 0 <= mp, mp <= 11
  PROVE  /\ YearStart(y) \in Int /\ 0 <= YearStart(y)
         /\ YearDays(y) \in Int /\ YearStart(y) + YearDays(y) <= 146097
         /\ MonthStart(mp) \in Int /\ 0 <= MonthStart(mp)
         /\ MonthDays(y, mp) \in Int /\ MonthStart(mp) + MonthDays(y, mp) <= YearDays(y)
<1>1. /\ YearStart(y) \in Int /\ 0 <= YearStart(y)
      /\ YearDays(y) \in Int /\ YearStart(y) + YearDays(y) <= 146097
  BY DEF YearStart, YearDays, LeapAfter
<1>2. MonthStart(mp) \in Int /\ 0 <= MonthStart(mp)
  BY DEF MonthStart
<1>3. MonthDays(y, mp) \in Int /\ MonthStart(mp) + MonthDays(y, mp) <= YearDays(y)
  <2>1. CASE mp = 11
    BY <2>1 DEF MonthStart, MonthDays, YearDays
  <2>2. CASE mp < 11
    BY <2>2 DEF MonthStart, MonthDays, YearDays
  <2> QED
    BY <2>1, <2>2
<1> QED
  BY <1>1, <1>2, <1>3

\* The code takes every day apart as the calendar has it.
LEMMA CivilFalls ==
  ASSUME NEW d \in Int
  PROVE  \E era, y, mp, k \in Int : Falls(d, era, y, mp, k) /\ Civil(d) = DateOf(era, y, mp, k)
<1> DEFINE doe == DayOfEra(d)
           y   == YearOfEra(doe)
           doy == DayOfYear(d)
           mp  == MonthOfYear(doy)
           k   == doy - MonthStart(mp)
<1>1. /\ doe \in Int /\ 0 <= doe /\ doe <= 146096
      /\ Era(d) \in Int /\ Shifted(d) = 146097 * Era(d) + doe
  BY DEF DayOfEra, Era, Shifted
<1>2. /\ y \in Int /\ 0 <= y /\ y <= 399
      /\ YearStart(y) <= doe /\ doe < YearStart(y) + YearDays(y)
  BY <1>1, YearOfEraIs
<1>3. doy = doe - YearStart(y)
  BY <1>1, <1>2 DEF DayOfYear, YearStart
<1>4. YearStart(y) \in Int /\ YearDays(y) \in Int
  BY <1>2 DEF YearStart, YearDays
<1>5. doy \in Int /\ 0 <= doy /\ doy < YearDays(y)
  <2> HIDE DEF doe, y, doy
  <2> QED
    BY <1>1, <1>2, <1>3, <1>4
<1>6. /\ mp \in Int /\ 0 <= mp /\ mp <= 11
      /\ MonthStart(mp) <= doy /\ doy < MonthStart(mp) + MonthDays(y, mp)
  <2> HIDE DEF doe, y, doy
  <2> QED
    BY <1>2, <1>5, MonthOf
<1>7. MonthStart(mp) \in Int /\ MonthDays(y, mp) \in Int
  <2> HIDE DEF doe, y, doy, mp
  <2> QED
    BY <1>2, <1>6, Within
<1>8. Falls(d, Era(d), y, mp, k)
  <2> HIDE DEF doe, y, doy, mp
  <2> QED
    BY <1>1, <1>2, <1>3, <1>4, <1>5, <1>6, <1>7 DEF Falls
<1>9. Civil(d) = DateOf(Era(d), y, mp, k)
  BY DEF Civil, DateOf, YearOf, MonthStart
<1> QED
  BY <1>8, <1>9 DEF Falls

LEMMA FallsOnce ==
  ASSUME NEW d \in Int,
         NEW e1, NEW y1, NEW m1, NEW k1, Falls(d, e1, y1, m1, k1),
         NEW e2, NEW y2, NEW m2, NEW k2, Falls(d, e2, y2, m2, k2)
  PROVE  e1 = e2 /\ y1 = y2 /\ m1 = m2 /\ k1 = k2
<1> DEFINE doy1 == MonthStart(m1) + k1
           doy2 == MonthStart(m2) + k2
           doe1 == YearStart(y1) + doy1
           doe2 == YearStart(y2) + doy2
<1>1. /\ e1 \in Int /\ y1 \in Int /\ m1 \in Int /\ k1 \in Int
      /\ 0 <= y1 /\ y1 <= 399 /\ 0 <= m1 /\ m1 <= 11 /\ 0 <= k1 /\ k1 < MonthDays(y1, m1)
      /\ Shifted(d) = 146097 * e1 + YearStart(y1) + MonthStart(m1) + k1
  BY DEF Falls
<1>2. /\ e2 \in Int /\ y2 \in Int /\ m2 \in Int /\ k2 \in Int
      /\ 0 <= y2 /\ y2 <= 399 /\ 0 <= m2 /\ m2 <= 11 /\ 0 <= k2 /\ k2 < MonthDays(y2, m2)
      /\ Shifted(d) = 146097 * e2 + YearStart(y2) + MonthStart(m2) + k2
  BY DEF Falls
<1>3. /\ YearStart(y1) \in Int /\ 0 <= YearStart(y1)
      /\ YearDays(y1) \in Int /\ YearStart(y1) + YearDays(y1) <= 146097
      /\ MonthStart(m1) \in Int /\ 0 <= MonthStart(m1)
      /\ MonthDays(y1, m1) \in Int /\ MonthStart(m1) + MonthDays(y1, m1) <= YearDays(y1)
  BY <1>1, Within
<1>4. /\ YearStart(y2) \in Int /\ 0 <= YearStart(y2)
      /\ YearDays(y2) \in Int /\ YearStart(y2) + YearDays(y2) <= 146097
      /\ MonthStart(m2) \in Int /\ 0 <= MonthStart(m2)
      /\ MonthDays(y2, m2) \in Int /\ MonthStart(m2) + MonthDays(y2, m2) <= YearDays(y2)
  BY <1>2, Within
<1>5. /\ doy1 \in Int /\ MonthStart(m1) <= doy1 /\ doy1 < MonthStart(m1) + MonthDays(y1, m1)
      /\ doe1 \in Int /\ 0 <= doe1 /\ doe1 < 146097
      /\ YearStart(y1) <= doe1 /\ doe1 < YearStart(y1) + YearDays(y1)
      /\ Shifted(d) = 146097 * e1 + doe1
  BY <1>1, <1>3
<1>6. /\ doy2 \in Int /\ MonthStart(m2) <= doy2 /\ doy2 < MonthStart(m2) + MonthDays(y2, m2)
      /\ doe2 \in Int /\ 0 <= doe2 /\ doe2 < 146097
      /\ YearStart(y2) <= doe2 /\ doe2 < YearStart(y2) + YearDays(y2)
      /\ Shifted(d) = 146097 * e2 + doe2
  BY <1>2, <1>4
<1> HIDE DEF doe1, doe2, doy1, doy2
<1>7. e1 = e2 /\ doe1 = doe2
  BY <1>1, <1>2, <1>5, <1>6
<1>8. y1 = y2
  BY <1>1, <1>2, <1>5, <1>6, <1>7, YearUnique
<1>9. doy1 = doy2
  BY <1>3, <1>5, <1>6, <1>7, <1>8 DEF doe1, doe2
<1>10. MonthOfYear(doy1) = m1
  BY <1>1, <1>5, MonthOfYearIs
<1>11. MonthOfYear(doy2) = m2
  BY <1>2, <1>6, MonthOfYearIs
<1>12. m1 = m2
  BY <1>9, <1>10, <1>11
<1>13. k1 = k2
  BY <1>1, <1>2, <1>3, <1>9, <1>12 DEF doy1, doy2
<1> QED
  BY <1>7, <1>8, <1>12, <1>13

\* So it writes the date of the place a day falls on.
LEMMA CivilIs ==
  ASSUME NEW d \in Int, NEW era, NEW y, NEW mp, NEW k, Falls(d, era, y, mp, k)
  PROVE  Civil(d) = DateOf(era, y, mp, k)
<1>1. PICK e2, y2, m2, k2 \in Int :
        Falls(d, e2, y2, m2, k2) /\ Civil(d) = DateOf(e2, y2, m2, k2)
  BY CivilFalls
<1>2. era = e2 /\ y = y2 /\ mp = m2 /\ k = k2
  BY <1>1, FallsOnce
<1> QED
  BY <1>1, <1>2

\* A date is its parts, and so is a date with some of them replaced.
Dates == [year : Int, month : Int, day : Int]

LEMMA SameDate ==
  ASSUME NEW a \in Dates, NEW b \in Dates, a.year = b.year, a.month = b.month, a.day = b.day
  PROVE  a = b
BY DEF Dates

Moved(t, m, n) == [t EXCEPT !.month = m, !.day = n]

LEMMA MovedIs ==
  ASSUME NEW t \in Dates, NEW m \in Int, NEW n \in Int
  PROVE  /\ Moved(t, m, n) \in Dates /\ Moved(t, m, n).year = t.year
         /\ Moved(t, m, n).month = m /\ Moved(t, m, n).day = n
BY DEF Dates, Moved

\* The calendar's steps, by the parts of a date.
LEMMA AfterIs ==
  ASSUME NEW t \in Dates
  PROVE  LET u == After(t)
         IN  /\ u \in Dates
             /\ t.day < Length(t.year, t.month) =>
                  u.year = t.year /\ u.month = t.month /\ u.day = t.day + 1
             /\ ~(t.day < Length(t.year, t.month)) /\ t.month < 12 =>
                  u.year = t.year /\ u.month = t.month + 1 /\ u.day = 1
             /\ ~(t.day < Length(t.year, t.month)) /\ t.month = 12 =>
                  u.year = t.year + 1 /\ u.month = 1 /\ u.day = 1
<1>1. CASE t.day < Length(t.year, t.month)
  BY <1>1 DEF After, Dates
<1>2. CASE ~(t.day < Length(t.year, t.month)) /\ t.month < 12
  <2>1. After(t) = Moved(t, t.month + 1, 1)
    BY <1>2 DEF After, Moved
  <2>2. t.month + 1 \in Int
    BY DEF Dates
  <2>3. /\ After(t) \in Dates
        /\ After(t).year = t.year /\ After(t).month = t.month + 1 /\ After(t).day = 1
    BY <2>1, <2>2, MovedIs
  <2> QED
    BY <1>2, <2>3
<1>3. CASE ~(t.day < Length(t.year, t.month)) /\ ~(t.month < 12)
  BY <1>3 DEF After, Dates
<1> QED
  BY <1>1, <1>2, <1>3

LEMMA BeforeIs ==
  ASSUME NEW t \in Dates
  PROVE  LET u == Before(t)
         IN  /\ u \in Dates
             /\ t.day > 1 => u.year = t.year /\ u.month = t.month /\ u.day = t.day - 1
             /\ t.day = 1 /\ t.month > 1 =>
                  /\ u.year = t.year /\ u.month = t.month - 1
                  /\ u.day = Length(t.year, t.month - 1)
             /\ t.day = 1 /\ t.month = 1 =>
                  u.year = t.year - 1 /\ u.month = 12 /\ u.day = 31
<1>1. Length(t.year, t.month - 1) \in Int
  BY DEF Length
<1>2. CASE t.day > 1
  BY <1>2 DEF Before, Dates
<1>3. CASE ~(t.day > 1) /\ t.month > 1
  <2>1. Before(t) = Moved(t, t.month - 1, Length(t.year, t.month - 1))
    BY <1>3 DEF Before, Moved
  <2>2. t.month - 1 \in Int
    BY DEF Dates
  <2>3. /\ Before(t) \in Dates
        /\ Before(t).year = t.year /\ Before(t).month = t.month - 1
        /\ Before(t).day = Length(t.year, t.month - 1)
    BY <1>1, <2>1, <2>2, MovedIs
  <2> QED
    BY <1>3, <2>3
<1>4. CASE ~(t.day > 1) /\ ~(t.month > 1)
  BY <1>4 DEF Before, Dates
<1> QED
  BY <1>2, <1>3, <1>4

Parts(t, era, y, mp, k) ==
  /\ t \in Dates /\ t.day = k + 1
  /\ mp <= 9 => t.month = mp + 3 /\ t.year = YearOf(era, y)
  /\ mp >= 10 => t.month = mp - 9 /\ t.year = YearOf(era, y) + 1

LEMMA DateOfIs ==
  ASSUME NEW era \in Int, NEW y \in Int, NEW mp \in Int, NEW k \in Int, 0 <= mp, mp <= 11
  PROVE  Parts(DateOf(era, y, mp, k), era, y, mp, k)
<1>1. YearOf(era, y) \in Int
  BY DEF YearOf
<1> QED
  BY <1>1 DEF Parts, DateOf, Dates, Month

\* One more day is the calendar's next date, and the day before its previous one.
LEMMA NextDay ==
  ASSUME NEW d \in Int
  PROVE  Civil(d + 1) = After(Civil(d)) /\ Civil(d) = Before(Civil(d + 1))
<1>1. PICK era, y, mp, k \in Int :
        Falls(d, era, y, mp, k) /\ Civil(d) = DateOf(era, y, mp, k)
  BY CivilFalls
<1>2. /\ d + 1 \in Int /\ Shifted(d + 1) = Shifted(d) + 1 /\ Shifted(d) \in Int
      /\ era \in Int /\ y \in Int /\ mp \in Int /\ k \in Int
      /\ 0 <= y /\ y <= 399 /\ 0 <= mp /\ mp <= 11 /\ 0 <= k /\ k < MonthDays(y, mp)
  BY <1>1 DEF Shifted, Falls
<1>0. Shifted(d) = 146097 * era + YearStart(y) + MonthStart(mp) + k
  BY <1>1 DEF Falls
<1>3. /\ YearStart(y) \in Int /\ YearDays(y) \in Int
      /\ y < 399 => YearStart(y + 1) = YearStart(y) + YearDays(y)
      /\ y = 399 => YearStart(y) + YearDays(y) = 146097
  BY <1>2, YearDaysAre
<1>4. /\ MonthDays(y, mp) \in Int /\ MonthStart(mp) \in Int
      /\ mp < 11 => MonthStart(mp + 1) = MonthStart(mp) + MonthDays(y, mp)
      /\ mp = 11 => MonthStart(mp) + MonthDays(y, mp) = YearDays(y)
  BY <1>2, MonthDaysAre
<1>5. /\ Length(DateOf(era, y, mp, k).year, Month(mp)) = MonthDays(y, mp)
      /\ Month(mp) \in Int /\ 1 <= Month(mp) /\ Month(mp) <= 12
  BY <1>2, MonthLength
<1>6. YearStart(0) = 0 /\ MonthStart(0) = 0
  BY DEF YearStart, MonthStart
<1>y. /\ YearOf(era, y) \in Int /\ YearOf(era, y + 1) = YearOf(era, y) + 1
      /\ y = 399 => YearOf(era + 1, 0) = YearOf(era, y) + 1
  BY <1>2 DEF YearOf
<1> DEFINE today    == DateOf(era, y, mp, k)
           tomorrow == Civil(d + 1)
<1>7. Parts(today, era, y, mp, k)
  BY <1>2, DateOfIs
<1>8. today.month = Month(mp) /\ Length(today.year, today.month) = MonthDays(y, mp)
  BY <1>5 DEF DateOf
<1> HIDE DEF today, tomorrow
\* Which date follows, by its parts.
<1>9. /\ tomorrow \in Dates
      /\ k + 1 < MonthDays(y, mp) =>
           /\ tomorrow.year = today.year /\ tomorrow.month = today.month
           /\ tomorrow.day = k + 2
      /\ k + 1 = MonthDays(y, mp) /\ mp # 9 =>
           /\ tomorrow.year = today.year /\ tomorrow.month = today.month + 1
           /\ tomorrow.day = 1
      /\ k + 1 = MonthDays(y, mp) /\ mp = 9 =>
           /\ tomorrow.year = today.year + 1 /\ tomorrow.month = 1
           /\ tomorrow.day = 1
  <2>1. CASE k + 1 < MonthDays(y, mp)
    <3>1. Falls(d + 1, era, y, mp, k + 1)
      BY <1>0, <1>2, <1>3, <1>4, <2>1 DEF Falls
    <3>2. tomorrow = DateOf(era, y, mp, k + 1)
      BY <1>2, <3>1, CivilIs DEF tomorrow
    <3>3. k + 1 \in Int
      BY <1>2
    <3>4. Parts(tomorrow, era, y, mp, k + 1)
      BY <1>2, <3>2, <3>3, DateOfIs
    <3> QED
      BY <1>2, <1>7, <1>y, <2>1, <3>4 DEF Parts
  <2>2. CASE k + 1 = MonthDays(y, mp) /\ mp < 11
    <3>1. mp + 1 \in Int /\ MonthDays(y, mp + 1) \in Int /\ 28 <= MonthDays(y, mp + 1)
      BY <1>2, <2>2, MonthBounds
    <3>2. Falls(d + 1, era, y, mp + 1, 0)
      BY <1>0, <1>2, <1>3, <1>4, <2>2, <3>1 DEF Falls
    <3>3. tomorrow = DateOf(era, y, mp + 1, 0)
      BY <1>2, <3>2, CivilIs DEF tomorrow
    <3>4. 0 <= mp + 1 /\ mp + 1 <= 11
      BY <1>2, <2>2
    <3>5. Parts(tomorrow, era, y, mp + 1, 0)
      BY <1>2, <3>1, <3>3, <3>4, DateOfIs
    <3> QED
      BY <1>2, <1>7, <1>y, <2>2, <3>5 DEF Parts
  <2>3. CASE k + 1 = MonthDays(y, mp) /\ mp = 11 /\ y < 399
    <3>1. y + 1 \in Int /\ MonthDays(y + 1, 0) \in Int /\ 28 <= MonthDays(y + 1, 0)
      BY <1>2, MonthBounds
    <3>2. Falls(d + 1, era, y + 1, 0, 0)
      BY <1>0, <1>2, <1>3, <1>4, <1>6, <2>3, <3>1 DEF Falls
    <3>3. tomorrow = DateOf(era, y + 1, 0, 0)
      BY <1>2, <3>2, CivilIs DEF tomorrow
    <3>4. Parts(tomorrow, era, y + 1, 0, 0)
      BY <1>2, <3>1, <3>3, DateOfIs
    <3> QED
      BY <1>2, <1>7, <1>y, <2>3, <3>4 DEF Parts
  <2>4. CASE k + 1 = MonthDays(y, mp) /\ mp = 11 /\ y = 399
    <3>1. era + 1 \in Int /\ MonthDays(0, 0) \in Int /\ 28 <= MonthDays(0, 0)
      BY <1>2, MonthBounds
    <3>2. Falls(d + 1, era + 1, 0, 0, 0)
      BY <1>0, <1>2, <1>3, <1>4, <1>6, <2>4, <3>1 DEF Falls
    <3>3. tomorrow = DateOf(era + 1, 0, 0, 0)
      BY <1>2, <3>2, CivilIs DEF tomorrow
    <3>4. Parts(tomorrow, era + 1, 0, 0, 0)
      BY <3>1, <3>3, DateOfIs
    <3> QED
      BY <1>2, <1>7, <1>y, <2>4, <3>4 DEF Parts
  <2> QED
    BY <1>2, <1>4, <2>1, <2>2, <2>3, <2>4
\* Today's month is a month the calendar turns as the code's count does.
<1>10. /\ k + 1 = MonthDays(y, mp) => ~(today.day < Length(today.year, today.month))
       /\ mp # 9 => today.month < 12
       /\ mp = 9 => today.month = 12 /\ MonthDays(y, mp) = 31
       /\ today.year \in Int /\ today.month \in Int /\ today.day \in Int
       /\ 1 <= today.month /\ today.day = k + 1
       /\ k + 1 <= MonthDays(y, mp) /\ Length(today.year, today.month) = MonthDays(y, mp)
  <2>1. mp = 9 => MonthDays(y, mp) = 31
    BY DEF MonthDays, MonthStart
  <2>2. today.year \in Int /\ today.month \in Int /\ today.day \in Int
    BY <1>7 DEF Parts, Dates
  <2> QED
    BY <1>2, <1>4, <1>7, <1>8, <2>1, <2>2 DEF Parts
<1>11. tomorrow.year \in Int /\ tomorrow.month \in Int /\ tomorrow.day \in Int
  BY <1>9 DEF Dates
<1>12. tomorrow = After(today)
  <2> DEFINE u == After(today)
  <2>1. /\ u \in Dates
        /\ today.day < Length(today.year, today.month) =>
             u.year = today.year /\ u.month = today.month /\ u.day = today.day + 1
        /\ ~(today.day < Length(today.year, today.month)) /\ today.month < 12 =>
             u.year = today.year /\ u.month = today.month + 1 /\ u.day = 1
        /\ ~(today.day < Length(today.year, today.month)) /\ today.month = 12 =>
             u.year = today.year + 1 /\ u.month = 1 /\ u.day = 1
    BY <1>7, AfterIs DEF Parts
  <2> HIDE DEF u
  <2>2. tomorrow.year = u.year /\ tomorrow.month = u.month /\ tomorrow.day = u.day
    BY <1>2, <1>4, <1>9, <1>10, <2>1
  <2>3. tomorrow = u
    BY <1>9, <2>1, <2>2, SameDate
  <2> QED
    BY <2>3 DEF u
<1>13. today = Before(tomorrow)
  <2> DEFINE u == Before(tomorrow)
  <2>1. /\ u \in Dates
        /\ tomorrow.day > 1 =>
             u.year = tomorrow.year /\ u.month = tomorrow.month /\ u.day = tomorrow.day - 1
        /\ tomorrow.day = 1 /\ tomorrow.month > 1 =>
             /\ u.year = tomorrow.year /\ u.month = tomorrow.month - 1
             /\ u.day = Length(tomorrow.year, tomorrow.month - 1)
        /\ tomorrow.day = 1 /\ tomorrow.month = 1 =>
             u.year = tomorrow.year - 1 /\ u.month = 12 /\ u.day = 31
    BY <1>9, BeforeIs
  <2> HIDE DEF u
  <2>2. k + 1 = MonthDays(y, mp) /\ mp # 9 =>
          Length(tomorrow.year, tomorrow.month - 1) = MonthDays(y, mp)
    <3>1. k + 1 = MonthDays(y, mp) /\ mp # 9 =>
            tomorrow.year = today.year /\ tomorrow.month - 1 = today.month
      BY <1>9, <1>10
    <3> QED
      BY <1>10, <3>1
  <2>3. today.year = u.year /\ today.month = u.month /\ today.day = u.day
    BY <1>2, <1>4, <1>9, <1>10, <1>11, <2>1, <2>2
  <2>4. today = u
    BY <1>7, <2>1, <2>3, SameDate DEF Parts
  <2> QED
    BY <2>4 DEF u
<1> QED
  BY <1>1, <1>12, <1>13 DEF today, tomorrow

LEMMA Epoch == Civil(0) = [year |-> 1970, month |-> 1, day |-> 1]
<1>1. Falls(0, 4, 369, 10, 0)
  BY DEF Falls, Shifted, YearStart, MonthStart, MonthDays
<1>2. Civil(0) = DateOf(4, 369, 10, 0)
  BY <1>1, CivilIs
<1>3. DateOf(4, 369, 10, 0) = [year |-> 1970, month |-> 1, day |-> 1]
  BY DEF DateOf, YearOf, Month
<1> QED
  BY <1>2, <1>3

-------------------------------------------------------------------------------
\* On every day walked to, however far, the date written is the calendar's
\* (plain.rs:34-47).
THEOREM WritesTheCalendar == Spec => []CivilIsCalendar
<1> DEFINE IInv == days \in Int /\ CivilIsCalendar
<1>1. Init => IInv
  BY Epoch DEF Init, CivilIsCalendar
<1>2. IInv /\ [Next]_vars => IInv'
  <2> SUFFICES ASSUME IInv, [Next]_vars PROVE IInv'
    OBVIOUS
  <2>1. CASE Tomorrow
    BY <2>1, NextDay DEF Tomorrow, CivilIsCalendar
  <2>2. CASE Yesterday
    <3>1. days' \in Int /\ days = days' + 1
      BY <2>2 DEF Yesterday
    <3> QED
      BY <2>2, <3>1, NextDay DEF Yesterday, CivilIsCalendar
  <2>3. CASE UNCHANGED vars
    BY <2>3 DEF vars, CivilIsCalendar
  <2> QED
    BY <2>1, <2>2, <2>3 DEF Next
<1> QED
  BY <1>1, <1>2, PTL DEF Spec

===============================================================================
