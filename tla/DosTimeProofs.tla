---------------------------- MODULE DosTimeProofs ----------------------------
(***************************************************************************)
(* Proofs about the clock and file times (DosTime), for every calendar     *)
(* without leap years, every length of the day and of the hour of summer   *)
(* time, and all months of summer time.                                    *)
(***************************************************************************)
EXTENDS DosTime, TLAPS, WellFoundedInduction

-----------------------------------------------------------------------------
(* Arithmetic.                                                             *)

LEMMA Product ==
  ASSUME NEW a \in Nat, NEW b \in Nat
  PROVE  a * b \in Nat
  OBVIOUS

LEMMA ProductMonotonic ==
  ASSUME NEW a \in Int, NEW b \in Int, NEW c \in Nat, a <= b
  PROVE  a * c \in Int /\ b * c \in Int /\ a * c <= b * c
<1>1. (b - a) * c >= 0
  OBVIOUS
<1>2. (b - a) * c = b * c - a * c
  OBVIOUS
<1> QED
  BY <1>1, <1>2

(* Division with remainder, and that it is unique.                         *)
LEMMA IntDivision ==
  ASSUME NEW x \in Int, NEW n \in Nat \ {0}
  PROVE  /\ x \div n \in Int /\ x % n \in 0..n-1
         /\ x = (x \div n) * n + (x % n)
  OBVIOUS

LEMMA IntDivisionUnique ==
  ASSUME NEW q \in Int, NEW n \in Nat \ {0}, NEW r \in 0..n-1
  PROVE  /\ q * n + r \in Int
         /\ (q * n + r) \div n = q /\ (q * n + r) % n = r
<1> DEFINE x == q * n + r
<1>1. x \in Int /\ q * n \in Int
  OBVIOUS
<1>2. PICK p \in Int, s \in 0..n-1 : p = x \div n /\ s = x % n /\ x = p * n + s
  BY <1>1, IntDivision
<1>3. ASSUME p < q PROVE FALSE
  <2>1. (p + 1) * n <= q * n /\ (p + 1) * n = p * n + n /\ p * n \in Int
    BY <1>3, ProductMonotonic
  <2> QED
    BY <1>1, <1>2, <2>1
<1>4. ASSUME q < p PROVE FALSE
  <2>1. (q + 1) * n <= p * n /\ (q + 1) * n = q * n + n /\ p * n \in Int
    BY <1>4, ProductMonotonic
  <2> QED
    BY <1>1, <1>2, <2>1
<1>5. p = q
  BY <1>3, <1>4
<1>6. s = r
  BY <1>1, <1>2, <1>5
<1> QED
  BY <1>1, <1>2, <1>5, <1>6

LEMMA Division ==
  ASSUME NEW x \in Nat, NEW n \in Nat \ {0}
  PROVE  /\ x \div n \in Nat /\ x % n \in 0..n-1
         /\ x = (x \div n) * n + (x % n)
  OBVIOUS

LEMMA DivisionUnique ==
  ASSUME NEW q \in Nat, NEW n \in Nat \ {0}, NEW r \in 0..n-1
  PROVE  /\ q * n + r \in Nat
         /\ (q * n + r) \div n = q /\ (q * n + r) % n = r
<1>1. q \in Int /\ q * n \in Nat /\ r \in Nat
  BY Product
<1>2. (q * n + r) \div n = q /\ (q * n + r) % n = r
  BY <1>1, IntDivisionUnique, Zenon
<1> QED
  BY <1>1, <1>2

LEMMA RemainderShift ==
  ASSUME NEW x \in Int, NEW k \in Int, NEW n \in Nat \ {0}
  PROVE  ((x % n) - k) % n = (x - k) % n
<1>1. PICK q \in Int, r \in 0..n-1 : x = q * n + r /\ r = x % n
  BY IntDivision
<1>2. x - k \in Int
  OBVIOUS
<1>3. PICK p \in Int, s \in 0..n-1 : x - k = p * n + s /\ s = (x - k) % n
  BY <1>2, IntDivision
<1>4. r - k = (p - q) * n + s /\ p - q \in Int
  <2>1. (p - q) * n = p * n - q * n /\ p * n \in Int /\ q * n \in Int
    OBVIOUS
  <2> QED
    BY <1>1, <1>3, <2>1
<1>5. ((p - q) * n + s) % n = s
  BY <1>4, IntDivisionUnique, Zenon
<1> QED
  BY <1>1, <1>3, <1>4, <1>5, Zenon

(* A set of integers with a bound has a maximum.                           *)
LEMMA MaxOfBounded ==
  ASSUME NEW S \in SUBSET Nat, S # {}, NEW bound \in Nat, \A x \in S : x <= bound
  PROVE  Max(S) \in S /\ \A x \in S : Max(S) >= x
<1> DEFINE T == { bound - x : x \in S }
<1>1. T \subseteq Nat /\ T # {}
  OBVIOUS
<1>2. PICK t \in T : \A u \in T : ~ (<<u, t>> \in OpToRel(<, Nat))
  BY <1>1, WFMin, NatLessThanWellFounded, Zenon
<1>3. \A u \in T : ~ (u < t)
  BY <1>1, <1>2 DEF OpToRel
<1>4. PICK x \in S : t = bound - x
  OBVIOUS
<1>5. ASSUME NEW y \in S PROVE x >= y
  <2>1. bound - y \in T /\ x \in Nat /\ y \in Nat
    OBVIOUS
  <2>2. ~ (bound - y < t)
    BY <1>3, <2>1
  <2> QED
    BY <1>4, <2>1, <2>2
<1> QED
  BY <1>4, <1>5 DEF Max

-----------------------------------------------------------------------------
(* The calendar.                                                           *)

LEMMA CalendarFacts ==
  /\ YearDays \in Nat \ {0} /\ YearLength \in Nat \ {0}
  /\ YearLength = YearDays * DayLength /\ DayLength <= YearLength
  /\ 1 \in Months /\ DaysBefore[1] = 0
  /\ \A m \in Months :
       /\ m \in Nat /\ DaysBefore[m] \in Nat
       /\ DaysBefore[m + 1] \in Nat /\ DaysBefore[m] < DaysBefore[m + 1]
       /\ DaysBefore[m + 1] <= YearDays
       /\ MonthDays[m] = DaysBefore[m + 1] - DaysBefore[m]
  /\ \A m, n \in Months : m < n => DaysBefore[m + 1] <= DaysBefore[n]
<1>1. PICK n \in Nat : n = Len(DaysBefore) - 1 /\ n > 0 /\ DOMAIN DaysBefore = 1..n+1
  BY CalendarAssumption
<1>2. \A m \in 1..n+1 : DaysBefore[m] \in Nat
  BY <1>1, CalendarAssumption
<1>3. \A l, m \in 1..n+1 : l < m => DaysBefore[l] < DaysBefore[m]
  BY <1>1, CalendarAssumption
<1>4. Months = 1..n /\ YearDays = DaysBefore[n + 1] /\ DaysBefore[1] = 0
  BY <1>1, CalendarAssumption DEF Months, YearDays
<1>5. YearDays \in Nat \ {0}
  BY <1>1, <1>2, <1>3, <1>4
<1>6. YearLength \in Nat \ {0} /\ DayLength <= YearLength
  <2>1. 1 * DayLength <= YearDays * DayLength
    BY <1>5, ProductMonotonic, DayAssumption
  <2> QED
    BY <1>5, <2>1, Product, DayAssumption DEF YearLength
<1>7. ASSUME NEW m \in Months
      PROVE  /\ m \in Nat /\ DaysBefore[m] \in Nat
             /\ DaysBefore[m + 1] \in Nat /\ DaysBefore[m] < DaysBefore[m + 1]
             /\ DaysBefore[m + 1] <= YearDays
             /\ MonthDays[m] = DaysBefore[m + 1] - DaysBefore[m]
  <2>1. m \in 1..n+1 /\ m + 1 \in 1..n+1 /\ m < m + 1 /\ (m + 1 = n + 1 \/ m + 1 < n + 1)
    BY <1>4
  <2> QED
    BY <1>2, <1>3, <1>4, <2>1 DEF MonthDays
<1>8. ASSUME NEW l \in Months, NEW m \in Months, l < m PROVE DaysBefore[l + 1] <= DaysBefore[m]
  <2>1. l + 1 \in 1..n+1 /\ m \in 1..n+1 /\ (l + 1 = m \/ l + 1 < m)
    BY <1>4, <1>8
  <2> QED
    BY <1>2, <1>3, <2>1
<1> QED
  BY <1>1, <1>4, <1>5, <1>6, <1>7, <1>8 DEF YearLength

(* The month of a day of the year, counted from 0.                         *)
MonthOf(day) == Max({ m \in Months : DaysBefore[m] <= day })

LEMMA MonthOfDay ==
  ASSUME NEW m \in Months, NEW day \in Nat, DaysBefore[m] <= day, day < DaysBefore[m + 1]
  PROVE  MonthOf(day) = m
<1> DEFINE S == { n \in Months : DaysBefore[n] <= day }
<1>1. m \in S
  OBVIOUS
<1>2. ASSUME NEW n \in S PROVE m >= n
  <2>1. ~ (m < n) /\ m \in Nat /\ n \in Nat
    BY <1>2, CalendarFacts
  <2> QED
    BY <2>1
<1>3. S \subseteq Nat
  BY CalendarFacts
<1>4. Max(S) \in S /\ \A n \in S : Max(S) >= n
  BY <1>1, <1>2, <1>3, CalendarFacts, MaxOfBounded
<1>5. Max(S) = m
  BY <1>1, <1>2, <1>3, <1>4
<1> QED
  BY <1>5 DEF MonthOf

LEMMA DayHasMonth ==
  ASSUME NEW day \in Nat, day < YearDays
  PROVE  /\ MonthOf(day) \in Months
         /\ DaysBefore[MonthOf(day)] <= day /\ day < DaysBefore[MonthOf(day) + 1]
<1> DEFINE S == { m \in Months : DaysBefore[m] <= day }
<1>1. PICK n \in Nat : Months = 1..n /\ YearDays = DaysBefore[n + 1]
  BY CalendarAssumption DEF Months, YearDays
<1>2. S \subseteq Nat /\ 1 \in S /\ \A m \in S : m <= n
  BY <1>1, CalendarFacts
<1>3. Max(S) \in S /\ \A m \in S : Max(S) >= m
  BY <1>2, MaxOfBounded
<1>4. PICK m \in Months : m = MonthOf(day) /\ DaysBefore[m] <= day /\ \A k \in S : m >= k
  BY <1>3 DEF MonthOf
<1>5. day < DaysBefore[m + 1]
  <2>1. CASE m = n
    BY <1>1, <2>1
  <2>2. CASE m # n
    <3>1. m + 1 \in Months /\ m + 1 \notin S
      BY <1>1, <1>4, <2>2
    <3> QED
      BY <3>1, CalendarFacts
  <2> QED
    BY <2>1, <2>2
<1> QED
  BY <1>4, <1>5

-----------------------------------------------------------------------------
(* DayAndTime and mktime are inverse, for the dates of the calendar.       *)

CalendarDates == { date \in Days : IsDate(date) }

(* mktime, by the days since the first day of the clock.                   *)
LEMMA MktimeDays ==
  ASSUME NEW date \in Days, NEW time \in Times
  PROVE  LET day == DaysBefore[date.month] + date.day - 1
         IN  /\ date.year \in Nat /\ date.month \in Months /\ day \in Nat /\ time \in Nat
             /\ time < DayLength
             /\ mktime(date, time) = (date.year * YearDays + day) * DayLength + time
             /\ mktime(date, time) = date.year * YearLength + (day * DayLength + time)
             /\ mktime(date, time) \in Nat
<1> DEFINE day == DaysBefore[date.month] + date.day - 1
<1>1. /\ date.year \in Nat /\ date.month \in Months /\ date.day \in Nat \ {0}
      /\ time \in Nat /\ time < DayLength /\ DayLength \in Nat
  BY DayAssumption DEF Days, Times
<1>2. day \in Nat /\ YearDays \in Nat /\ YearLength \in Nat /\ YearLength = YearDays * DayLength
  BY <1>1, CalendarFacts
<1>3. mktime(date, time) = date.year * YearLength + day * DayLength + time
  BY DEF mktime
<1> HIDE DEF day
<1>4. date.year * YearLength = (date.year * YearDays) * DayLength
  BY <1>1, <1>2
<1>5. date.year * YearDays \in Nat /\ date.year * YearLength \in Nat /\ day * DayLength \in Nat
  BY <1>1, <1>2, Product
<1>6. (date.year * YearDays + day) * DayLength = (date.year * YearDays) * DayLength + day * DayLength
  BY <1>1, <1>2, <1>5
<1> QED
  BY <1>1, <1>2, <1>3, <1>4, <1>5, <1>6 DEF day

LEMMA ShowsItsDate ==
  ASSUME NEW date \in CalendarDates, NEW time \in Times
  PROVE  DayAndTime(mktime(date, time)) = [date |-> date, time |-> time]
<1> DEFINE day == DaysBefore[date.month] + date.day - 1
           t == mktime(date, time)
<1>1. /\ date.year \in Nat /\ date.month \in Months /\ day \in Nat /\ time \in Nat
      /\ time < DayLength
      /\ t = (date.year * YearDays + day) * DayLength + time
      /\ t = date.year * YearLength + (day * DayLength + time)
  BY MktimeDays DEF CalendarDates
<1>2. /\ date \in [year : Nat, month : Months, day : Nat \ {0}]
      /\ date.day <= MonthDays[date.month]
  BY DEF CalendarDates, Days, IsDate
<1>3. /\ DaysBefore[date.month] <= day /\ day < DaysBefore[date.month + 1] /\ day < YearDays
      /\ day - DaysBefore[date.month] + 1 = date.day
  <2>1. PICK m \in Months, d \in Nat \ {0} : m = date.month /\ d = date.day /\ d <= MonthDays[m]
    BY <1>2
  <2>2. /\ DaysBefore[m] \in Nat /\ DaysBefore[m + 1] \in Nat /\ DaysBefore[m + 1] <= YearDays
        /\ MonthDays[m] = DaysBefore[m + 1] - DaysBefore[m] /\ YearDays \in Nat
    BY CalendarFacts
  <2> QED
    BY <2>1, <2>2
<1> HIDE DEF day, t
<1>4. day * DayLength + time \in 0..YearLength-1
  <2>1. (day + 1) * DayLength <= YearDays * DayLength /\ (day + 1) * DayLength = day * DayLength + DayLength
    BY <1>1, <1>3, ProductMonotonic, CalendarFacts, DayAssumption
  <2>2. day * DayLength \in Nat
    BY <1>1, Product, DayAssumption
  <2> QED
    BY <1>1, <2>1, <2>2, CalendarFacts, DayAssumption
<1>5. t \div YearLength = date.year /\ t % YearLength = day * DayLength + time
  <2>1. YearLength \in Nat \ {0}
    BY CalendarFacts
  <2>2. PICK r \in 0..YearLength-1 : r = day * DayLength + time
    BY <1>4
  <2>3. /\ (date.year * YearLength + r) \div YearLength = date.year
        /\ (date.year * YearLength + r) % YearLength = r
    BY <1>1, <2>1, DivisionUnique, Zenon
  <2> QED
    BY <1>1, <2>2, <2>3, Zenon
<1>6. DayLength \in Nat \ {0} /\ time \in 0..DayLength-1
  BY <1>1, DayAssumption
<1>7. (day * DayLength + time) \div DayLength = day
  BY <1>1, <1>6, DivisionUnique, Zenon
<1>8. t % DayLength = time
  <2>1. date.year * YearDays + day \in Nat
    BY <1>1, Product, CalendarFacts
  <2>2. ((date.year * YearDays + day) * DayLength + time) % DayLength = time
    BY <1>6, <2>1, DivisionUnique, Zenon
  <2> QED
    BY <1>1, <2>2, Zenon
<1>9. MonthOf(day) = date.month
  BY <1>1, <1>3, MonthOfDay
<1>10. DayAndTime(t) =
         [date |-> [year |-> date.year, month |-> date.month, day |-> date.day], time |-> time]
  BY <1>3, <1>5, <1>7, <1>8, <1>9 DEF DayAndTime, MonthOf
<1> QED
  BY <1>2, <1>10 DEF t

LEMMA ShowsADate ==
  ASSUME NEW t \in Nat
  PROVE  /\ DayAndTime(t).date \in CalendarDates /\ DayAndTime(t).time \in Times
         /\ DayAndTime(t).time = t % DayLength
         /\ mktime(DayAndTime(t).date, DayAndTime(t).time) = t
<1>1. PICK year \in Nat, r \in 0..YearLength-1 :
        year = t \div YearLength /\ r = t % YearLength /\ t = year * YearLength + r
  <2>1. YearLength \in Nat \ {0}
    BY CalendarFacts
  <2> QED
    BY <2>1, Division, Zenon
<1>2. PICK day \in Nat, time \in 0..DayLength-1 :
        day = r \div DayLength /\ time = r % DayLength /\ r = day * DayLength + time
  <2>1. DayLength \in Nat \ {0} /\ r \in Nat
    BY DayAssumption
  <2> QED
    BY <2>1, Division, Zenon
<1>3. day < YearDays
  <2>1. ASSUME YearDays <= day PROVE FALSE
    <3>1. YearDays * DayLength <= day * DayLength
      BY <2>1, ProductMonotonic, CalendarFacts, DayAssumption
    <3> QED
      BY <1>2, <3>1, CalendarFacts, Product, DayAssumption
  <2> QED
    BY <2>1, CalendarFacts
<1>4. PICK month \in Months :
        month = MonthOf(day) /\ DaysBefore[month] <= day /\ day < DaysBefore[month + 1]
  BY <1>3, DayHasMonth
<1> DEFINE date == [year |-> year, month |-> month, day |-> day - DaysBefore[month] + 1]
<1>5. date \in CalendarDates /\ time \in Times
  BY <1>4, CalendarFacts DEF CalendarDates, Days, IsDate, Times
<1>6. DaysBefore[date.month] + date.day - 1 = day
  BY <1>4, CalendarFacts
<1>7. mktime(date, time) = t
  <2>1. mktime(date, time) = year * YearLength + (day * DayLength + time)
    BY <1>5, <1>6, MktimeDays DEF CalendarDates
  <2> QED
    BY <1>1, <1>2, <2>1
<1> HIDE DEF date
<1>8. DayAndTime(t) = [date |-> date, time |-> time]
  BY <1>5, <1>7, ShowsItsDate
<1>9. t % DayLength = time
  BY <1>8 DEF DayAndTime
<1> QED
  BY <1>5, <1>7, <1>8, <1>9

-----------------------------------------------------------------------------
(* What the clock shows: its moment, an hour later in summer.              *)
Offset(t) == IF IsSummer(t) THEN Hour ELSE 0
Shown(t) == t + Offset(t)

LEMMA MomentsInside ==
  /\ Moments \subseteq FileMoments /\ FileMoments \subseteq Nat
  /\ \A year \in 0..DosYear+YearWord+1 : (year + 1) * YearLength \in FileMoments
<1>1. YearLength \in Nat \ {0} /\ DosYear + YearWord + 2 \in Nat
  BY CalendarFacts, YearAssumption
<1>2. ASSUME NEW year \in 0..DosYear+YearWord+1 PROVE (year + 1) * YearLength \in FileMoments
  <2>1. year + 1 \in Nat /\ year + 1 <= DosYear + YearWord + 2
    BY YearAssumption
  <2>2. (year + 1) * YearLength <= (DosYear + YearWord + 2) * YearLength
    BY <1>1, <2>1, ProductMonotonic
  <2> QED
    BY <1>1, <2>1, <2>2, Product DEF FileMoments
<1>3. (LastYear + 1) * YearLength \in FileMoments
  BY <1>2, YearAssumption
<1>4. FileMoments \subseteq Nat
  BY DEF FileMoments
<1>5. Moments \subseteq FileMoments
  BY <1>1, <1>3, YearAssumption DEF FileMoments, Moments
<1> QED
  BY <1>2, <1>4, <1>5

LEMMA ShownType ==
  ASSUME NEW t \in Nat
  PROVE  Offset(t) \in {0, Hour} /\ Hour \in Nat /\ Shown(t) \in Nat
  BY DayAssumption DEF Offset, Shown

LEMMA LocaltimeShows ==
  ASSUME NEW t \in FileMoments
  PROVE  localtime[t] = DayAndTime(Shown(t)) /\ Shown(t) \in Nat
<1>1. t \in Nat /\ Shown(t) \in Nat
  BY MomentsInside, ShownType
<1>2. t + 0 = t
  BY <1>1
<1> QED
  BY <1>1, <1>2 DEF localtime, Shown, Offset

(* Moments of one day show the same date.                                  *)
LEMMA SameDay ==
  ASSUME NEW t \in Nat, NEW n \in Nat, n <= t % DayLength
  PROVE  /\ t - n \in Nat
         /\ DayAndTime(t - n) = [date |-> DayAndTime(t).date, time |-> (t % DayLength) - n]
<1>1. PICK date \in CalendarDates, time \in Times :
        /\ date = DayAndTime(t).date /\ time = t % DayLength /\ mktime(date, time) = t
  BY ShowsADate
<1>2. time - n \in Times
  BY <1>1, DayAssumption DEF Times
<1>3. mktime(date, time - n) = mktime(date, time) - n
  <2>1. PICK x : x = (date.year * YearDays + (DaysBefore[date.month] + date.day - 1)) * DayLength
    OBVIOUS
  <2>2. x + time \in Nat /\ mktime(date, time) = x + time /\ mktime(date, time - n) = x + (time - n)
    BY <1>2, <2>1, MktimeDays DEF CalendarDates
  <2>3. x \in Int
    <3>1. /\ date.year * YearDays \in Nat /\ DayLength \in Nat
          /\ DaysBefore[date.month] + date.day - 1 \in Nat
      BY MktimeDays, <1>2, CalendarFacts, DayAssumption, Product DEF CalendarDates
    <3> QED
      BY <2>1, <3>1, Product
  <2> QED
    BY <1>2, <2>2, <2>3 DEF Times
<1>4. DayAndTime(mktime(date, time - n)) = [date |-> date, time |-> time - n]
  BY <1>2, ShowsItsDate
<1>5. t - n \in Nat
  BY <1>1, <1>2, <1>3, MktimeDays DEF CalendarDates
<1> QED
  BY <1>1, <1>3, <1>4, <1>5

-----------------------------------------------------------------------------
(* The stamps of files.                                                    *)

LEMMA MonthsBounded ==
  /\ Max({ MonthDays[m] : m \in Months }) \in Nat
  /\ \A m \in Months : MonthDays[m] <= Max({ MonthDays[n] : n \in Months })
<1> DEFINE S == { MonthDays[m] : m \in Months }
<1>1. \A m \in Months : MonthDays[m] \in Nat /\ MonthDays[m] <= YearDays
  BY CalendarFacts
<1>2. S \subseteq Nat /\ S # {} /\ YearDays \in Nat /\ \A x \in S : x <= YearDays
  BY <1>1, CalendarFacts
<1>3. Max(S) \in S /\ \A x \in S : Max(S) >= x
  BY <1>2, MaxOfBounded
<1>4. \A m \in Months : MonthDays[m] \in S
  OBVIOUS
<1> QED
  BY <1>1, <1>2, <1>3, <1>4

LEMMA StampDate ==
  ASSUME NEW s \in Stamps
  PROVE  LET date == [year |-> s.year + DosYear, month |-> s.month, day |-> s.day]
         IN  /\ date \in Days /\ 2 * s.time \in Times
             /\ unixtime_int[s] = mktimes(date, 2 * s.time)
             /\ mktime(date, 2 * s.time) \in Nat /\ Hour <= mktime(date, 2 * s.time)
<1> DEFINE date == [year |-> s.year + DosYear, month |-> s.month, day |-> s.day]
<1>1. /\ s.year \in 0..YearWord-1 /\ s.month \in Months
      /\ s.day \in 1..Max({ MonthDays[m] : m \in Months })
      /\ s.time \in 0..(DayLength - 1) \div 2
  BY DEF Stamps
<1>2. date \in Days /\ date.year >= 1
  BY <1>1, MonthsBounded, YearAssumption DEF Days
<1>3. 2 * s.time \in Times
  BY <1>1, DayAssumption DEF Times
<1>4. unixtime_int[s] = mktimes(date, 2 * s.time)
  BY DEF unixtime_int
<1> HIDE DEF date
<1>5. PICK y \in Nat, r \in Nat : y >= 1 /\ mktime(date, 2 * s.time) = y * YearLength + r
  <2>1. PICK day \in Nat : day = DaysBefore[date.month] + date.day - 1
    BY <1>2, <1>3, MktimeDays
  <2>2. PICK r \in Nat : r = day * DayLength + 2 * s.time
    BY <1>3, <2>1, Product, DayAssumption DEF Times
  <2>3. mktime(date, 2 * s.time) = date.year * YearLength + r /\ date.year \in Nat
    BY <1>2, <1>3, <2>1, <2>2, MktimeDays
  <2> QED
    BY <1>2, <2>3
<1>6. 1 * YearLength <= y * YearLength /\ y * YearLength \in Nat
  BY <1>5, ProductMonotonic, Product, CalendarFacts
<1>7. mktime(date, 2 * s.time) \in Nat /\ Hour <= mktime(date, 2 * s.time)
  BY <1>5, <1>6, CalendarFacts, DayAssumption
<1> QED
  BY <1>2, <1>3, <1>4, <1>7 DEF date

LEMMA FileTimeType ==
  ASSUME NEW s \in Stamps, NEW u \in unixtime_int[s]
  PROVE  u \in Nat
<1> DEFINE date == [year |-> s.year + DosYear, month |-> s.month, day |-> s.day]
<1>1. PICK t \in Nat : t = mktime(date, 2 * s.time) /\ Hour <= t
  BY StampDate
<1>2. u \in mktimes(date, 2 * s.time)
  BY StampDate
<1>3. u \in {t, t - Hour}
  BY <1>1, <1>2 DEF mktimes, Showing
<1> QED
  BY <1>1, <1>3, DayAssumption

-----------------------------------------------------------------------------
(* The call in progress.                                                   *)

(* As long as what the clock shows has not jumped since the call read it,  *)
(* the call keeps what it showed as many seconds ago as have gone by.      *)
CallKeeps ==
  call # Idle /\ ~ jumped =>
    /\ Shown(now) - late \in Nat
    /\ call.op = "setdate" => call.time = (Shown(now) - late) % DayLength
    /\ call.op = "settime" => call.date = DayAndTime(Shown(now) - late).date

IInv == TypeOK /\ CallKeeps

LEMMA ClockReads ==
  ASSUME TypeOK
  PROVE  /\ now \in Nat /\ Shown(now) \in Nat /\ localtime[now] = DayAndTime(Shown(now))
         /\ GetDate = DayAndTime(Shown(now)).date /\ GetDate \in CalendarDates
         /\ GetTime = Shown(now) % DayLength /\ GetTime \in Times
<1>1. now \in FileMoments /\ now \in Nat
  BY MomentsInside DEF TypeOK
<1>2. localtime[now] = DayAndTime(Shown(now)) /\ Shown(now) \in Nat
  BY <1>1, LocaltimeShows
<1> QED
  BY <1>1, <1>2, ShowsADate DEF GetDate, GetTime

LEMMA InitIInv == Init => IInv
<1>1. Moments \subseteq Nat /\ 0 \in 0..MaxLate
  BY MomentsInside, LateAssumption
<1> QED
  BY <1>1, Zenon DEF Init, IInv, TypeOK, CallKeeps

LEMMA TickStep ==
  ASSUME IInv, Tick
  PROVE  IInv'
<1>1. TypeOK
  BY DEF IInv
<1>2. TypeOK'
  BY <1>1, LateAssumption DEF Tick, TypeOK
<1>3. ASSUME call' # Idle, ~ jumped'
      PROVE  /\ Shown(now') - late' = Shown(now) - late
             /\ call' = call /\ call # Idle /\ ~ jumped
  <2>1. call' = call /\ call # Idle /\ ~ jumped /\ late' = late + 1 /\ now' = now + 1
    BY <1>3 DEF Tick
  <2>2. IsSummer(now) = IsSummer(now + 1)
    BY <1>3, Zenon DEF Tick
  <2>3. Offset(now') = Offset(now) /\ Offset(now) \in Int
    BY <2>1, <2>2, <1>1, ClockReads, ShownType DEF Offset
  <2> QED
    BY <1>1, <2>1, <2>3, ClockReads, LateAssumption DEF Shown, TypeOK
<1>4. CallKeeps'
  BY <1>3 DEF IInv, CallKeeps, Shown, Offset
<1> QED
  BY <1>2, <1>4 DEF IInv

LEMMA ReadsStep ==
  ASSUME IInv, (\E date \in Dates : SetDate(date)) \/ (\E time \in Times : SetTime(time))
  PROVE  IInv'
<1>1. TypeOK
  BY DEF IInv
<1>2. PICK op, date, time :
        /\ Reads(op, date, time)
        /\ \/ op = "setdate" /\ date \in Dates /\ time = GetTime
           \/ op = "settime" /\ date = GetDate /\ time \in Times
  BY DEF SetDate, SetTime
<1>3. /\ call' = [op |-> op, date |-> date, time |-> time]
      /\ late' = 0 /\ jumped' = FALSE /\ now' = now /\ mtime' = mtime
  BY <1>2 DEF Reads
<1>4. date \in Days /\ time \in Times
  BY <1>1, <1>2, ClockReads, CallsAssumption DEF CalendarDates
<1>5. TypeOK'
  <2>1. call'.op \in {"setdate", "settime"} /\ call'.date \in Days /\ call'.time \in Times
    BY <1>2, <1>3, <1>4
  <2>2. 0 \in 0..MaxLate
    BY LateAssumption
  <2> QED
    BY <1>1, <1>3, <2>1, <2>2 DEF TypeOK
<1>6. CallKeeps'
  <2>1. Shown(now) - 0 = Shown(now)
    BY <1>1, ClockReads
  <2>2. call'.op = op /\ call'.date = date /\ call'.time = time
    BY <1>3
  <2> QED
    BY <1>1, <1>2, <1>3, <2>1, <2>2, ClockReads DEF CallKeeps, Shown, Offset
<1> QED
  BY <1>5, <1>6 DEF IInv

LEMMA OtherSteps ==
  ASSUME IInv, Step \/ Touch \/ SetClock \/ SetClockFails \/ \E s \in Stamps : SetFtime(s)
  PROVE  IInv'
<1>1. TypeOK /\ CallKeeps
  BY DEF IInv
<1>2. CASE Step
  <2>1. now' \in Moments /\ jumped' = TRUE /\ mtime' = mtime /\ call' = call /\ late' = late
    BY <1>2, CallsAssumption DEF Step
  <2> QED
    BY <1>1, <2>1 DEF IInv, TypeOK, CallKeeps
<1>3. CASE Touch
  <2>1. mtime' = now /\ now' = now /\ call' = call /\ late' = late /\ jumped' = jumped
    BY <1>3 DEF Touch
  <2>2. now \in Nat
    BY <1>1, ClockReads
  <2> QED
    BY <1>1, <2>1, <2>2 DEF IInv, TypeOK, CallKeeps, Shown, Offset
<1>4. CASE SetClock \/ SetClockFails
  <2>1. now' \in Moments /\ call' = Idle /\ late' = 0 /\ jumped' = FALSE /\ mtime' = mtime
    BY <1>1, <1>4 DEF SetClock, SetClockFails, ClockSet, Returns, TypeOK
  <2>2. 0 \in 0..MaxLate
    BY LateAssumption
  <2> QED
    BY <1>1, <2>1, <2>2, Zenon DEF IInv, TypeOK, CallKeeps
<1>5. ASSUME NEW s \in Stamps, SetFtime(s) PROVE IInv'
  <2>1. mtime' \in Nat /\ now' = now /\ call' = call /\ late' = late /\ jumped' = jumped
    <3>1. PICK t \in unixtime_int[s] : mtime' = InFileSystem(t)
      BY <1>5 DEF SetFtime
    <3>2. t \in Nat /\ LastMtime \in Nat
      BY FileTimeType, FileSystemAssumption, MomentsInside
    <3>3. mtime' \in Nat
      BY <3>1, <3>2 DEF InFileSystem
    <3> QED
      BY <1>5, <3>3 DEF SetFtime
  <2> QED
    BY <1>1, <2>1 DEF IInv, TypeOK, CallKeeps, Shown, Offset
<1> QED
  BY <1>2, <1>3, <1>4, <1>5

LEMMA NextIInv == IInv /\ [Next]_vars => IInv'
<1> SUFFICES ASSUME IInv, [Next]_vars PROVE IInv'
  OBVIOUS
<1>1. CASE UNCHANGED vars
  BY <1>1 DEF vars, IInv, TypeOK, CallKeeps, Shown, Offset
<1>2. CASE Next
  BY <1>2, TickStep, ReadsStep, OtherSteps DEF Next
<1> QED
  BY <1>1, <1>2

(* The inductive invariant holds of the clock and its calls.               *)
THEOREM Invariance == Spec => []IInv
  BY InitIInv, NextIInv, PTL DEF Spec

(* Every variable keeps to its type: no time of a file is before 1970.     *)
THEOREM TypeCorrect == Spec => []TypeOK
<1>1. IInv => TypeOK
  BY DEF IInv
<1> QED
  BY <1>1, Invariance, PTL

-----------------------------------------------------------------------------
(* The clock, once it is set.                                              *)

LEMMA ClockIsSet ==
  ASSUME IInv, SetClock, Winter, IsDate(call.date)
  PROVE  /\ call # Idle /\ ~ jumped /\ call.op \in {"setdate", "settime"}
         /\ GetDate' = call.date /\ GetTime' = call.time
<1>1. call # Idle /\ now' = mktime(call.date, call.time) /\ now' \in Moments /\ ~ jumped
  BY DEF SetClock, ClockSet, unixtime_struct, Winter
<1>2. call.op \in {"setdate", "settime"} /\ call.date \in CalendarDates /\ call.time \in Times
  BY <1>1 DEF IInv, TypeOK, CalendarDates
<1>3. PICK t \in Nat : t = now' /\ t \in FileMoments
  BY <1>1, MomentsInside
<1>4. Shown(t) = t
  <2>1. ~ IsSummer(t)
    BY <1>3, Zenon DEF Winter
  <2>2. t + 0 = t
    OBVIOUS
  <2> QED
    BY <2>1, <2>2, Zenon DEF Shown, Offset
<1>5. localtime[t] = DayAndTime(t)
  BY <1>3, <1>4, LocaltimeShows
<1>6. DayAndTime(t) = [date |-> call.date, time |-> call.time]
  BY <1>1, <1>2, <1>3, ShowsItsDate
<1>7. GetDate' = localtime[t].date /\ GetTime' = localtime[t].time
  BY <1>3 DEF GetDate, GetTime
<1> QED
  BY <1>1, <1>2, <1>5, <1>6, <1>7

(* _dos_setdate, where there is no summer time and nobody sets the clock,  *)
(* sets the date it was given and keeps the time it read, which is that    *)
(* shown now less what went by, through midnight too.                      *)
THEOREM SetDateKeeps == Spec => SetDateKeepsTime
<1>1. IInv /\ [Next]_vars =>
        [SetClock /\ call.op = "setdate" /\ IsDate(call.date) /\ Winter =>
           GetDate' = call.date /\ GetTime' = (GetTime - late) % DayLength]_vars
  <2> SUFFICES ASSUME IInv, SetClock, call.op = "setdate", IsDate(call.date), Winter
               PROVE  GetDate' = call.date /\ GetTime' = (GetTime - late) % DayLength
    OBVIOUS
  <2>1. GetDate' = call.date /\ GetTime' = call.time /\ call # Idle /\ ~ jumped
    BY ClockIsSet
  <2>2. call.time = (Shown(now) - late) % DayLength
    BY <2>1 DEF IInv, CallKeeps
  <2>3. GetTime = Shown(now) % DayLength /\ Shown(now) \in Int /\ late \in Int
    BY ClockReads DEF IInv, TypeOK
  <2>4. ((Shown(now) % DayLength) - late) % DayLength = (Shown(now) - late) % DayLength
    BY <2>3, RemainderShift, DayAssumption
  <2> QED
    BY <2>1, <2>2, <2>3, <2>4, Zenon
<1> QED
  BY <1>1, Invariance, PTL DEF Spec, SetDateKeepsTime

(* _dos_settime, under the same conditions, sets the time it was given and *)
(* keeps the date it read, which is that shown now unless midnight passed. *)
THEOREM SetTimeKeeps == Spec => SetTimeKeepsDate
<1>1. IInv /\ [Next]_vars =>
        [SetClock /\ call.op = "settime" /\ Winter =>
           /\ GetTime' = call.time
           /\ GetDate' = DayAndTime(mktime(GetDate, GetTime) - late).date]_vars
  <2> SUFFICES ASSUME IInv, SetClock, call.op = "settime", Winter
               PROVE  /\ GetTime' = call.time
                      /\ GetDate' = DayAndTime(mktime(GetDate, GetTime) - late).date
    OBVIOUS
  <2>1. TypeOK /\ call # Idle /\ ~ jumped
    BY DEF IInv, TypeOK, SetClock, Winter
  <2>2. PICK t \in Nat : t = Shown(now) /\ t - late \in Nat /\ call.date = DayAndTime(t - late).date
    BY <2>1, ClockReads DEF IInv, CallKeeps
  <2>3. call.date \in CalendarDates
    BY <2>2, ShowsADate
  <2>4. GetDate' = call.date /\ GetTime' = call.time
    BY <2>3, ClockIsSet DEF CalendarDates
  <2>5. GetDate = DayAndTime(t).date /\ GetTime = DayAndTime(t).time
    BY <2>1, <2>2, ClockReads, ShowsADate, Zenon
  <2>6. mktime(GetDate, GetTime) = t
    BY <2>5, ShowsADate, Zenon
  <2> QED
    BY <2>2, <2>4, <2>6
<1> QED
  BY <1>1, Invariance, PTL DEF Spec, SetTimeKeepsDate

-----------------------------------------------------------------------------
(* Summer time begins and ends at midnight, every year at the same days.   *)

LEMMA SummerByDay ==
  ASSUME NEW t \in Nat, (t + 1) % DayLength # 0
  PROVE  Offset(t) = Offset(t + 1)
<1>1. PICK u \in Nat : u = t + 1
  OBVIOUS
<1>2. 1 <= u % DayLength
  <2>1. u % DayLength \in 0..DayLength-1
    BY Division, DayAssumption
  <2> QED
    BY <1>1, <2>1, DayAssumption
<1>3. DayAndTime(u - 1) = [date |-> DayAndTime(u).date, time |-> (u % DayLength) - 1]
  <2>1. 1 \in Nat
    OBVIOUS
  <2> QED
    BY <1>2, <2>1, SameDay, Zenon
<1>4. u - 1 = t
  BY <1>1
<1>5. DayAndTime(t).date = DayAndTime(u).date
  BY <1>3, <1>4
<1> QED
  BY <1>1, <1>5, Zenon DEF Offset, IsSummer

LEMMA SummerYearly ==
  ASSUME NEW t \in Nat, NEW u \in Nat, NEW k \in Int, u = t + k * YearLength
  PROVE  Offset(u) = Offset(t)
<1>1. YearLength \in Nat \ {0} /\ t \in Int
  BY CalendarFacts
<1>2. PICK q \in Int, r \in 0..YearLength-1 : t = q * YearLength + r /\ r = t % YearLength
  BY <1>1, IntDivision, Zenon
<1>3. u = (q + k) * YearLength + r /\ q + k \in Int
  <2>1. (q + k) * YearLength = q * YearLength + k * YearLength
        /\ q * YearLength \in Int /\ k * YearLength \in Int
    BY <1>1
  <2> QED
    BY <1>2, <2>1
<1>4. u % YearLength = r
  <2>1. ((q + k) * YearLength + r) % YearLength = r
    BY <1>1, <1>3, IntDivisionUnique, Zenon
  <2> QED
    BY <1>3, <2>1, Zenon
<1>5. DayAndTime(u).date.month = DayAndTime(t).date.month
  BY <1>2, <1>4 DEF DayAndTime
<1> QED
  BY <1>5, Zenon DEF Offset, IsSummer

(* A time of day is even where the seconds since 1970 are.                 *)
LEMMA EvenSeconds ==
  ASSUME NEW x \in Nat
  PROVE  (x % DayLength) % 2 = x % 2
<1>1. PICK h \in Nat : DayLength = 2 * h
  BY DayAssumption
<1>2. PICK q \in Nat, r \in 0..DayLength-1 : x = q * DayLength + r /\ r = x % DayLength
  BY Division, DayAssumption
<1>3. PICK z \in Nat : z = q * h
  BY Product
<1>4. q * DayLength = 2 * z
  BY <1>1, <1>3
<1>5. x = 2 * z + r
  BY <1>2, <1>4
<1> QED
  BY <1>2, <1>5

LEMMA EvenShown ==
  ASSUME NEW t \in Nat
  PROVE  Shown(t) \in Nat /\ Shown(t) % 2 = t % 2
  BY ShownType, DayAssumption DEF Shown

-----------------------------------------------------------------------------
(* The stamps that files show.                                             *)

StampsDate(s) == [year |-> s.year + DosYear, month |-> s.month, day |-> s.day]
Stamped(s) == mktime(StampsDate(s), 2 * s.time)
Even(m) == m - (m % 2)

LEMMA YearsLater ==
  ASSUME NEW date \in Days, NEW time \in Times, NEW year \in Nat,
         NEW other \in Days, other = [year |-> year, month |-> date.month, day |-> date.day]
  PROVE  mktime(other, time) = mktime(date, time) + (year - date.year) * YearLength
<1>1. PICK x \in Nat : /\ mktime(date, time) = date.year * YearLength + x
                       /\ mktime(other, time) = other.year * YearLength + x
  <2>1. PICK day \in Nat : day = DaysBefore[date.month] + date.day - 1
    BY MktimeDays
  <2>2. PICK x \in Nat : x = day * DayLength + time
    BY <2>1, Product, DayAssumption DEF Times
  <2>3. mktime(date, time) = date.year * YearLength + x
    BY <2>1, <2>2, MktimeDays
  <2>4. other.month = date.month /\ other.day = date.day
    OBVIOUS
  <2>5. mktime(other, time) = other.year * YearLength + x
    BY <2>1, <2>2, <2>4, MktimeDays
  <2> QED
    BY <2>3, <2>5
<1>2. date.year \in Nat /\ other.year = year /\ YearLength \in Nat
  BY CalendarFacts DEF Days
<1>3. /\ (year - date.year) * YearLength = year * YearLength - date.year * YearLength
      /\ year * YearLength \in Nat /\ date.year * YearLength \in Nat
  BY <1>2, Product
<1> QED
  BY <1>1, <1>2, <1>3

(* The stamp of a moment tells what it shows, to two seconds, in a year of *)
(* those a stamp can tell.                                                 *)
LEMMA StampTells ==
  ASSUME NEW m \in Moments
  PROVE  /\ Even(m) \in Nat /\ Offset(Even(m)) = Offset(m)
         /\ dostime_int[m] \in Stamps /\ StampsDate(dostime_int[m]) \in CalendarDates
         /\ \E k \in Int :
              /\ Stamped(dostime_int[m]) = Shown(Even(m)) + k * YearLength
              /\ localtime[m].date.year - DosYear \in 0..YearWord-1 => k = 0
<1>1. m \in FileMoments /\ m \in Nat
  BY MomentsInside
<1>2. PICK odd \in 0..1, even \in Nat : odd = m % 2 /\ even = m - odd
  BY <1>1
<1>3. Offset(even) = Offset(m)
  <2>1. CASE odd = 0
    BY <1>1, <1>2, <2>1
  <2>2. CASE odd = 1
    <3>1. m = even + 1 /\ m % 2 = 1
      BY <1>1, <1>2, <2>2
    <3>2. (m % DayLength) % 2 = 1
      BY <1>1, <3>1, EvenSeconds
    <3>3. m % DayLength # 0
      BY <3>2
    <3> QED
      BY <3>1, <3>3, SummerByDay
  <2> QED
    BY <2>1, <2>2
<1>4. PICK w \in Nat : w = Shown(m) /\ localtime[m] = DayAndTime(w) /\ Shown(even) = w - odd
  <2>1. Offset(m) \in Int /\ Shown(m) \in Nat
    BY <1>1, ShownType
  <2>2. Shown(even) = Shown(m) - odd
    BY <1>1, <1>2, <1>3, <2>1 DEF Shown
  <2> QED
    BY <1>1, <2>1, <2>2, LocaltimeShows
<1>5. PICK date \in CalendarDates, time \in Times :
        date = DayAndTime(w).date /\ time = DayAndTime(w).time /\ time = w % DayLength
  BY ShowsADate
<1>6. time \in Nat /\ time % 2 = odd
  BY <1>1, <1>2, <1>4, <1>5, EvenShown, EvenSeconds DEF Times
<1>7. odd <= time /\ 2 * (time \div 2) = time - odd /\ time - odd \in Times
  BY <1>2, <1>5, <1>6, DayAssumption DEF Times
<1>8. /\ w - odd \in Nat
      /\ DayAndTime(w - odd) = [date |-> date, time |-> time - odd]
  BY <1>2, <1>5, <1>7, SameDay
<1>9. mktime(date, time - odd) = w - odd
  BY <1>8, ShowsADate
<1> DEFINE s == dostime_int[m]
<1>10. /\ date.year \in Nat /\ date.month \in Months /\ date.day \in Nat \ {0}
       /\ date.day <= MonthDays[date.month] /\ MonthDays[date.month] \in Nat
  BY <1>5, CalendarFacts DEF CalendarDates, Days, IsDate
<1>11. s = [year |-> (date.year - DosYear) % YearWord, month |-> date.month,
            day |-> date.day, time |-> time \div 2]
  BY <1>1, <1>4, <1>5 DEF dostime_int
<1>12. PICK year \in 0..YearWord-1 : year = (date.year - DosYear) % YearWord
  BY <1>10, YearAssumption
<1>13. s \in Stamps
  <2>1. date.day \in 1..Max({ MonthDays[n] : n \in Months })
    BY <1>10, MonthsBounded
  <2>2. time \div 2 \in 0..(DayLength - 1) \div 2
    BY <1>5, <1>6, DayAssumption DEF Times
  <2> QED
    BY <1>10, <1>11, <1>12, <2>1, <2>2 DEF Stamps
<1>14. /\ s.year = year /\ s.month = date.month /\ s.day = date.day /\ 2 * s.time = time - odd
  BY <1>7, <1>11, <1>12
<1> HIDE DEF s
<1>15. PICK told \in Nat : told = year + DosYear
  BY <1>12, YearAssumption
<1>16. StampsDate(s) = [year |-> told, month |-> date.month, day |-> date.day]
  BY <1>14, <1>15 DEF StampsDate
<1>17. StampsDate(s) \in CalendarDates
  BY <1>10, <1>15, <1>16 DEF CalendarDates, Days, IsDate
<1>18. mktime(StampsDate(s), time - odd) = mktime(date, time - odd) + (told - date.year) * YearLength
  BY <1>5, <1>7, <1>16, <1>17, YearsLater DEF CalendarDates
<1>19. localtime[m].date.year - DosYear \in 0..YearWord-1 => told - date.year = 0
  <2>1. ASSUME NEW x \in 0..YearWord-1 PROVE x % YearWord = x
    BY YearAssumption
  <2>2. localtime[m].date.year = date.year
    BY <1>4, <1>5
  <2>3. ASSUME date.year - DosYear \in 0..YearWord-1 PROVE year = date.year - DosYear
    BY <1>12, <2>1, <2>3, Zenon
  <2> QED
    BY <1>10, <1>15, <2>2, <2>3, YearAssumption
<1>20. told - date.year \in Int
  BY <1>10, <1>15
<1> QED
  BY <1>1, <1>2, <1>3, <1>4, <1>9, <1>13, <1>14, <1>17, <1>18, <1>19, <1>20
  DEF s, Even, Stamped

(* The moments a call sets the time of a file to, given a stamp that some  *)
(* moment has, show what that stamp tells.                                 *)
LEMMA StampShowing ==
  ASSUME NEW m \in Moments, NEW v \in unixtime_int[dostime_int[m]]
  PROVE  /\ v \in FileMoments /\ v + 1 \in FileMoments
         /\ localtime[v] = [date |-> StampsDate(dostime_int[m]), time |-> 2 * dostime_int[m].time]
         /\ Shown(v) = Stamped(dostime_int[m])
<1> DEFINE s == dostime_int[m]
           date == StampsDate(s)
           time == 2 * s.time
<1>1. s \in Stamps /\ date \in CalendarDates
  BY StampTells
<1>2. PICK t \in Nat : t = mktime(date, time) /\ Hour <= t /\ time \in Times
  BY <1>1, StampDate DEF StampsDate
<1>3. v \in mktimes(date, time)
  BY <1>1, StampDate DEF StampsDate
<1>4. PICK even \in Nat, k \in Int : t = Shown(even) + k * YearLength
  <2>1. \E k \in Int : Stamped(s) = Shown(Even(m)) + k * YearLength
    BY StampTells, Zenon
  <2> QED
    BY <1>2, <2>1, StampTells, Zenon DEF Stamped
<1>5. date.year \in 0..DosYear+YearWord-1
  BY <1>1, YearAssumption DEF StampsDate, Stamps
<1> HIDE DEF s, date, time
<1>6. DayAndTime(t) = [date |-> date, time |-> time]
  BY <1>1, <1>2, ShowsItsDate
<1>7. \A u \in 0..t : u \in FileMoments /\ u + 1 \in FileMoments
  <2>1. YearLength \in Nat \ {0}
    BY CalendarFacts
  <2>2. PICK year \in Nat, r \in 0..YearLength-1 :
          year = t \div YearLength /\ t = year * YearLength + r
    BY <2>1, Division, Zenon
  <2>3. year = date.year
    BY <1>6, <2>2 DEF DayAndTime
  <2>4. (year + 1) * YearLength \in FileMoments
    BY <1>5, <2>3, MomentsInside, YearAssumption
  <2>5. t + 1 <= (year + 1) * YearLength
    BY <2>1, <2>2
  <2>6. PICK n \in Nat : FileMoments = 0..n
    <3>1. DosYear + YearWord + 2 \in Nat
      BY YearAssumption
    <3> QED
      BY <2>1, <3>1, Product DEF FileMoments
  <2>7. PICK last \in Nat : last = (year + 1) * YearLength /\ t + 1 <= last /\ last \in FileMoments
    BY <2>4, <2>5, MomentsInside
  <2> QED
    BY <2>6, <2>7
<1>8. Showing(t) # {}
  <2>1. PICK h \in {0, Hour} : h = Offset(even) /\ Shown(even) = even + h
    BY ShownType DEF Shown
  <2>2. PICK u \in 0..t : u = t - h
    BY <1>2, <2>1, DayAssumption
  <2>3. u = even + k * YearLength
    <3>1. k * YearLength \in Int
      BY CalendarFacts
    <3> QED
      BY <1>4, <2>1, <2>2, <3>1, DayAssumption
  <2>4. Offset(u) = h
    BY <2>1, <2>3, SummerYearly
  <2>5. u \in FileMoments /\ Shown(u) = t
    BY <1>7, <2>1, <2>2, <2>4, DayAssumption DEF Shown
  <2>6. localtime[u] = DayAndTime(t)
    BY <2>5, LocaltimeShows
  <2>7. u \in {t, t - Hour}
    BY <2>1, <2>2
  <2> QED
    BY <2>5, <2>6, <2>7 DEF Showing
<1>9. v \in {t, t - Hour} /\ localtime[v] = DayAndTime(t) /\ v \in FileMoments
  <2>1. v \in Showing(t)
    BY <1>2, <1>3, <1>8 DEF mktimes
  <2> QED
    BY <2>1 DEF Showing
<1>10. v \in 0..t
  BY <1>2, <1>9, DayAssumption
<1>11. Shown(v) = t
  <2>1. localtime[v] = DayAndTime(Shown(v)) /\ Shown(v) \in Nat
    BY <1>9, LocaltimeShows
  <2> QED
    BY <1>9, <2>1, ShowsADate
<1> QED
  BY <1>2, <1>6, <1>7, <1>9, <1>10, <1>11 DEF s, date, time, Stamped

(* A stamp can tell the years of the clock from 1980 on.                   *)
LEMMA YearKnown ==
  ASSUME NEW m \in Moments, From1980(m)
  PROVE  localtime[m].date.year - DosYear \in 0..YearWord-1
<1>1. PICK w \in Nat : w = Shown(m) /\ localtime[m] = DayAndTime(w)
  BY MomentsInside, LocaltimeShows
<1>2. YearLength \in Nat \ {0} /\ LastYear + 1 \in Nat
  BY CalendarFacts, YearAssumption
<1>3. w < (LastYear + 2) * YearLength
  <2>1. PICK end \in Nat : end = (LastYear + 1) * YearLength
    BY <1>2, Product
  <2>2. m \in Nat /\ m < end /\ w <= m + Hour
    BY <1>1, <2>1, ShownType, MomentsInside DEF Moments, Shown
  <2>3. Hour <= YearLength
    BY CalendarFacts, DayAssumption
  <2>4. (LastYear + 2) * YearLength = end + YearLength
    BY <1>2, <2>1, YearAssumption
  <2> QED
    BY <1>2, <2>1, <2>2, <2>3, <2>4, DayAssumption
<1>4. PICK year \in Nat, r \in 0..YearLength-1 : year = w \div YearLength /\ w = year * YearLength + r
  BY <1>2, Division, Zenon
<1>5. year <= LastYear + 1
  <2>1. ASSUME LastYear + 2 <= year PROVE FALSE
    <3>1. (LastYear + 2) * YearLength <= year * YearLength /\ year * YearLength \in Nat
      BY <1>2, <2>1, ProductMonotonic, Product, YearAssumption
    <3>2. PICK x \in Int : x = (LastYear + 2) * YearLength
      BY <1>2, YearAssumption
    <3> QED
      BY <1>2, <1>3, <1>4, <3>1, <3>2
  <2> QED
    BY <2>1, YearAssumption
<1>6. localtime[m].date.year = year
  BY <1>1, <1>4 DEF DayAndTime
<1> QED
  BY <1>5, <1>6, YearAssumption DEF From1980

(* Of such a year, they are the moment itself to two seconds and to the    *)
(* hour that is shown twice.                                               *)
LEMMA StampComesBack ==
  ASSUME NEW m \in Moments, From1980(m), NEW v \in unixtime_int[dostime_int[m]]
  PROVE  \E off \in {0} \cup { h \in {-Hour, Hour} : ShownTwice(m) } : m - v - off \in 0..1
<1>1. v \in FileMoments /\ v + 1 \in FileMoments /\ v \in Nat
  BY StampShowing, MomentsInside
<1>2. PICK odd \in 0..1, even \in Nat :
        /\ odd = m % 2 /\ m = even + odd /\ m \in Nat /\ m \in FileMoments
        /\ Offset(even) = Offset(m) /\ Shown(v) = Shown(even)
  <2>1. m \in Nat /\ m \in FileMoments
    BY MomentsInside
  <2>2. PICK odd \in 0..1, even \in Nat : odd = m % 2 /\ even = Even(m) /\ m = even + odd
    BY <2>1 DEF Even
  <2>3. /\ Offset(even) = Offset(m)
        /\ \E k \in Int : Shown(v) = Shown(even) + k * YearLength /\ k = 0
    BY YearKnown, <2>2, StampTells, StampShowing, Zenon
  <2>4. Shown(even) + 0 * YearLength = Shown(even)
    BY ShownType, CalendarFacts
  <2> QED
    BY <2>1, <2>2, <2>3, <2>4
<1>3. PICK h \in {0, Hour}, g \in {0, Hour} : h = Offset(even) /\ g = Offset(v)
  BY <1>1, ShownType
<1>4. Hour \in Nat /\ v + g = even + h
  BY <1>1, <1>2, <1>3, ShownType DEF Shown
<1>5. m - v - (g - h) = odd
  BY <1>1, <1>2, <1>3, <1>4
<1>6. ASSUME g # h PROVE g - h \in {-Hour, Hour} /\ ShownTwice(m)
  <2>1. PICK u \in Nat : u = v + odd
    BY <1>1
  <2>2. u \in FileMoments
    BY <1>1, <2>1
  <2>3. Offset(u) = g
    <3>1. CASE odd = 0
      BY <1>1, <1>3, <2>1, <3>1
    <3>2. CASE odd = 1
      <4>1. even % 2 = 0
        BY <1>2, <3>2
      <4>2. v % 2 = 0
        BY <1>1, <1>2, <4>1, EvenShown
      <4>3. (v + 1) % 2 = 1 /\ v + 1 \in Nat
        BY <1>1, <4>2
      <4>4. (v + 1) % DayLength # 0
        <5>1. ((v + 1) % DayLength) % 2 = 1
          BY <4>3, EvenSeconds, Zenon
        <5> QED
          BY <5>1
      <4>5. Offset(v) = Offset(v + 1)
        BY <1>1, <4>4, SummerByDay
      <4> QED
        BY <1>3, <2>1, <3>2, <4>5
    <3> QED
      BY <3>1, <3>2
  <2>4. Shown(u) = Shown(m)
    <3>1. Shown(u) = u + g /\ Shown(m) = m + h
      BY <1>2, <1>3, <2>3 DEF Shown
    <3> QED
      BY <1>1, <1>2, <1>3, <1>4, <2>1, <3>1
  <2>5. localtime[u] = localtime[m]
    BY <1>2, <2>2, <2>4, LocaltimeShows
  <2>6. g - h \in {-Hour, Hour} /\ u \in {m - Hour, m + Hour}
    <3>1. m = u + (g - h) /\ u \in Nat /\ m \in Nat
      BY <1>1, <1>2, <1>3, <1>4, <2>1
    <3>2. g - h = Hour \/ g - h = -Hour
      BY <1>3, <1>4, <1>6
    <3> QED
      BY <1>4, <3>1, <3>2
  <2> QED
    BY <2>2, <2>5, <2>6 DEF ShownTwice
<1>7. g - h \in {0} \cup { x \in {-Hour, Hour} : ShownTwice(m) }
  BY <1>3, <1>4, <1>6
<1> QED
  BY <1>5, <1>7

(* The file system keeps them.                                             *)
LEMMA FileSystemKeeps ==
  ASSUME NEW m \in Moments, From1980(m), NEW v \in unixtime_int[dostime_int[m]]
  PROVE  InFileSystem(v) = v
<1>1. PICK off \in {0, -Hour, Hour} : m - v - off \in 0..1
  BY StampComesBack
<1>2. Hour \in Nat /\ m \in Nat /\ v \in Nat
  <2>1. v \in FileMoments
    BY StampShowing
  <2> QED
    BY <2>1, MomentsInside, DayAssumption
<1>3. PICK end \in Nat : end = (LastYear + 1) * YearLength
  BY CalendarFacts, Product, YearAssumption
<1>4. m < end /\ end + Hour <= LastMtime /\ LastMtime \in Nat
  BY <1>3, FileSystemAssumption, MomentsInside DEF Moments
<1>5. v <= LastMtime
  BY <1>1, <1>2, <1>3, <1>4
<1> QED
  BY <1>2, <1>4, <1>5 DEF InFileSystem

(* A file given the stamp that some moment of 1980 or later has shows that *)
(* stamp, whatever the months of summer time.                              *)
THEOREM FtimeKeeps == Spec => FtimeAsAsked
<1>1. ASSUME NEW m \in Moments, SetFtime(dostime_int[m]), From1980(m)
      PROVE  GetFtime' = dostime_int[m]
  <2>1. PICK s \in Stamps : s = dostime_int[m]
    BY StampTells
  <2>2. PICK v : v = mtime' /\ v \in unixtime_int[dostime_int[m]]
    BY <1>1, FileSystemKeeps DEF SetFtime
  <2>3. v \in FileMoments /\ localtime[v] = [date |-> StampsDate(s), time |-> 2 * s.time]
    BY <2>1, <2>2, StampShowing
  <2>4. /\ localtime[v].date = StampsDate(s) /\ localtime[v].time = 2 * s.time
        /\ StampsDate(s).year = s.year + DosYear /\ StampsDate(s).month = s.month
        /\ StampsDate(s).day = s.day
    BY <2>3 DEF StampsDate
  <2>5. (localtime[v].date.year - DosYear) % YearWord = s.year
    <3>1. PICK x \in 0..YearWord-1 : x = s.year
      BY DEF Stamps
    <3>2. x % YearWord = x
      BY YearAssumption
    <3>3. localtime[v].date.year - DosYear = x
      BY <2>4, <3>1, YearAssumption
    <3> QED
      BY <3>1, <3>2, <3>3, Zenon
  <2>6. localtime[v].time \div 2 = s.time
    BY <2>4, DayAssumption DEF Stamps
  <2>7. s = [year |-> s.year, month |-> s.month, day |-> s.day, time |-> s.time]
    BY DEF Stamps
  <2>8. dostime_int[v] =
          [year |-> (localtime[v].date.year - DosYear) % YearWord,
           month |-> localtime[v].date.month, day |-> localtime[v].date.day,
           time |-> localtime[v].time \div 2]
    BY <2>3, Zenon DEF dostime_int
  <2>9. localtime[v].date.month = s.month /\ localtime[v].date.day = s.day
    BY <2>4, Zenon
  <2>10. dostime_int[v] = s
    BY <2>5, <2>6, <2>7, <2>8, <2>9
  <2>11. GetFtime' = dostime_int[v]
    BY <2>2 DEF GetFtime
  <2> QED
    BY <2>1, <2>10, <2>11
<1>2. [Next]_vars =>
        [\A m \in Moments :
           SetFtime(dostime_int[m]) /\ From1980(m) => GetFtime' = dostime_int[m]]_vars
  BY <1>1
<1> QED
  BY <1>2, PTL DEF Spec, FtimeAsAsked

(* A file given back the stamp it had, of 1980 or later, has its time back *)
(* to two seconds and to the hour that is shown twice.                     *)
THEOREM FtimeComesBack == Spec => FtimeRestored
<1>1. ASSUME NEW m \in Moments, SetFtime(dostime_int[m]), From1980(m)
      PROVE  \E off \in {0} \cup { h \in {-Hour, Hour} : ShownTwice(m) } : m - mtime' - off \in 0..1
  <2>1. PICK v : v = mtime' /\ v \in unixtime_int[dostime_int[m]]
    BY <1>1, FileSystemKeeps DEF SetFtime
  <2> QED
    BY <1>1, <2>1, StampComesBack
<1>2. [Next]_vars =>
        [\A m \in Moments :
           SetFtime(dostime_int[m]) /\ From1980(m) =>
             \E off \in {0} \cup { h \in {-Hour, Hour} : ShownTwice(m) } :
               m - mtime' - off \in 0..1]_vars
  BY <1>1
<1> QED
  BY <1>2, PTL DEF Spec, FtimeRestored

=============================================================================
