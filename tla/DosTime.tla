------------------------------ MODULE DosTime -------------------------------
(***************************************************************************)
(* The time services of libc/dos.c: _dos_setdate and _dos_settime, which   *)
(* read the system clock, replace one half of what it shows and set it,    *)
(* while it runs; _dos_setftime and _dos_getftime, which go through the    *)
(* packed DOS date and time; and the conversions between these and time_t. *)
(*                                                                         *)
(* A moment is a number of seconds of standard time.  What localtime shows *)
(* is an hour later in the months of summer time, so that an hour is       *)
(* missing when they begin and one is shown twice when they end.  Leap     *)
(* years, the hundredths of a second (cut off when the clock is read) and  *)
(* the access time _dos_setftime writes back as it read it are left out,   *)
(* and the calls that only read are state functions.  mktime fails for no  *)
(* moment modelled here: its -1 is a moment before 1970.                   *)
(*                                                                         *)
(* MonthsFromZero, PackedYearsFromZero, StandardFileTime, YearsSubtracted  *)
(* and ClockForgotten are plausible mistakes in the definition that        *)
(* follows each; Next does not use them.                                   *)
(***************************************************************************)
EXTENDS Integers, Sequences, FiniteSetsExt

CONSTANTS
  DaysBefore, \* the days before each month and before the next year, a sequence
  DayLength,  \* seconds in a day
  Hour,       \* seconds in the hour of summer time
  Summer,     \* the months of summer time
  LastYear,   \* the years of the clock are 0..LastYear
  DosYear,    \* the year 1980
  YearWord,   \* the range of the bits of an unsigned above the ninth, 2^23
  LastMtime,  \* the last moment the file system keeps
  Dates,      \* the dates _dos_setdate is called with
  Steps,      \* the moments other programs set the clock to
  MaxLate     \* bound on the ticks within one call

ASSUME CalendarAssumption ==
  /\ DaysBefore \in Seq(Nat) /\ Len(DaysBefore) > 1 /\ DaysBefore[1] = 0
  /\ \A m, n \in DOMAIN DaysBefore : m < n => DaysBefore[m] < DaysBefore[n]
ASSUME DayAssumption ==
  /\ DayLength \in Nat \ {0} /\ DayLength % 2 = 0
  /\ Hour \in 1..DayLength /\ Hour % 2 = 0
ASSUME YearAssumption ==
  /\ DosYear \in Nat \ {0} /\ YearWord \in Nat \ {0}
  /\ LastYear \in 0..DosYear+YearWord-2
ASSUME LateAssumption == MaxLate \in Nat

VARIABLES
  now,    \* the system clock
  mtime,  \* the modification time of a file
  call,   \* the date and time the call in progress is about to set
  \* Observations:
  late,   \* the ticks since the call in progress read the clock
  jumped  \* what the clock shows has jumped since then

vars == <<now, mtime, call, late, jumped>>

-----------------------------------------------------------------------------
(* The calendar of the C library.                                          *)

Months == 1..Len(DaysBefore)-1
MonthDays == [m \in Months |-> DaysBefore[m + 1] - DaysBefore[m]]
YearDays == DaysBefore[Len(DaysBefore)]
YearLength == YearDays * DayLength
Moments == 0..(LastYear+1)*YearLength-1

(* The moments a packed date may stand for, and an hour more.  A file      *)
(* system keeps the moments of the clock, and may keep fewer than these.   *)
FileMoments == 0..(DosYear+YearWord+2)*YearLength
ASSUME FileSystemAssumption ==
  LastMtime \in FileMoments /\ (LastYear + 1) * YearLength + Hour <= LastMtime

(* The dates calls are made with may have more days than the month.        *)
Days == [year : Nat, month : Months, day : Nat \ {0}]
ASSUME CallsAssumption == Dates \subseteq Days /\ Steps \subseteq Moments

DayAndTime(t) ==
  LET day == (t % YearLength) \div DayLength
      month == Max({ m \in Months : DaysBefore[m] <= day })
  IN  [date |-> [year |-> t \div YearLength, month |-> month, day |-> day - DaysBefore[month] + 1],
       time |-> t % DayLength]

IsSummer(t) == DayAndTime(t).date.month \in Summer
localtime == [t \in FileMoments |-> DayAndTime(IF IsSummer(t) THEN t + Hour ELSE t)]

(* mktime for standard time, with days past the end of a month taken into  *)
(* the next one.                                                           *)
mktime(date, time) ==
  date.year * YearLength + (DaysBefore[date.month] + date.day - 1) * DayLength + time

(* mktime for the time in effect: a moment that shows the date and time,   *)
(* or, in the missing hour, the one an hour off in either direction.       *)
Showing(t) == { u \in {t, t - Hour} \cap FileMoments : localtime[u] = DayAndTime(t) }
mktimes(date, time) ==
  LET t == mktime(date, time)
  IN  IF Showing(t) = {} THEN {t, t - Hour} ELSE Showing(t)

-----------------------------------------------------------------------------
(* The conversions.  unixtime_struct leaves tm_isdst 0, unixtime_int sets  *)
(* it to -1.  A packed date is an unsigned, whose bits above the ninth are *)
(* the year since 1980, all of them: before 1980 it wraps round.           *)

Times == 0..DayLength-1
Stamps ==
  [year : 0..YearWord-1, month : Months, day : 1..Max({ MonthDays[m] : m \in Months }),
   time : 0..(DayLength - 1) \div 2]

MonthsFromZero(date, time) == mktime([date EXCEPT !.month = (@ % Len(MonthDays)) + 1], time)
unixtime_struct(date, time) == mktime(date, time)

PackedYearsFromZero ==
  [t \in FileMoments |->
     LET tm == localtime[t]
     IN  [year |-> tm.date.year % YearWord, month |-> tm.date.month,
          day |-> tm.date.day, time |-> tm.time \div 2]]
dostime_int ==
  [t \in FileMoments |->
     LET tm == localtime[t]
     IN  [year |-> (tm.date.year - DosYear) % YearWord, month |-> tm.date.month,
          day |-> tm.date.day, time |-> tm.time \div 2]]

StandardFileTime ==
  [s \in Stamps |->
     { mktime([year |-> s.year + DosYear, month |-> s.month, day |-> s.day], 2 * s.time) }]
YearsSubtracted ==
  [s \in Stamps |->
     mktimes([year |-> s.year - DosYear, month |-> s.month, day |-> s.day], 2 * s.time)]
unixtime_int ==
  [s \in Stamps |->
     mktimes([year |-> s.year + DosYear, month |-> s.month, day |-> s.day], 2 * s.time)]

-----------------------------------------------------------------------------
(* What the calls that read return: _dos_getdate, _dos_gettime and         *)
(* _dos_getftime.                                                          *)
GetDate == localtime[now].date
GetTime == localtime[now].time
GetFtime == dostime_int[mtime]

Idle == [op |-> "none"]

Init ==
  /\ now \in Moments
  /\ mtime = now
  /\ call = Idle
  /\ late = 0
  /\ jumped = FALSE

(* Time goes by.                                                           *)
Tick ==
  /\ now + 1 \in Moments
  /\ call # Idle => late < MaxLate
  /\ now' = now + 1
  /\ late' = IF call = Idle THEN late ELSE late + 1
  /\ jumped' = (jumped \/ IsSummer(now) # IsSummer(now + 1))
  /\ UNCHANGED <<mtime, call>>

(* Another program sets the clock.                                         *)
Step ==
  /\ now' \in Steps \ {now}
  /\ jumped' = TRUE
  /\ UNCHANGED <<mtime, call, late>>

(* Another program writes the file.                                        *)
Touch ==
  /\ mtime' = now
  /\ UNCHANGED <<now, call, late, jumped>>

-----------------------------------------------------------------------------
(* _dos_setdate and _dos_settime.                                          *)

(* The call reads the clock for the half it is to keep.                    *)
Reads(op, date, time) ==
  /\ call = Idle
  /\ call' = [op |-> op, date |-> date, time |-> time]
  /\ late' = 0
  /\ jumped' = FALSE
  /\ UNCHANGED <<now, mtime>>

SetDate(date) == Reads("setdate", date, GetTime)
SetTime(time) == Reads("settime", GetDate, time)

Returns ==
  /\ call' = Idle
  /\ late' = 0
  /\ jumped' = FALSE
  /\ UNCHANGED mtime

ClockForgotten(t) == now
ClockSet(t) == t

(* settimeofday, within the years of the clock (a bound).                  *)
SetClock ==
  /\ call # Idle
  /\ unixtime_struct(call.date, call.time) \in Moments
  /\ now' = ClockSet(unixtime_struct(call.date, call.time))
  /\ Returns

(* settimeofday fails, for want of permission.                             *)
SetClockFails ==
  /\ call # Idle
  /\ Returns
  /\ UNCHANGED now

-----------------------------------------------------------------------------
(* _dos_setftime; where fstat or futimes fails it changes nothing.         *)

(* futimes, of a moment past the last one the file system keeps.           *)
InFileSystem(t) == IF t > LastMtime THEN LastMtime ELSE t

SetFtime(s) ==
  /\ call = Idle
  /\ \E t \in unixtime_int[s] : mtime' = InFileSystem(t)
  /\ UNCHANGED <<now, call, late, jumped>>

Next ==
  \/ Tick \/ Step \/ Touch
  \/ \E date \in Dates : SetDate(date)
  \/ \E time \in Times : SetTime(time)
  \/ SetClock \/ SetClockFails
  \/ \E s \in Stamps : SetFtime(s)

Spec == Init /\ [][Next]_vars

-----------------------------------------------------------------------------
(* Properties.                                                             *)

TypeOK ==
  /\ now \in Moments
  /\ mtime \in Nat
  /\ \/ call = Idle
     \/ /\ call.op \in {"setdate", "settime"}
        /\ call.date \in Days
        /\ call.time \in Times
  /\ late \in 0..MaxLate
  /\ jumped \in BOOLEAN

IsDate(date) == date.day <= MonthDays[date.month]
Winter == ~ jumped /\ ~ IsSummer(now')

(* _dos_setdate with a date of the calendar, where there is no summer time *)
(* and nobody sets the clock meanwhile, makes the clock show that date and *)
(* the time it showed, less what went by since it was read, even if        *)
(* midnight went by.                                                       *)
SetDateKeepsTime ==
  [][SetClock /\ call.op = "setdate" /\ IsDate(call.date) /\ Winter =>
       GetDate' = call.date /\ GetTime' = (GetTime - late) % DayLength]_vars

(* _dos_settime, under the same conditions, makes the clock show that time *)
(* on the day it showed when the call read it: today, but yesterday if     *)
(* midnight has passed since, and the clock is then a day slow.            *)
SetTimeKeepsDate ==
  [][SetClock /\ call.op = "settime" /\ Winter =>
       /\ GetTime' = call.time
       /\ GetDate' = DayAndTime(mktime(GetDate, GetTime) - late).date]_vars

(* A file given the stamp some file has of 1980 or later shows that stamp, *)
(* in summer and in winter.                                                *)
From1980(m) == localtime[m].date.year >= DosYear
FtimeAsAsked ==
  [][\A m \in Moments :
       SetFtime(dostime_int[m]) /\ From1980(m) => GetFtime' = dostime_int[m]]_vars

(* A file given back the stamp it had, of 1980 or later, has its time      *)
(* back, to two seconds, or an hour off if it is of the hour shown twice.  *)
ShownTwice(m) == \E u \in {m - Hour, m + Hour} : u \in FileMoments /\ localtime[u] = localtime[m]
FtimeRestored ==
  [][\A m \in Moments :
       SetFtime(dostime_int[m]) /\ From1980(m) =>
         \E off \in {0} \cup { h \in {-Hour, Hour} : ShownTwice(m) } : m - mtime' - off \in 0..1]_vars

(* After _dos_settime, with no delay, the clock shows the time asked for   *)
(* (test dstime.c sets a time in July and displays it).                    *)
TimeShown ==
  [][SetClock /\ call.op = "settime" /\ ~ jumped => GetTime' = call.time]_vars

=============================================================================
