----------------------------- MODULE CivilClock -----------------------------
(***************************************************************************)
(* The civil clock of src/src/dktime.c beyond what DkTime has of it: dates *)
(* and the epoch, and times of day read in UTC as well as in the zone.     *)
(*                                                                         *)
(* Of a local time that the zone repeats or skips, mktime may return any   *)
(* of UnixTimes here, a different one each time; what depends on it        *)
(* returns a set of results.                                               *)
(*                                                                         *)
(* A date text is a record: year, month, day, secs into the day, and       *)
(* zoned: it ends in an offset from UTC, off (0 if not).  full says that   *)
(* its year has four digits, as a text that is read must.                  *)
(***************************************************************************)
EXTENDS DkTime

CONSTANTS
  MinuteSecs,  \* 60
  Years        \* the years that strftime prints with four digits

Dates == [full : BOOLEAN, year : Int, month : Int, day : Int, secs : Nat, zoned : BOOLEAN, off : Int]

-----------------------------------------------------------------------------
(* The C library.                                                          *)

\* Days from 1970-01-01 to a date of the Gregorian calendar, years from March.
DaysFromCivil(y, m, d) ==
  LET yy == IF m <= 2 THEN y - 1 ELSE y
      n  == (m + 9) % 12
  IN 365 * yy + yy \div 4 - yy \div 100 + yy \div 400 + (153 * n + 2) \div 5 + d - 719469

\* The first day of a month, months counted from year 0.
MonthStart(n) == DaysFromCivil(n \div 12, (n % 12) + 1, 1)

\* The month of a day: a month or two from where months of equal length, 400
\* years of them in 146097 days, would have it.
MonthOf(days) ==
  LET near == 12 * 1970 + 4800 * (days \div 146097) + (4800 * (days % 146097)) \div 146097
  IN CHOOSE n \in (near - 2)..(near + 2) : MonthStart(n) <= days /\ days < MonthStart(n + 1)

Local(u, utc) == u + (IF utc THEN 0 ELSE Zone(u))

MkTime(local, utc) == IF utc THEN {local} ELSE UnixTimes(local)

-----------------------------------------------------------------------------

\* from_tm: -1 is mktime's failure, unless the year is 1969.
FromTm(local, utc, epoch) ==
  {IF u \notin Civil \/ (u = -1 /\ Local(u, utc) >= 0) THEN Bad ELSE Sub(u, epoch) :
     u \in MkTime(local, utc)}

\* That time of day on the civil date of ref, plus days.
TimeOn(ref, days, secs, utc) ==
  LET u == Add(ref, Epoch)
  IN IF u.r # 0 \/ u.out \notin Civil THEN {Bad}
     ELSE FromTm((Local(u.out, utc) \div CivilDay + days) * CivilDay + secs, utc, Epoch)

ParseTime(x, now, utc) ==
  IF x.form = "clock" THEN TimeOn(now, 0, x.frac, utc) ELSE {ParseStamp(x, now)}

\* dk_parse_literal: a full day number and fraction.
ParseLiteral(x) ==
  IF ~ParsesDecimal(x) \/ x.plus \/ x.mod = 1 THEN Bad ELSE Compose(x.day, FracSecs(x))

\* dk_parse_end of a clock time.
ParseTimeEnd(x, start, utc) ==
  UNION {IF today.r = 0 /\ today.out < start THEN TimeOn(start, 1, x.frac, utc) ELSE {today} :
           today \in TimeOn(start, 0, x.frac, utc)}

\* Mutant of Leap: every fourth year.
LeapFourth(y) == y % 4 = 0

Leap(y) == (y % 4 = 0 /\ y % 100 # 0) \/ y % 400 = 0

MonthDays(y, m) ==
  <<31, 28, 31, 30, 31, 30, 31, 31, 30, 31, 30, 31>>[m]
    + (IF m = 2 /\ Leap(y) THEN 1 ELSE 0)

\* Mutant of ParseDate: an offset is read, the date before it as local time.
ParseDateLocal(x, utc, epoch) ==
  IF ~x.full \/ x.month \notin 1..12 THEN {Bad}
  ELSE IF x.day \notin 1..MonthDays(x.year, x.month) THEN {Bad}
  ELSE LET local == DaysFromCivil(x.year, x.month, x.day) * CivilDay + x.secs
       IN {IF v.r = 0 THEN Sub(v.out, x.off) ELSE Bad : v \in FromTm(local, utc, epoch)}

ParseDate(x, utc, epoch) ==
  IF ~x.full \/ x.month \notin 1..12 THEN {Bad}
  ELSE IF x.day \notin 1..MonthDays(x.year, x.month) THEN {Bad}
  ELSE LET local == DaysFromCivil(x.year, x.month, x.day) * CivilDay + x.secs
       IN {IF v.r = 0 THEN Sub(v.out, x.off) ELSE Bad : v \in FromTm(local, utc \/ x.zoned, epoch)}

\* Mutant of SetEpoch: the date, read from the epoch so far, replaces it.
SetEpochRelative(x, epoch) == CHOOSE v \in ParseDate(x, TRUE, epoch) : TRUE

SetEpoch(x, epoch) ==
  LET v == CHOOSE v \in ParseDate(x, TRUE, epoch) : TRUE
  IN IF v.r = 0 THEN Add(epoch, v.out) ELSE Bad

\* What dk_fmt_clock prints for an instant with no date: "?".
NoDate == [full |-> FALSE, year |-> 0, month |-> 0, day |-> 0, secs |-> 0, zoned |-> FALSE, off |-> 0]

\* dk_fmt_clock: a year has as many digits as it has, the offset whole minutes,
\* as %Y and %z print them.
FmtClock(s, utc) ==
  LET u     == Add(s, Epoch)
      local == Local(u.out, utc)
      month == MonthOf(local \div CivilDay)
  IN IF u.r # 0 \/ u.out \notin Civil THEN NoDate
     ELSE [full |-> month \div 12 \in Years, year |-> month \div 12, month |-> (month % 12) + 1,
           day |-> local \div CivilDay - MonthStart(month) + 1, secs |-> local % CivilDay,
           zoned |-> TRUE, off |-> CDiv(local - u.out, MinuteSecs) * MinuteSecs]

=============================================================================
