------------------------------- MODULE DkTime -------------------------------
(***************************************************************************)
(* Decimal time: src/src/dktime.c.  A value is a whole number of seconds   *)
(* since day 0 (dk_secs, a signed 64-bit integer); a day is DayLength      *)
(* seconds and prints as TicksPerDay fractions.                            *)
(*                                                                         *)
(* A text that may be a stamp is a record:                                 *)
(*   form  "decimal"  [+]DIGITS.DIGITS      "clock"  HH:MM[:SS]            *)
(*         "junk"     anything else                                        *)
(*   plus  a leading '+' was typed                                         *)
(*   mod   10^(the number of day digits in the text); 1: it has none       *)
(*   day   the digits' value; negative only in what dk_fmt_stamp prints    *)
(*         for an instant before day 0: a leading '-', which is not read   *)
(*   frac  the fraction in ticks ("clock": seconds into the civil day)     *)
(* A fraction has as many digits as dk_fmt_stamp prints: parse_decimal     *)
(* gives .5 and .5000 the same value.                                      *)
(***************************************************************************)
EXTENDS Integers, FiniteSets

CONSTANTS
  DayLength,      \* dk_day_length: seconds per personal day
  MinSecs,        \* LLONG_MIN, the least dk_secs
  MaxSecs,        \* LLONG_MAX, the greatest dk_secs
  TicksPerDay,    \* 10000: dk_fmt_stamp prints four fraction digits
  PadDigits,      \* 5: dk_fmt_stamp pads the day number to five digits
  MaxDayDigits,   \* 19: no day number in range has more digits
  CivilDay,       \* seconds in a day of the civil clock: 86400
  Epoch,          \* dk_epoch, a Unix time
  Zone(_),        \* local time minus UTC at a Unix time; 0 with --utc
  Offsets,        \* the values of Zone
  Guess(_),       \* the offset that mktime tries first for a local time
  FirstTime,      \* the first and the last Unix time that have a date:
  LastTime        \*   its year must fit an int

ASSUME DayAssumption == DayLength \in Nat \ {0} /\ TicksPerDay \in Nat \ {0}
ASSUME SecsAssumption == MinSecs \in Int /\ MaxSecs \in Int /\ 0 \in MinSecs..MaxSecs
ASSUME DigitsAssumption == MaxDayDigits \in 1..19 /\ PadDigits \in 1..MaxDayDigits
ASSUME CivilAssumption ==
  /\ CivilDay \in Nat \ {0} /\ Epoch \in Int /\ FirstTime \in Int /\ LastTime \in Int
  /\ Offsets \subseteq Int /\ Offsets # {}
  /\ \A u \in FirstTime..LastTime : Zone(u) \in Offsets

Secs == MinSecs..MaxSecs
Text == [form : {"decimal", "clock", "junk"}, plus : BOOLEAN,
         mod : Nat \ {0}, day : Int, frac : Nat]

Decimal(plus, mod, day, frac) ==
  [form |-> "decimal", plus |-> plus, mod |-> mod, day |-> day, frac |-> frac]
Clock(secs) ==
  [form |-> "clock", plus |-> FALSE, mod |-> 1, day |-> 0, frac |-> secs]
Junk ==
  [form |-> "junk", plus |-> FALSE, mod |-> 1, day |-> 0, frac |-> 0]

-----------------------------------------------------------------------------
(* Integer arithmetic.  C division truncates towards zero.                 *)

CDiv(a, b) == IF a >= 0 THEN a \div b ELSE -((-a) \div b)
CMod(a, b) == a - b * CDiv(a, b)

FloorDiv(a, b) ==
  IF CMod(a, b) # 0 /\ ((a < 0) # (b < 0)) THEN CDiv(a, b) - 1 ELSE CDiv(a, b)

FloorDivWide(a, b) == IF CMod(a, b) < 0 THEN CDiv(a, b) - 1 ELSE CDiv(a, b)

Day(s) == FloorDiv(s, DayLength)

(* What a function of the library returns: 0 and *out, -1 (not a stamp, or *)
(* out of range) or -2 (a full day number before START).                   *)
Good(v) == [r |-> 0, out |-> v]
Bad     == [r |-> -1, out |-> 0]
Before  == [r |-> -2, out |-> 0]

\* Mutant of Narrow: the range check is dropped.
NarrowUnchecked(v) == Good(v)

Narrow(v) == IF v \in Secs THEN Good(v) ELSE Bad

Add(a, b) == Narrow(a + b)
Sub(a, b) == Narrow(a - b)

-----------------------------------------------------------------------------
(* The civil clock, in a zone that may change.  Local time is counted like *)
(* Unix time, in seconds from 1970-01-01 00:00 as the clock shows it.      *)

Civil == FirstTime..LastTime

OnClock(u) == u + Zone(u)

\* The Unix times that the clock shows as a local time; of a local time that
\* the zone skips, that time by any offset.
UnixTimes(local) ==
  LET shown == {u \in {local - o : o \in Offsets} : OnClock(u) = local}
  IN IF shown # {} THEN shown ELSE {local - o : o \in Offsets}

\* mktime, with tm_isdst = -1.
UnixTime(local) ==
  IF local - Guess(local) \in UnixTimes(local) THEN local - Guess(local)
  ELSE CHOOSE u \in UnixTimes(local) : TRUE

\* from_tm: -1 is mktime's failure, unless the year is 1969.
FromTime(u) ==
  IF u \notin Civil \/ (u = -1 /\ OnClock(u) >= 0) THEN Bad ELSE Sub(u, Epoch)

\* clock_on: that time of day on the civil date of ref, plus days.
ClockOn(ref, days, secs) ==
  LET u == Add(ref, Epoch)
  IN IF u.r # 0 \/ u.out \notin Civil THEN Bad
     ELSE FromTime(UnixTime((OnClock(u.out) \div CivilDay + days) * CivilDay + secs))

\* What dk_parse_end may return as an END of START: one before START lies before
\* it by less than two of the zone's offsets differ.
IsEndOf(end, start) ==
  end >= start \/ \E a, b \in Offsets : start - end < a - b

-----------------------------------------------------------------------------
(* Completing a day number from its last digits.                           *)

\* ndigits(ref) digits or more: a full day number, nothing to complete.
IsFull(mod, ref) == ref < 0 \/ mod > ref

\* Mutant of NearestDay: the division truncates instead of flooring.
NearestDayTruncating(typed, m, ref, forward) ==
  IF forward THEN typed - CDiv(typed - ref, m) * m
             ELSE typed + CDiv(ref - typed, m) * m

\* The last day <= ref, or the first >= ref, congruent to typed modulo m.
NearestDay(typed, m, ref, forward) ==
  IF forward THEN typed - FloorDivWide(typed - ref, m) * m
             ELSE typed + FloorDivWide(ref - typed, m) * m

CompleteDay(typed, mod, ref, forward) ==
  IF mod = 1 THEN ref
  ELSE IF IsFull(mod, ref) THEN typed
  ELSE NearestDay(typed, mod, ref, forward)

-----------------------------------------------------------------------------
(* Reading.                                                                *)

ParsesDecimal(x) == x.form = "decimal" /\ x.day \in 0..MaxSecs

FracSecs(x) == (x.frac * DayLength + TicksPerDay \div 2) \div TicksPerDay

Compose(day, frac) == Narrow(day * DayLength + frac)

ParseStamp(x, now) ==
  IF x.form = "clock" THEN ClockOn(now, 0, x.frac)
  ELSE IF ~ParsesDecimal(x) THEN Bad
  ELSE Compose(CompleteDay(x.day, x.mod, Day(now), x.plus), FracSecs(x))

\* Mutant of ParseClockEnd: a time already past is not moved to the next day.
ClockEndSameDay(x, start) == ClockOn(start, 0, x.frac)

ParseClockEnd(x, start) ==
  LET today == ClockOn(start, 0, x.frac)
  IN IF today.r = 0 /\ today.out < start THEN ClockOn(start, 1, x.frac) ELSE today

\* Mutant of ParseDecimalEnd: the second try starts from START's day again.
DecimalEndSameDay(x, start) ==
  LET first == Compose(CompleteDay(x.day, x.mod, Day(start), TRUE), FracSecs(x))
  IN IF first.r = 0 /\ first.out < start /\ x.mod > 1 /\ IsFull(x.mod, Day(start))
     THEN Before ELSE first

\* Mutant of ParseDecimalEnd: an END equal to START is refused too.
DecimalEndAfterStart(x, start) ==
  LET first == Compose(CompleteDay(x.day, x.mod, Day(start), TRUE), FracSecs(x))
  IN IF ~(first.r = 0 /\ first.out <= start) THEN first
     ELSE IF x.mod > 1 /\ IsFull(x.mod, Day(start)) THEN Before
     ELSE Compose(CompleteDay(x.day, x.mod, Day(start) + 1, TRUE), FracSecs(x))

ParseDecimalEnd(x, start) ==
  LET ref     == Day(start)
      literal == x.mod > 1 /\ IsFull(x.mod, ref)
      first   == Compose(CompleteDay(x.day, x.mod, ref, TRUE), FracSecs(x))
  IN IF first.r = 0 /\ first.out < start
     THEN IF literal THEN Before
          ELSE Compose(CompleteDay(x.day, x.mod, ref + 1, TRUE), FracSecs(x))
     ELSE first

ParseEnd(x, start) ==
  IF x.form = "clock" THEN ParseClockEnd(x, start)
  ELSE IF ~ParsesDecimal(x) THEN Bad
  ELSE ParseDecimalEnd(x, start)

-----------------------------------------------------------------------------
(* Printing: ticks, rounded half up, as a day number padded to PadDigits   *)
(* digits and a fraction.                                                  *)

\* 10^k, for k up to 19, in factors that the provers can evaluate.
Pow10(k) == IF k <= 9 THEN 10^k ELSE 10^9 * (10 * 10^(k - 10))

\* A day before the last instant, or rounded up from it, has so many digits.
ASSUME DaysAssumption == MaxSecs \div DayLength + 1 < Pow10(MaxDayDigits)

NDigits(v) == 1 + Cardinality({k \in 1..(MaxDayDigits - 1) : Pow10(k) <= v})

PrintedMod(day) == Pow10(IF NDigits(day) < PadDigits THEN PadDigits ELSE NDigits(day))

Ticks(s) == FloorDivWide(s * TicksPerDay + DayLength \div 2, DayLength)

\* Mutant of FmtStamp: a fraction that rounds up to 1 does not carry.
FmtStampNoCarry(s) ==
  Decimal(FALSE, PrintedMod(Day(s)), Day(s),
          Ticks(s) - FloorDivWide(Ticks(s), TicksPerDay) * TicksPerDay)

FmtStamp(s) ==
  LET t   == Ticks(s)
      day == FloorDivWide(t, TicksPerDay)
  IN Decimal(FALSE, PrintedMod(day), day, t - day * TicksPerDay)

=============================================================================
