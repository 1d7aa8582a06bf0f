---------------------------- MODULE DkTimeCheck -----------------------------
(***************************************************************************)
(* The library of DkTime driven by a caller: one call, made with any       *)
(* instant and any text (the library keeps no state between calls).  The   *)
(* properties compare what it returned with a reference definition that    *)
(* searches for the answer.                                                *)
(***************************************************************************)
EXTENDS DkTime, FiniteSetsExt

CONSTANTS Instants,   \* the instants a call is made with
          Typed       \* the texts it is made with

\* k digits are worth less than 10^k, and HH:MM:SS less than a civil day.
ASSUME InputsAssumption ==
  /\ Instants \subseteq Secs /\ Typed \subseteq Text
  /\ \A x \in Typed : x.form = "decimal" => x.day \in 0..(x.mod - 1)
  /\ \A x \in Typed : x.form = "clock" => x.frac < CivilDay

\* Two offsets of a zone differ by less than a day.
ASSUME OffsetsAssumption == \A a, b \in Offsets : a - b < CivilDay

VARIABLES op,         \* the call made
          ref,        \* its reference instant: now, or START
          text,       \* its text
          result,     \* what it returned
          printed     \* the instant whose print was read back

vars == <<op, ref, text, result, printed>>

Init == /\ op = "none" /\ ref = 0 /\ text = Junk
        /\ result = Bad /\ printed = 0

CallParseStamp == \E now \in Instants, x \in Typed :
  /\ op = "none" /\ op' = "parse_stamp" /\ ref' = now /\ text' = x
  /\ result' = ParseStamp(x, now)
  /\ UNCHANGED printed

CallParseEnd == \E start \in Instants, x \in Typed :
  /\ op = "none" /\ op' = "parse_end" /\ ref' = start /\ text' = x
  /\ result' = ParseEnd(x, start)
  /\ UNCHANGED printed

\* Print an instant and read the text back, the clock at now.
CallPrintRead == \E s \in Instants, now \in Instants :
  /\ op = "none" /\ op' = "print_read" /\ ref' = now /\ text' = FmtStamp(s)
  /\ result' = ParseStamp(FmtStamp(s), now)
  /\ printed' = s

\* Print a range START - END and read it back as a line of a log.
CallPrintRange == \E start \in Instants, end \in Instants :
  /\ start <= end
  /\ op = "none" /\ op' = "print_range" /\ text' = FmtStamp(end) /\ printed' = end
  /\ ref' = ParseStamp(FmtStamp(start), start).out
  /\ result' = ParseEnd(FmtStamp(end), ParseStamp(FmtStamp(start), start).out)

Next == CallParseStamp \/ CallParseEnd \/ CallPrintRead \/ CallPrintRange
Spec == Init /\ [][Next]_vars

TypeOK == /\ op \in {"none", "parse_stamp", "parse_end", "print_read", "print_range"}
          /\ ref \in Secs /\ text \in Text /\ printed \in Instants \union {0}
          /\ result.r \in {0, -1, -2} /\ result.out \in Secs

-----------------------------------------------------------------------------
(* Reference: every day that ends in the typed digits.  Digits that are    *)
(* completed are fewer than today's, so that some day ends in them before  *)
(* twice the last day of the range.                                        *)

LastDay == 2 * (MaxSecs \div DayLength) + 1
EndsIn(x) == {d \in 0..LastDay : d % x.mod = x.day}

\* The instants an unfinished text may mean: its fraction on each such day.
Means(x) == {d * DayLength + FracSecs(x) : d \in EndsIn(x)}

IfFits(v) == IF v <= MaxSecs THEN Good(v) ELSE Bad

\* A decimal stamp with digits missing is the most recent day up to today
\* that ends in the typed digits, or with '+' the first such day from today
\* on; with none missing it is taken literally (complete_day, dk_parse_stamp).
CompletionIsNearest ==
  LET today == Day(ref)
      past  == {d \in EndsIn(text) : d <= today}
      next  == {d \in EndsIn(text) : d >= today}
  IN (op = "parse_stamp" /\ text.form = "decimal" /\ text.day >= 0 /\ today >= 0)
     => result = IfFits(FracSecs(text) + DayLength *
                   (IF text.mod > today /\ text.mod > 1 THEN text.day
                    ELSE IF text.plus THEN Min(next) ELSE Max(past)))

\* A range END is the first instant not before START that its text can mean;
\* a full day number before START is refused (dk_parse_end).  A fraction that
\* rounds up to a whole day is left out: it means an instant of the next day.
EndIsFirst ==
  LET full  == text.mod > 1 /\ text.mod > Day(ref)
      value == text.day * DayLength + FracSecs(text)
  IN (op = "parse_end" /\ text.form = "decimal" /\ text.day >= 0
        /\ ref >= 0 /\ FracSecs(text) < DayLength)
     => result = IF full THEN IF value > MaxSecs THEN Bad
                              ELSE IF value < ref THEN Before ELSE Good(value)
                 ELSE IfFits(Min({v \in Means(text) : v >= ref}))

\* The zone is the same from two days before START to three days after it.
SteadyAround(start) ==
  \A u \in (start + Epoch - 2 * CivilDay)..(start + Epoch + 3 * CivilDay) :
    u \in Civil /\ Zone(u) = Zone(start + Epoch)

\* A clock END is the first instant not before START at which the civil clock
\* shows that time, unless the zone changes near START (dk_parse_end, clock_on).
ClockEndIsFirst ==
  (op = "parse_end" /\ text.form = "clock" /\ result.r = 0 /\ SteadyAround(ref))
  => /\ result.out >= ref /\ result.out - ref < CivilDay
     /\ OnClock(result.out + Epoch) % CivilDay = text.frac

\* A printed stamp is read back as the instant printed, to within half a tick
\* and half a second, and prints as the same text again: accepting the tracker's
\* prefilled edit changes nothing a log shows (dk_fmt_stamp, dk_parse_stamp).
PrintIsStable ==
  (op = "print_read" /\ printed >= 0 /\ result.r = 0 /\ text.mod > Day(ref))
  => /\ 2 * TicksPerDay * (result.out - printed) \in
          -(DayLength + TicksPerDay)..(DayLength + TicksPerDay)
     /\ FmtStamp(result.out) = text

\* A printed range is read back as a range: START and END in any entry the
\* tracker writes, however they round, are never refused as END before START,
\* and END keeps its printed day (dk_fmt_stamp, dk_parse_end).
PrintedRangeReads ==
  (op = "print_range" /\ ref >= 0)
  => result.r # -2 /\ (result.r = 0 => FmtStamp(result.out) = text)

\* "Every stamp from day 0 on reads back as exactly that stamp, without
\* completion ... provided its rounded value fits" (doc/daykeep.texi:269-271).
ReadsBackWithoutCompletion ==
  (op = "print_read" /\ printed >= 0 /\ result.r = 0) => FmtStamp(result.out) = text

=============================================================================
