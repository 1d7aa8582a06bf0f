------------------------------ MODULE Command -------------------------------
(***************************************************************************)
(* The daykeep command, src/src/daykeep.c: options, settings, the clock,   *)
(* --now and --convert, standard output and the exit status.  Summing      *)
(* (module Sum) and the tracker (module Tracker) stand here for the status *)
(* they return and for output.                                             *)
(*                                                                         *)
(* Options, lines of the configuration file and operands come one at a     *)
(* time.  Bounds: MaxOptions, MaxLines and MaxOperands of them.            *)
(***************************************************************************)
EXTENDS Integers, Sequences

CONSTANTS
  MinSecs, MaxSecs, TicksPerDay, PadDigits, MaxDayDigits, CivilDay,
  Zone(_), Offsets, FirstTime, LastTime, MinuteSecs, Years,   \* see DkTime and CivilClock
  Unset, Empty,   \* no value; an environment variable without text
  EpochTexts,     \* dates that --epoch and the like are given
  LengthTexts,    \* day lengths: numbers
  MaxDayLength,   \* 1000000000
  DefaultEpoch, DefaultLength,
  Clocks,         \* Unix times that time() returns or DAYKEEP_NOW gives
  NowTexts,       \* stamps that DAYKEEP_NOW gives
  Operands,       \* VALUEs of --convert: stamps, times of day and dates
  MaxOptions, MaxLines, MaxOperands

ASSUME CommandAssumption ==
  /\ MinSecs \in Int /\ MaxSecs \in Int /\ 0 \in MinSecs..MaxSecs
  /\ MaxDayLength \in Nat \ {0} /\ DefaultLength \in 1..MaxDayLength
  /\ MaxOptions \in Nat /\ MaxLines \in Nat /\ MaxOperands \in Nat

\* The library, with dk_epoch and dk_day_length set.  No Guess is needed: mktime's
\* choice is left open here.
Lib(epoch, length) ==
  INSTANCE CivilClock WITH Epoch <- epoch, DayLength <- length, Guess <- Zone

\* The time that a date shows.
LocalTime(x) == Lib(0, 1)!DaysFromCivil(x.year, x.month, x.day) * CivilDay + x.secs

\* Years have four digits: a date is far from the ends of dk_secs, counted from
\* 1970 or from the default day 0 (dk_parse_date).
ASSUME DatesAssumption ==
  /\ DefaultEpoch \in MinSecs..MaxSecs /\ CivilDay \in Nat \ {0}
  /\ EpochTexts \subseteq Lib(0, 1)!Dates
  /\ FirstTime \in Int /\ LastTime \in Int
  /\ \A x \in EpochTexts :
       LET local == LocalTime(x)
       IN local \in FirstTime..LastTime /\ {local - DefaultEpoch, local - DefaultEpoch - x.off, local - x.off} \subseteq MinSecs..MaxSecs

\* Day 0 is the default one or a date.
Epochs == {DefaultEpoch} \union {LocalTime(x) - x.off : x \in EpochTexts}

\* So is a date that is converted, or printed in full, also counted from day 0.
ASSUME ConvertAssumption ==
  /\ TicksPerDay \in Nat \ {0} /\ MinuteSecs \in Nat \ {0} /\ Years \subseteq Int
  /\ Offsets \subseteq Int /\ \A u \in FirstTime..LastTime : Zone(u) \in Offsets
  /\ Operands \subseteq Lib(0, 1)!Text \union Lib(0, 1)!Dates
  /\ \A x \in Operands, e \in Epochs, o \in Offsets \union {0} : x \in Lib(0, 1)!Dates =>
       /\ {LocalTime(x) - o - e, LocalTime(x) - o - e - x.off} \subseteq MinSecs..MaxSecs
       /\ LocalTime(x) - o \in FirstTime..LastTime
  /\ \A y \in Years, m \in 0..12, e \in Epochs :
       LET start == Lib(0, 1)!MonthStart(12 * y + m) * CivilDay
       IN start - e \in MinSecs..MaxSecs /\ start \in FirstTime..LastTime

Settings == {"epoch", "day_length"}
Values(s) == IF s = "epoch" THEN EpochTexts ELSE LengthTexts

VARIABLES
  pc, mode, append, file, utc,
  opt,        \* the value of each setting's option, or Unset
  env,        \* of its environment variable: Unset, Empty or a value
  conf,       \* of the last line in the configuration file that sets it, if needed
  seen,       \* the lines of the file so far that set something
  epoch, dayLength, now,
  done,       \* operands so far
  shown,      \* the VALUE just converted, and to what; or Unset
  status, code,
  why,        \* what ended the command early, if anything
  printed,    \* something was written to standard output
  failed,     \* ferror(stdout)
  lost        \* some output was lost

optVars  == <<mode, append, file, utc, opt>>
confVars == <<env, conf, seen>>
libVars  == <<epoch, dayLength, now>>
workVars == <<done, shown, status>>
outVars  == <<printed, failed, lost>>
vars == <<pc, optVars, confVars, libVars, workVars, code, why, outVars>>

Init ==
  /\ pc = "options" /\ mode = "sum" /\ append = FALSE /\ file = FALSE /\ utc = FALSE
  /\ opt = [s \in Settings |-> Unset]
  /\ \E e \in {Unset, Empty} \union EpochTexts, l \in {Unset, Empty} \union LengthTexts :
       env = [epoch |-> e, day_length |-> l]
  /\ conf = [s \in Settings |-> Unset] /\ seen = <<>>
  /\ epoch = DefaultEpoch /\ dayLength = DefaultLength /\ now = 0
  /\ done = 0 /\ shown = Unset /\ status = 0
  /\ code = 0 /\ why = "" /\ printed = FALSE /\ failed = FALSE /\ lost = FALSE

\* The process calls exit(c), or returns c from main.
Leaves(c, reason) ==
  /\ pc' = "exit" /\ code' = c /\ why' = reason

\* Something is printed; the stream may have to be flushed, and fail.
Prints ==
  /\ printed' = TRUE
  /\ \/ UNCHANGED <<failed, lost>>
     \/ failed' = TRUE /\ lost' = TRUE

-----------------------------------------------------------------------------
(* main: the options.                                                      *)

ModeOption(m) ==
  \/ mode = "sum" /\ mode' = m /\ UNCHANGED <<pc, code, why>>
  \/ mode # "sum" /\ Leaves(2, "usage") /\ UNCHANGED mode

Option ==
  /\ pc = "options" /\ done < MaxOptions /\ done' = done + 1
  /\ \/ \E m \in {"now", "convert", "track"} : ModeOption(m)
        /\ UNCHANGED <<append, file, utc, opt>>
     \/ append' = TRUE /\ UNCHANGED <<pc, mode, file, utc, opt, code, why>>
     \/ file' = TRUE /\ UNCHANGED <<pc, mode, append, utc, opt, code, why>>
     \/ utc' = TRUE /\ UNCHANGED <<pc, mode, append, file, opt, code, why>>
     \/ \E s \in Settings : \E v \in Values(s) :
          opt' = [opt EXCEPT ![s] = v] /\ UNCHANGED <<pc, mode, append, file, utc, code, why>>
     \/ Leaves(2, "usage") /\ UNCHANGED optVars      \* an unknown one, a bad --format
  /\ UNCHANGED <<confVars, libVars, shown, status, outVars>>

\* --help and --version.
Help ==
  /\ pc = "options" /\ Leaves(0, "help") /\ Prints
  /\ UNCHANGED <<optVars, confVars, libVars, workVars>>

EndOptions ==
  /\ pc = "options" /\ done' = 0
  /\ \/ /\ (mode # "sum" /\ file) \/ (append /\ mode # "track")
        /\ Leaves(2, "usage")
     \/ /\ ~(mode # "sum" /\ file) /\ ~(append /\ mode # "track")
        /\ pc' = "configure" /\ UNCHANGED <<code, why>>
  /\ UNCHANGED <<optVars, confVars, libVars, shown, status, outVars>>

-----------------------------------------------------------------------------
(* The settings.                                                           *)

\* Mutant of SetDayLength: any number is a day length.
SetDayLengthUnchecked(v) == Lib(0, 1)!Good(v)

SetDayLength(v) == IF v \in 1..MaxDayLength THEN Lib(0, 1)!Good(v) ELSE Lib(0, 1)!Bad

Set(s, v) == IF s = "epoch" THEN Lib(epoch, 1)!SetEpoch(v, epoch) ELSE SetDayLength(v)

\* The value of a setting's option, else of its environment variable.
Given(s) ==
  IF opt[s] # Unset THEN opt[s] ELSE IF env[s] # Empty THEN env[s] ELSE Unset

\* Set the settings that have a value; an invalid one ends the command.
SetAll(value, next) ==
  LET given == {s \in Settings : value[s] # Unset}
  IN \/ /\ \A s \in given : Set(s, value[s]).r = 0
        /\ epoch' = IF "epoch" \in given THEN Set("epoch", value.epoch).out ELSE epoch
        /\ dayLength' = IF "day_length" \in given
                        THEN Set("day_length", value.day_length).out ELSE dayLength
        /\ pc' = next /\ UNCHANGED <<code, why>>
     \/ /\ \E s \in given : Set(s, value[s]).r # 0
        /\ Leaves(2, "value") /\ UNCHANGED <<epoch, dayLength>>

Needed == {s \in Settings : Given(s) = Unset}

Configure ==
  /\ pc = "configure"
  /\ SetAll([s \in Settings |-> Given(s)], IF Needed = {} THEN "clock" ELSE "open")
  /\ UNCHANGED <<optVars, confVars, now, workVars, outVars>>

\* read_config: a file that does not exist is fine, one that does not open is not.
OpenConfig ==
  /\ pc = "open"
  /\ \/ pc' \in {"clock", "lines"} /\ UNCHANGED <<code, why>>
     \/ Leaves(2, "file")
  /\ UNCHANGED <<optVars, confVars, libVars, workVars, outVars>>

\* Mutant of ReadLine: the first value of a setting counts.
ReadLineFirst ==
  /\ pc = "lines" /\ Len(seen) < MaxLines
  /\ \/ Leaves(2, "file") /\ UNCHANGED <<conf, seen>>
     \/ \E s \in Settings : \E v \in Values(s) :
          /\ seen' = Append(seen, [set |-> s, to |-> v])
          /\ conf' = IF s \in Needed /\ conf[s] = Unset THEN [conf EXCEPT ![s] = v] ELSE conf
          /\ UNCHANGED <<pc, code, why>>
  /\ UNCHANGED <<optVars, env, libVars, workVars, outVars>>

\* A malformed line or an unknown setting; or a line that sets something.
ReadLine ==
  /\ pc = "lines" /\ Len(seen) < MaxLines
  /\ \/ Leaves(2, "file") /\ UNCHANGED <<conf, seen>>
     \/ \E s \in Settings : \E v \in Values(s) :
          /\ seen' = Append(seen, [set |-> s, to |-> v])
          /\ conf' = IF s \in Needed THEN [conf EXCEPT ![s] = v] ELSE conf
          /\ UNCHANGED <<pc, code, why>>
  /\ UNCHANGED <<optVars, env, libVars, workVars, outVars>>

\* The end of the file, or a read error.
EndConfig ==
  /\ pc = "lines"
  /\ \/ SetAll(conf, "clock")
     \/ Leaves(2, "file") /\ UNCHANGED <<epoch, dayLength>>
  /\ UNCHANGED <<optVars, confVars, now, workVars, outVars>>

\* clock_now.
ClockNow ==
  /\ pc = "clock"
  /\ \E v \in {Lib(0, 1)!Sub(t, epoch) : t \in Clocks}
              \union {Lib(epoch, dayLength)!ParseLiteral(x) : x \in NowTexts} :
       \/ v.r = 0 /\ now' = v.out /\ pc' = "work" /\ UNCHANGED <<code, why>>
       \/ v.r # 0 /\ Leaves(2, "clock") /\ UNCHANGED now
  /\ UNCHANGED <<optVars, confVars, epoch, dayLength, workVars, outVars>>

-----------------------------------------------------------------------------
(* The modes.                                                              *)

\* An operand too many, or none to convert.
OperandError ==
  /\ pc = "work" /\ done = 0 /\ mode # "sum"
  /\ Leaves(2, "usage")
  /\ UNCHANGED <<optVars, confVars, libVars, workVars, outVars>>

Now ==
  /\ pc = "work" /\ mode = "now" /\ Prints
  /\ Leaves(0, "")
  /\ UNCHANGED <<optVars, confVars, libVars, workVars>>

\* Not an exit status: the process died by a signal.
Signalled == 3

\* track returns, or raises a caught signal again: standard output is flushed
\* before, but nobody looks whether it was, and close_stdout does not run.
Track ==
  /\ pc = "work" /\ mode = "track" /\ Prints
  /\ \/ Leaves(0, "") \/ Leaves(2, "tracker")
     \/ pc' = "ended" /\ code' = Signalled /\ why' = "signal"
  /\ UNCHANGED <<optVars, confVars, libVars, workVars>>

Sums ==
  /\ pc = "work" /\ mode = "sum" /\ Prints
  /\ \E st \in 0..2 : status' = st /\ Leaves(st, "")
  /\ UNCHANGED <<optVars, confVars, libVars, done, shown>>

IsDate(v) == "year" \in DOMAIN v

\* What convert reads a VALUE as.
Reads(v) ==
  IF IsDate(v) THEN Lib(epoch, dayLength)!ParseDate(v, utc, epoch)
  ELSE Lib(epoch, dayLength)!ParseTime(v, now, utc)

\* And how it prints it: a stamp as a date, anything else as a stamp.
Converted(v, s) ==
  IF ~IsDate(v) /\ v.form = "decimal" THEN Lib(epoch, dayLength)!FmtClock(s, utc)
  ELSE Lib(epoch, dayLength)!FmtStamp(s)

Convert ==
  /\ pc = "work" /\ mode = "convert" /\ done < MaxOperands /\ done' = done + 1
  /\ \E v \in Operands : \E read \in Reads(v) :
       \/ /\ read.r = 0 /\ Prints /\ UNCHANGED status
          /\ shown' = [value |-> v, at |-> read, as |-> Converted(v, read.out)]
       \/ /\ read.r # 0 /\ status' = 1 /\ UNCHANGED outVars
          /\ shown' = [value |-> v, at |-> read, as |-> Unset]
  /\ UNCHANGED <<pc, optVars, confVars, libVars, code, why>>

EndConvert ==
  /\ pc = "work" /\ mode = "convert" /\ done > 0
  /\ Leaves(status, "")
  /\ UNCHANGED <<optVars, confVars, libVars, workVars, outVars>>

\* Mutant of CloseStdout: only the last write is looked at.
CloseStdoutLast ==
  /\ pc = "exit" /\ pc' = "ended"
  /\ \/ UNCHANGED <<code, lost>>
     \/ code' = 2 /\ lost' = TRUE
  /\ UNCHANGED <<optVars, confVars, libVars, workVars, why, printed, failed>>

\* close_stdout: an error of fclose or an earlier one, whatever the status was.
CloseStdout ==
  /\ pc = "exit" /\ pc' = "ended"
  /\ \/ code' = (IF failed THEN 2 ELSE code) /\ UNCHANGED lost
     \/ code' = 2 /\ lost' = TRUE
  /\ UNCHANGED <<optVars, confVars, libVars, workVars, why, printed, failed>>

Next ==
  \/ Option \/ Help \/ EndOptions
  \/ Configure \/ OpenConfig \/ ReadLine \/ EndConfig \/ ClockNow
  \/ OperandError \/ Now \/ Track \/ Sums \/ Convert \/ EndConvert \/ CloseStdout

Spec == Init /\ [][Next]_vars

-----------------------------------------------------------------------------
(* Properties.                                                             *)

TypeOK ==
  /\ pc \in {"options", "configure", "open", "lines", "clock", "work", "exit", "ended"}
  /\ mode \in {"sum", "now", "convert", "track"} /\ {append, file, utc} \subseteq BOOLEAN
  /\ \A s \in Settings : {opt[s], conf[s]} \subseteq Values(s) \union {Unset}
  /\ epoch \in MinSecs..MaxSecs /\ dayLength \in 1..MaxDayLength /\ now \in MinSecs..MaxSecs
  /\ status \in 0..2 /\ code \in 0..2 \union {Signalled} /\ {printed, failed, lost} \subseteq BOOLEAN

\* The value that the manual says a setting has (doc/daykeep.texi:183-191): its
\* option, else its nonempty variable, else the last in the file; Unset: none.
Effective(s) ==
  LET inFile == {i \in 1..Len(seen) : seen[i].set = s}
  IN IF opt[s] # Unset THEN opt[s]
     ELSE IF env[s] \notin {Unset, Empty} THEN env[s]
     ELSE IF inFile = {} THEN Unset
     ELSE seen[CHOOSE i \in inFile : \A j \in inFile : j <= i].to

\* Is a date one of the calendar, its year in four digits?
IsReal(x) ==
  /\ x.full /\ x.month \in 1..12 /\ x.day >= 1
  /\ LET n == 12 * x.year + x.month - 1
     IN Lib(0, 1)!MonthStart(n) + x.day - 1 < Lib(0, 1)!MonthStart(n + 1)

UnixTime(x) == LocalTime(x) - x.off

IsValid(s, v) ==
  IF s = "epoch" THEN IsReal(v) ELSE v \in 1..MaxDayLength

\* Day 0 and the day length are those of the effective values, each on its own:
\* day 0 is the moment that the date names, in UTC or with its offset, whatever
\* it was before (configure, read_config, dk_set_epoch).
SettingsResolve ==
  pc \in {"clock", "work"} =>
    /\ epoch = (IF Effective("epoch") = Unset THEN DefaultEpoch ELSE UnixTime(Effective("epoch")))
    /\ dayLength = (IF Effective("day_length") = Unset THEN DefaultLength
                    ELSE Effective("day_length"))

\* A value that is overridden is no error, nor is anything in a file that is not
\* needed; an effective value that is invalid always is (configure, read_config).
OnlyUsedValuesMatter ==
  /\ why = "value" => \E s \in Settings : Effective(s) # Unset /\ ~IsValid(s, Effective(s))
  /\ why = "file" => \E s \in Settings : opt[s] = Unset /\ env[s] \in {Unset, Empty}
  /\ pc \in {"clock", "work"} =>
       \A s \in Settings : Effective(s) # Unset => IsValid(s, Effective(s))

\* A local date that mktime may give as -1, when that lies in 1970: from_tm takes it
\* for a failure.
TakenForFailure(x) ==
  /\ ~x.zoned /\ ~utc /\ Lib(0, 1)!Local(-1, FALSE) >= 0
  /\ -1 \in Lib(0, 1)!MkTime(LocalTime(x), FALSE)

\* Of the stamp just converted: the year of its date has four digits, and the
\* zone was whole minutes from UTC.
PrintedInFull ==
  LET u == shown.at.out + epoch
  IN shown.as.full /\ (Lib(0, 1)!Local(u, utc) - u) % MinuteSecs = 0

ReadBack(x) == \A u \in BOOLEAN : Lib(epoch, dayLength)!ParseDate(x, u, epoch) = {shown.at}

\* What convert prints for a stamp, it reads back as the same moment, in any zone
\* and whatever hour was repeated; and it reads the dates of the calendar and no
\* others, save for one second (dk_fmt_clock, dk_parse_date).
ConvertReadsBack ==
  pc = "work" /\ shown # Unset =>
    IF IsDate(shown.value)
    THEN /\ shown.at.r = 0 => IsReal(shown.value)
         /\ IsReal(shown.value) /\ ~TakenForFailure(shown.value) => shown.at.r = 0
    ELSE shown.at.r = 0 /\ shown.value.form = "decimal" /\ PrintedInFull => ReadBack(shown.as)

\* "0 if all went well, 1 if some input was invalid, and 2 for usage or I/O
\* errors" (daykeep.c:120-121), a lost write to standard output among them, even
\* one before the last or after the status was settled; only a tracker that dies by
\* a signal has no status to tell it with (set_status, close_stdout, track).
StatusTells ==
  /\ shown # Unset /\ shown.at.r # 0 => status = 1
  /\ pc = "ended" =>
       \/ code = (IF lost \/ why \notin {"", "help"} THEN 2 ELSE status)
       \/ code = Signalled /\ mode = "track"

=============================================================================
