-------------------------------- MODULE Sum ---------------------------------
(***************************************************************************)
(* daykeep's sum mode, src/src/daykeep.c: the ranges of the operands, then *)
(* of each FILE, else of standard input, added up.                         *)
(*                                                                         *)
(* A line is a sequence of tokens, stamps (Text of DkTime) and dashes; it  *)
(* comes one token at a time.  A FILE may be missing, and may end in a     *)
(* read error, which cuts its last line.  Bounds: MaxLines lines in all,   *)
(* of MaxTokens tokens.                                                    *)
(***************************************************************************)
EXTENDS SumLines, SequencesExt

CONSTANTS Instants,   \* what t_now can be
          Words,      \* the tokens that are no dash
          Commands,   \* the sources of a command line, in order
          MinuteSecs, \* 60
          HourMinutes,\* 60
          MaxTokens, MaxLines

ASSUME SumAssumption ==
  /\ Instants \subseteq Secs /\ Words \subseteq Text /\ MaxTokens \in Nat /\ MaxLines \in Nat
  /\ Commands \subseteq Seq({"operands", "file", "stdin"})
  /\ MinuteSecs \in Nat \ {0} /\ HourMinutes \in Nat \ {0}

VARIABLES
  summarize,        \* -s
  todo,             \* the sources not opened yet
  source,           \* the one being read, "none" between two
  state,            \* what sum_line wants next; "dropped": the line had an error
  start,            \* its START
  total, status,
  printed,          \* the totals printed, in order
  lines,            \* all lines so far, the current one last
  broken            \* a FILE was missing or had a read error

inVars  == <<now, summarize, todo, source>>
outVars == <<total, status, printed>>
vars    == <<inVars, state, start, outVars, lines, broken>>

-----------------------------------------------------------------------------
(* Durations, as fmt_dur prints them: half a unit is rounded up.           *)

Magnitude(d) == IF d < 0 THEN -d ELSE d

\* Mutant of Minutes: the seconds are cut off.
MinutesCut(d) == Magnitude(d) \div MinuteSecs

Minutes(d) == (Magnitude(d) + MinuteSecs \div 2) \div MinuteSecs

FmtDur(d) == [neg |-> d < 0, whole |-> Ticks(Magnitude(d)) \div TicksPerDay,
              part |-> Ticks(Magnitude(d)) % TicksPerDay]
FmtHm(d)  == [neg |-> d < 0, whole |-> Minutes(d) \div HourMinutes,
              part |-> Minutes(d) % HourMinutes]

-----------------------------------------------------------------------------

Init ==
  /\ now \in Instants /\ summarize \in BOOLEAN /\ todo \in Commands
  /\ source = "none" /\ state = "START" /\ start = 0
  /\ total = 0 /\ status = 0 /\ printed = <<>>
  /\ lines = <<>> /\ broken = FALSE

Reading == source \notin {"none", "done"} /\ state # "eof"

Worst(st) == IF st > status THEN st ELSE status

\* Mutant of BadInput: what comes after the error is read as a new range.
BadInputGoesOn ==
  /\ status' = Worst(1) /\ state' = "START"
  /\ UNCHANGED <<start, total, printed>>

\* bad_input, and sum_line returns.
BadInput ==
  /\ status' = Worst(1) /\ state' = "dropped"
  /\ UNCHANGED <<start, total, printed>>

\* Mutant of AddRange: a total out of range starts again.
AddRangeAnew(from, to) ==
  LET sum == Add(total, Sub(to, from).out)
  IN /\ total' = sum.out
     /\ status' = IF sum.r = 0 THEN status ELSE Worst(1)
     /\ printed' = IF summarize \/ sum.r # 0 THEN printed ELSE Append(printed, sum.out)

\* Mutant of AddRange: the total that does not fit is no error.
AddRangeSilent(from, to) ==
  LET sum == Add(total, Sub(to, from).out)
  IN /\ total' = IF sum.r = 0 THEN sum.out ELSE total
     /\ printed' = IF summarize \/ sum.r # 0 THEN printed ELSE Append(printed, sum.out)
     /\ UNCHANGED status

\* add_range: add a duration, unless it or the total is out of range.
AddRange(from, to) ==
  LET d   == Sub(to, from)
      sum == Add(total, d.out)
  IN \/ /\ d.r = 0 /\ sum.r = 0
        /\ total' = sum.out
        /\ printed' = IF summarize THEN printed ELSE Append(printed, sum.out)
        /\ UNCHANGED status
     \/ /\ d.r # 0 \/ sum.r # 0
        /\ status' = Worst(1) /\ UNCHANGED <<total, printed>>

\* One turn of sum_line's loop, with a token w.
WantStart(w) ==
  /\ state = "START"
  /\ \/ /\ w # Dash /\ ParseStamp(w, now).r = 0
        /\ start' = ParseStamp(w, now).out /\ state' = "DASH" /\ UNCHANGED outVars
     \/ (w = Dash \/ ParseStamp(w, now).r # 0) /\ BadInput

WantDash(w) ==
  /\ state = "DASH"
  /\ \/ w = Dash /\ state' = "END" /\ UNCHANGED <<start, outVars>>
     \/ w # Dash /\ BadInput

WantEnd(w) ==
  /\ state = "END"
  /\ \/ /\ w # Dash /\ ParseEnd(w, start).r = 0
        /\ AddRange(start, ParseEnd(w, start).out)
        /\ state' = "START" /\ UNCHANGED start
     \/ (w = Dash \/ ParseEnd(w, start).r # 0) /\ BadInput

Token ==
  /\ Reading /\ Len(lines[Len(lines)]) < MaxTokens
  /\ \E w \in Words \union {Dash} :
       /\ WantStart(w) \/ WantDash(w) \/ WantEnd(w)
       /\ lines' = [lines EXCEPT ![Len(lines)] = Append(@, w)]
  /\ UNCHANGED <<inVars, broken>>

\* Mutant of LineEnds: an open range whose START is ahead is added all the same.
LineEndsOpen ==
  \/ state \in {"START", "dropped"} /\ UNCHANGED outVars
  \/ state = "DASH" /\ status' = Worst(1) /\ UNCHANGED <<total, printed>>
  \/ state = "END" /\ AddRange(start, now)

\* sum_line at the end of a line: an open range runs until now.
LineEnds ==
  \/ state \in {"START", "dropped"} /\ UNCHANGED outVars
  \/ /\ state = "DASH" \/ (state = "END" /\ now < start)
     /\ status' = Worst(1) /\ UNCHANGED <<total, printed>>
  \/ state = "END" /\ now >= start /\ AddRange(start, now)

Newline ==
  /\ Reading /\ Len(lines) < MaxLines /\ LineEnds
  /\ state' = "START" /\ lines' = Append(lines, <<>>)
  /\ UNCHANGED <<inVars, start, broken>>

\* sum_operands and sum_file begin.
Open ==
  /\ source = "none" /\ todo # <<>> /\ Len(lines) < MaxLines
  /\ source' = Head(todo) /\ todo' = Tail(todo)
  /\ state' = "START" /\ lines' = Append(lines, <<>>)
  /\ UNCHANGED <<now, summarize, start, outVars, broken>>

OpenFails ==
  /\ source = "none" /\ todo # <<>> /\ Head(todo) = "file"
  /\ todo' = Tail(todo)
  /\ status' = Worst(2) /\ broken' = TRUE
  /\ UNCHANGED <<now, summarize, source, state, start, total, printed, lines>>

\* getline returns -1: the last line needs no newline.
EndOfSource ==
  /\ Reading /\ LineEnds
  /\ state' = "eof"
  /\ UNCHANGED <<inVars, start, lines, broken>>

\* ferror, and on to the next source.
Close ==
  /\ state = "eof" /\ source' = "none" /\ state' = "START"
  /\ \/ UNCHANGED <<status, broken>>
     \/ source # "operands" /\ status' = Worst(2) /\ broken' = TRUE
  /\ UNCHANGED <<now, summarize, todo, start, total, printed, lines>>

\* main: the final total, with -s; the exit status is status.
Finish ==
  /\ source = "none" /\ todo = <<>>
  /\ source' = "done"
  /\ printed' = IF summarize THEN Append(printed, total) ELSE printed
  /\ UNCHANGED <<now, summarize, todo, state, start, total, status, lines, broken>>

Next == Open \/ OpenFails \/ Token \/ Newline \/ EndOfSource \/ Close \/ Finish
Spec == Init /\ [][Next]_vars

-----------------------------------------------------------------------------
(* Reference: all the lines of SumLines, and the totals of their ranges.   *)

AllDurations == FlattenSeq([i \in 1..Len(lines) |-> Durations(lines[i])])

TotalOf(sums) == IF sums = <<>> THEN 0 ELSE sums[Len(sums)]

\* The totals so far, and one more duration: another total, if that fits.
More(sums, d) ==
  IF d \in Secs /\ TotalOf(sums) + d \in Secs THEN Append(sums, TotalOf(sums) + d) ELSE sums

\* The totals after each of the durations ds that fits.
Totals(ds) ==
  LET upTo[n \in 0..Len(ds)] == IF n = 0 THEN <<>> ELSE More(upTo[n - 1], ds[n])
  IN upTo[Len(ds)]

Running == Totals(AllDurations)

-----------------------------------------------------------------------------
(* Properties.                                                             *)

TypeOK ==
  /\ now \in Secs /\ summarize \in BOOLEAN
  /\ todo \in Seq({"operands", "file", "stdin"})
  /\ source \in {"none", "operands", "file", "stdin", "done"}
  /\ state \in {"START", "DASH", "END", "dropped", "eof"}
  /\ start \in Secs /\ total \in Secs /\ status \in 0..2
  /\ printed \in Seq(Secs) /\ broken \in BOOLEAN

Between == source \in {"none", "done"}

\* What was added and printed is what stands in the lines: every range before
\* the first error of its line once, in order, an open one up to now, and no
\* part of what an error, a line before or a total out of range left behind
\* (sum_line, add_range).
SumsTheRanges ==
  Between =>
    /\ total = TotalOf(Running)
    /\ printed = (IF ~summarize THEN Running
                  ELSE IF source = "done" THEN <<total>> ELSE <<>>)

\* "A line that cannot be read is reported ... Summing goes on, and daykeep
\* exits with status 1 at the end" (doc/daykeep.texi:396-400), 2 after an I/O
\* error, whatever came later, and 0 only if all was summed (set_status).
StatusIsWorst ==
  Between =>
    status = IF broken THEN 2
             ELSE IF \E i \in 1..Len(lines) : ~IsGood(lines[i]) THEN 1
             ELSE IF Len(Running) # Len(AllDurations) THEN 1 ELSE 0

\* A total is printed in each format as its sign and the nearest number of its
\* units, with less than a day of ticks and less than an hour of minutes (dk_fmt_dur,
\* dk_fmt_hm, dk_fmt_minutes).
PrintsNearest ==
  LET dur == FmtDur(total)  hm == FmtHm(total)
  IN /\ dur.part < TicksPerDay /\ hm.part < HourMinutes
     /\ dur.neg = (total < 0) /\ hm.neg = (total < 0)
     /\ 2 * ((dur.whole * TicksPerDay + dur.part) * DayLength - Magnitude(total) * TicksPerDay)
          \in (1 - DayLength)..DayLength
     /\ hm.whole * HourMinutes + hm.part = Minutes(total)
     /\ 2 * (Minutes(total) * MinuteSecs - Magnitude(total)) \in (1 - MinuteSecs)..MinuteSecs

\* No step takes anything off the total, save that a clock END may lie before its
\* START by less than the zone's offsets differ; an open range never starts ahead
\* of now, and no exit status gets better (dk_parse_end, add_range, sum_line).
OnlyTheZoneTakesBack == [][IsEndOf(total', total) /\ status' >= status]_vars

=============================================================================
