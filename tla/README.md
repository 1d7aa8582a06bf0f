# daykeep in TLA+

daykeep is a command-line time tracker that counts in decimal days.  It sums
ranges of stamps (`9761.5 - .75`), converts stamps to dates and back, and has an
interactive tracker (`--track`) that keeps a log file current while it runs.
This directory holds a model of its core, the TLC runs that check it, and the
TLAPS proofs about it.  All source references are to `src/src/`.

## Inventory

| Component | Source | State | Operations | What makes it correct |
|---|---|---|---|---|
| Stamps | `dktime.c` | none (day length and epoch are set once) | `dk_parse_stamp`, `dk_parse_end`, `dk_parse_literal`, `dk_complete_day`, `dk_fmt_stamp`, `dk_add`, `dk_sub` | an unfinished number means the nearest matching day on the right side; an END is the first instant not before START that its text can mean; what is printed reads back; nothing wraps |
| Civil clock and dates | `dktime.c` | none | `clock_on`, `dk_parse_date`, `dk_set_epoch`, `dk_fmt_clock` | an END typed as a clock time is the next such time, in zones that change too |
| Durations | `dktime.c` | none | `dk_fmt_dur`, `dk_fmt_hm`, `dk_fmt_minutes` | rounding half up, sign, no wrap |
| Tracker | `track.c` | the list of stamps, the message, `caught`, `read_errno`, `log_errno`, the edit line | one handler per key, `key`, `render`, signals, the end of the session | entries are ordered and their sum fits; a failure is reported; a signal ends the session |
| Log file | `track.c` | LOG, its lock, `log_base`, `log_nl` | `log_open`, `open_entry`, `log_write`, `write_all` | one session at a time; LOG is current; older lines are never touched; a crash loses nothing |
| Screen and terminal | `track.c` | raw mode, the cursor | `raw_tty`, `restore_tty`, `render`, `rubout` | the terminal is restored |
| Sum mode | `daykeep.c` | the total, the automaton of a line | `sum_line`, `add_range`, `sum_operands`, `sum_file` | the total is the sum of the ranges that were accepted; one bad line spoils no other |
| Configuration | `daykeep.c` | the two settings and where they came from | `configure`, `read_config` | options over environment over file; an overridden value is never an error |
| Command line | `daykeep.c` | mode, files, exit status | `main`, `convert`, `clock_now` | the status is the worst thing that happened |
| Standard output | `daykeep.c` | the stream's error flag | `close_stdout` | a lost write reaches the exit status |

Interaction: `main` calls everything else.  The tracker calls the stamp library
for every edit, every resumed entry and every line it writes; it shares with
other trackers, and with sum mode and the user's editor, nothing but LOG, which
only trackers lock.  A session's own lines are the part of LOG from `log_base`
on.  The process is single-threaded; what interleaves is trackers with one
another, a signal handler with the key loop, other programs' appends between
sessions, and crashes with everything.

Hard behaviours: digits that change meaning when today's number gains a digit;
ranges whose ends round independently; a rewrite in place that can stop
anywhere; an entry taken over from an earlier session; a file without a final
newline; a clock that goes backwards; a signal between a test and a blocking
read.  `PROJECT.json` lists them as hazards, each at its line.

## Modules

| Module | Models |
|---|---|
| `DkTime` | the stamp library, as operators |
| `DkTimeCheck` | a caller that makes one library call; reference definitions by search, and the properties |
| `DkTimeProofs` | proofs about `DkTime` |
| `DkTimeCheckProofs` | proofs about a library call: it returns what the search finds, and what was printed reads back |
| `CivilClock` | dates, the epoch and times of day in a zone whose offset changes, as operators on top of `DkTime` |
| `CivilCheck` | one call of `dk_parse_end` with a time of day |
| `LogFile` | the abstract promise of LOG |
| `Tracker` | trackers, their key loop and handlers, LOG and its lock; the properties |
| `TrackerLog` | the refinement mapping from `Tracker` to `LogFile` |
| `TrackerProofs`, `TrackerLogProofs` | proofs about `Tracker`, and that it implements `LogFile` |
| `SumLines` | a line as sum mode means it: its ranges by position, on top of `DkTime` |
| `Sum` | sum mode; the properties compare it with `SumLines` |
| `SumProofs` | proofs about `Sum` |
| `LogReadBack` | a tracker's LOG as sum mode reads it: `TrackerLog` composed with `SumLines` |
| `LogReadBackProofs` | proof that LOG is read as what the tracker shows |
| `Command` | the command: options, settings, clock, `--now`, `--convert`, output, status; instantiates `CivilClock` |
| `CommandProofs` | proofs about `Command` |
| `Recursion` | lemmas on induction over an interval and on recursive functions, for the proofs |
| `MCDkTime`, `MCTracker`, `MCSum`, `MCCommand`, `MCCivil` | instances for TLC |

**DkTime.**  A value is an integer of seconds; `Secs` is the range of `dk_secs`
and `Narrow` is `narrow`, the one place where the code leaves 128-bit
arithmetic.  A text that may be a stamp is a record: its form, a leading `+`,
ten to the number of its day digits, the digits' value, and its fraction in
ticks.  What it abstracts is the spelling: fraction digits are as many as a
printed stamp has (a day here has 2 or 10 ticks, a real one 10000), and the
code's digit counts are powers of ten (`IsFull`; that comparing digit counts and
comparing powers agree is the theorem `DigitCount` of `DkTimeProofs`).  Every
function that can fail returns the code's 0, -1 or -2 with its value.

`ClockOn` is `clock_on` in a zone whose offset changes: `Zone(u)` is the offset at
Unix time `u`.  A local time may be shown by the clock twice or never.  `mktime`
then has a choice (`UnixTimes`), and it answers the same local time alike whenever
it is asked (`UnixTime`); `Guess` is the offset it tries first.  That makes a call
of the library a function of its arguments, which the properties of the tracker
and of sum mode need: an edit and its check, or a line and its second reading, agree.
`IsEndOf` is what an END can be for a given START: not before it, or before it by
less than two offsets of the zone differ (finding 5).

**CivilClock.**  Dates and times of day as the command reads and prints them.  The C
library is external and modelled from how `from_tm` and `to_tm` call it: `timegm`
and `gmtime_r` are the Gregorian calendar, and `mktime` with `tm_isdst = -1` may
return any instant of a local time that is shown twice, and shifts one that is
skipped by either offset.  Here no choice is fixed: what depends on `mktime` is a
set of results, and a property holds for each of them.  `FromTm`
keeps the test for -1 as the code has it.  A date text is its fields, its offset,
and whether its year has four digits (`full`): `dk_parse_date` reads no others,
and `%Y` prints others.  `Years` are those of four digits.  `%z` prints whole
minutes; an offset may have seconds, and then loses them.  `MonthOf`, the month of
a day, looks near where months of equal length would have it; that it is there
for every day is the lemma `MonthOfIs` of `CommandProofs`.

**Tracker.**  `pc` says where a process is: `load` (in `log_open`, the lock
held), `render` (head of the key loop), `keys` / `toread` / `read` (in `key()`:
before its test of `caught`, between the test and the read, in the read),
`write` (in `log_write`), `exit` (after the loop), `off`.  `mode` tells who
called `key()`: the main loop or `edit_last`.  A handler of a key is one action:
nothing else can see a step of it, except for `log_write`, whose system calls
are actions of their own (`WriteSome`, `WriteTorn`, `Truncate`, `WriteFails`).
`saving` says that `save` called it, and what `save` does after it is in
`WriteEnds`.  The variables `base`, `nl`, `logErr`, `readErr`, `caught` and
`msg` are the code's `log_base`, `log_nl`, `log_errno`, `read_errno`, `caught`
and `msg`; `wrote` is a history variable (a write of this session has
succeeded).  `exited` is how the last process ended.

LOG is a sequence of cells, the pieces that `log_write` prints: a stamp, ` - `,
` -` with its newline, a newline; any other content of a line is a `text` cell.
Offsets count cells.  A printed stamp has one width as long as day numbers have
five digits, and ` - ` is as wide as ` -` with a newline, so new cells replace
old ones one by one, as the bytes do.  What the cells leave out: a stamp of
another width (a day number of six digits, a sign), and a last line longer than
the 255 bytes `log_open` looks at, which stands among the `text` lines.  A
`pwrite` that stops inside a stamp leaves a cell from `Garbled`.  What memory
failure in `push` and `log_write` does (`die`, before anything is written) is
`OutOfMemory`.

The environment: `clock_now()` returns any of `Instants`, so that the clock may
be set back; the edit line holds any of `Typed`, or the prefilled stamp, at
Enter; pwrite, ftruncate, open, fstat, pread, close and read may fail; other
programs append `ForeignLines` while no tracker holds the lock; a process may be
killed in any state.

**LogFile and TrackerLog.**  `LogFile` is what the head of `track.c` and the manual
promise: at any time at most one owner, whose session is a list of stamps that
changes at its end only (`Push`, `Pop`, `Replace`; an END is one of its START,
`IsEndOf`); LOG is the lines that were there (`kept`) and, whenever the owner is done
writing, the text of the list; those lines never change; between sessions others
append.  A session begins with an empty list at the end of LOG, or with the open
entry there.  `TrackerLog` maps: the owner is the holder of the lock once
`log_open` is over, `kept` its `base`, the list its `stamps`, and `current` says
that no `log_write` is in progress and the last one did not fail.  A crash is
the abstract `End`; a failed write and a signal are stutters; a key's handler is
`Change`, a `pwrite` `Write`, and `ftruncate` `Settle`.

**Sum.**  One behaviour is one run of sum mode: the operands, then each FILE, or
standard input.  A line is a sequence of tokens that come one at a time (`Token`
is one turn of `sum_line`'s loop: `WantStart`, `WantDash`, `WantEnd`), then
`Newline` or `EndOfSource`; `OpenFails` and `Close` have the I/O errors.  The
properties compare with definitions that read whole lines by position and have
no automaton (`IsRange`, `HasOpen`, `Durations` of `SumLines`, and `Running`).  That a newline inside
an operand ends a line, and that operands join, is in how tokens come.  The
spelling of a token is `DkTime`'s; diagnostics' wording is left out.

**LogReadBack.**  `daykeep -f LOG` at a moment when LOG has just been written: each
line of the session is turned into tokens, and `SumLines`, which run and proofs of
`Sum` show to be what `sum_line` does, says what it adds.  `LogSums` asks that at
least a tick has passed since the last stamp (finding 4), that no END is before its START
(`Readable`; finding 5) and that no stamp has fewer digits than today's number
(`IsLiteral`; finding 3 is about the others).

**Command.**  `pc` goes through `main`: `options`, `configure`, `open` and `lines`
(`read_config`), `clock`, `work`, `exit` (with `code`), `ended` (after
`close_stdout`).  The tracker returns a status or dies by the signal that ended it
(`Signalled`), and `close_stdout` does not run then.  A setting's value is a date or a number, or nothing; a line of
the file sets one or is malformed.  `-s` and the formats matter to `Sum` only, and
summing and the tracker stand here for the status that they return and for
output.  A write to standard output may fail at any time; `lost` is a history
variable, `failed` is `ferror`.  An invalid setting ends the command in the same
step, whichever was set before it.

## Runs

| Run | Question | Result |
|---|---|---|
| `DkTime` | does every call return what a search over all days finds, and do printed stamps and ranges read back? | holds, 19,716 states |
| `DkTimeShort` | the manual: a printed stamp reads back "without completion" | violated |
| `TrackerCore` | two trackers on one LOG: lock, older lines, LOG current between keys; `LogFile` implemented | holds, 436,772 states |
| `TrackerWrite` | short, torn and failing writes: what is on disk and stays there, what is reported, what sum mode reads; `LogFile` implemented | holds, 474,779 states |
| `TrackerPlain` | order and sums of four stamps under every clock and edit, in a zone that changes | holds, 20,130 states |
| `TrackerFair` | a signal ends the session, when keys keep coming | holds, 1,269 states |
| `TrackerSignal` | the comment: a signal interrupts the read | violated |
| `TrackerCrash` | the comment: a crash loses nothing | violated |
| `LogReadBack` | the manual: `daykeep -f LOG` sums the log, open entry included | violated |
| `Sum` | is what is added and printed what stands in the lines, does only a change of zone lower a total, and is the status the worst that happened? | holds, 1.2 million states |
| `Command` | are the settings the effective ones, do conversions read back, does the status tell of lost output? | holds, 1.5 million states |
| `CivilCheck` | the help: END is the first matching time not before START | violated |

**Bounds.**  `DkTime`: a day of 25 seconds and 10 ticks, so that instants fall
between ticks and both roundings happen; days 0 to 121, on both sides of each
change of digit count, instants before day 0, and the last second in range;
texts of 0 to 3 day digits; a civil day of 16 seconds that starts at another
second than a day does, in a zone that moves forward and back once.  Printing pads to three digits, as many as the largest
day has: that is the shipped program, where day numbers have four digits and
stamps five.  `DkTimeShort` pads to one digit: the case of short day lengths.
`TrackerCore`: two trackers (interchangeable, hence `SYMMETRY`, safety only),
sessions of two stamps: the shortest with a finished entry, whose removal and
edit change the shape of the lines.  LOG starts empty, with an older entry, with
a line without newline, or with an open entry and a blank line after it; a
session starts on at most `MaxLog` = 3 cells, so one may follow another on what
it left.  The clock goes back by two seconds over midnight of a civil day of
four, in all runs of the tracker, so that an END typed as a time of day may be read
as one before START: `TrackerCore` (against `LogFile`) and `TrackerPlain` have such
lists.  `TrackerWrite`: one tracker, three stamps (a finished and an open
entry), writes that stop after any cell and inside any stamp, a LOG that ends
without a newline, a day of 3 seconds and 2 ticks, so that printed stamps round; no
time of day is typed there.  `TrackerPlain`: four stamps (two
entries, the least whose sum can pass a limit that each duration keeps), seconds
from -3 to 3, times of day among what is typed.  Days of 2 seconds are enough for the tracker, which looks at no
digits itself; the runs of `DkTime` have the details.
`Sum`: two lines are what it takes for one to disturb the other, five tokens a
range and an open range, or a range and every kind of error after it; totals pass
the limit in two or three ranges, and fall below zero where midnight, repeated when
the clock goes back, is read as an END before START; days of 3 seconds and 2 ticks,
minutes of 2 and hours of 3.  `Command`: two options and two lines of the file (the last one
counts), each setting from each source, valid or not; two VALUEs; civil days of 8
seconds in a zone that moves forward and back in the first days of 2000 and has
another offset in 1970, with local times that are skipped, repeated, and the Unix
time -1 among the operands, and 29 February of 1900 and of 2000; the years 1900 to
2030 stand for those of four digits, since larger ones are out of its range of
seconds, and one VALUE is in a later year; from 2001 on the zone's offset has
seconds.  `CivilCheck`: one change of a zone by two hours over midnight.
The deadlock check is off where a behaviour ends: one call (`DkTime`,
`DkTimeShort`, `CivilCheck`) or one run of the command (`Sum`, `Command`).

**Fairness.**  `Fairness` is weak fairness of what a process does without
waiting (`Runs`): it is a sequential program on a fair scheduler.  A write that
is short for ever is no behaviour of the code (`pwrite` of a positive length
returns a positive count, or fails), and none of the model's: a write is
finitely many cells.  A torn write may be repeated; weak fairness of `Runs`
would not rule out tearing for ever, so the liveness runs have no `Garbled`.
`KeysFair` adds that a blocked read returns in the end: keys, an end of input or
an error.  The code cannot give that; it is what `SignalEndsSession` needs and
`TrackerSignal` shows that without it the property fails.  Nothing is assumed of
signals or of crashes.

## Findings

1. **A crash can split an entry** (`TrackerCrash`).  `log_write` overwrites, then
   truncates.  After `x` took an END away the two lines on disk in between are
   `START -` and the rest of the old END: two lines where there was one.  The
   open entry is no longer the last line and is not resumed.  The comment at the
   head of `track.c` (lines 22-23) and the manual say that a crash loses nothing.
2. **A signal can be slept through** (`TrackerSignal`).  Between `if (caught)` and
   `read` in `key()` a signal sets the flag, and the read blocks all the same.
   The comment at `track.c:106-107` says the signal interrupts the read.
3. **Short days outgrow the padding** (`DkTimeShort`).  With `--day-length` so
   short that today has more than five digits, stamps printed with five are
   completed when read.  The manual (`daykeep.texi:269-271`) says never.
4. **A fresh open entry is in the future** (`LogReadBack`).  The logged stamp is
   rounded up to a tick (8.64 seconds) in half of all cases, and for up to 4
   seconds after it `daykeep -f LOG` refuses the line: 'open range starts in the
   future', status 1.  `LogSums`, which holds, is what remains: from a tick after
   the last stamp on every line is a range, as long as the tracker shows it to
   within a tick and a second.
5. **A repeated hour can cost a day** (`CivilCheck`).  `dk_parse_end` takes the first
   date whose time of day is not before START, but `mktime` chooses which of two
   equal times it means: with START at 1:30 in the second of two equal hours and
   END 1:40, the result may be the 1:40 before, and the code then moves to the next
   date.  Where the clock goes back over midnight, END on the next date may even
   be before START, and the range is negative.  Nothing after `dk_parse_end` looks
   again: `edit_last` stores such an END, against the manual's 'no entry ends before
   it starts' (`daykeep.texi:450-452`); in LOG it stands as a decimal stamp, and sum
   mode refuses the entry; and `add_range` lowers the total by such a range.
   `EndNotBeforeStart` and `OnlyTheZoneTakesBack`, which hold, are what remains: an END
   is before START, and a total goes down, by less than two offsets of the zone
   differ, and never in a zone that keeps one offset.

`FromTm` shows one more, on which the documents say nothing: `from_tm` takes -1
for `mktime`'s failure unless the broken-down year is 1969, so that in a zone
ahead of UTC the second before 1970-01-01 00:00 UTC is refused as a date.
`ConvertReadsBack` excepts it by name (`TakenForFailure`).

It also excepts stamps that print as dates which do not read back (`PrintedInFull`).
In the year 10000 and later `%Y` prints five digits, which `dk_parse_date` and
`is_date` refuse; where the zone was no whole minutes from UTC, as before standard
time, `%z` drops the seconds and the date is of another moment.  The manual
(`daykeep.texi:410-411`) says of every stamp that it becomes a date "in a form that
`--convert` reads back".  Without one half of the exception or the other the run
`Command` finds the case it excepts.

`OkMeansCurrent` has one as well: `track()` sets its status for `log_errno` and then
dies by the signal, so that after a failed write the status does not tell that LOG
lacks the last stamps.  The comment at `track.c:444` says that the log is already
current.

## Proofs

Proved for every value of the constants: any number of trackers, any day
length, range of seconds, zone, answer of `mktime`, clock, texts, logs, lines and bounds,
under the assumptions next to the constants.  Most say no more than that the
constants have their types.  What they say besides:

- `DigitsAssumption`, `DaysAssumption`: the day numbers in range have at most
  `MaxDayDigits` digits, and that is at most 19.
- `CivilAssumption`: of the zone, that its offsets are the ones in `Offsets`.  Of
  `Guess` nothing is assumed but that it is a function: the C library, asked twice
  in one run for the same local time, answers alike.
- `InputsAssumption` of `DkTimeCheck`: a typed day number is less than ten to the
  number of its digits, and a clock time is less than a day.
- `OffsetsAssumption` of `DkTimeCheck`: two offsets of the zone differ by less than
  a day.
- `CommandAssumption`, `DatesAssumption`: the default epoch and day length are in
  range, and so is each date that can be given as the epoch, with and without
  its offset, from day 0 and from the default epoch.  The code's range is that
  of 64-bit seconds and its dates have four-digit years.
- `ConvertAssumption`: so are the dates that are converted, counted from any day 0
  that can be set, and the months of the years of four digits.  Of the zone it
  says that its offsets are the ones in `Offsets`.

What is proved:

- `DkTimeProofs`: completion gives the nearest matching day on the right side
  (`NearestDayIsNearest`); `dk_parse_end` never makes an END before START of a
  decimal text, and of a time of day only one before it by less than two offsets
  differ (`ParseEndNotBefore`); printing carries (`FmtStampType`); powers of ten stand
  for digit counts (`DigitCount`).  They rest on `DivBrackets` (what flooring
  division bounds) and on `FloorDivIsDiv` and `FloorDivWideIsDiv` (the code's
  truncate-and-adjust is flooring division).
- `DkTimeCheckProofs`: all the properties of the run `DkTime`.  A call returns what
  the search over all days finds (`StampsCompleteNearest`, `DecimalEndsComeFirst`,
  `ClockEndsComeFirst`), in range (`CallsTyped`); stamps and ranges that were
  printed read back (`PrintsAreStable`, `PrintedRangesRead`).
- `TrackerProofs`: `TypeCorrect`, `OneOwnerAlways`, `OlderLinesAreKept`,
  `StoredEndsAreEnds`, `RenderNeverOverflows`.
- `TrackerLogProofs`: `LogIsCurrent`, `OwnLinesAreLines`, `SavedIsTrue`,
  `OkIsTrue`, `EarlierAreKept`, `EarlierStay`, and `Implements`: `Tracker` implements `LogFile`.
- `LogReadBackProofs`: `LogIsSummed`: sum mode reads from a log that was just
  written the entries that the tracker shows.
- `SumProofs`: all the properties of the run `Sum`: `SumTypeCorrect`,
  `TheRangesAreSummed`, `TheStatusIsTheWorst`, `OnlyZonesTakeBack`, `TotalsPrintNearest`.
- `CommandProofs`: all the properties of the run `Command`: `CommandTyped`,
  `SettingsAreEffective`, `OnlyUsedValuesEnd`, `ConversionsReadBack`, `StatusIsTold`.

Where the zone has a part in it, the theorems say which.  `ParseEndNotBefore`, and
with it `StoredEndsAreEnds`, `Implements` and `OnlyZonesTakeBack`, bound how far an
END may lie before its START by the offsets in `Offsets`: with one offset it never
does.  `ClockEndsComeFirst` is about a START around which the zone does not change
(`SteadyAround`).  Finding 5 is why they cannot say more.

**Calls of the library.**  `CheckInv` says of each call what it was given and that
the result is the function's, so that the properties are about operators.  For
completion, the days that end in the typed digits are a grid of step `mod`
(`Multiples`), and `NearestDayIsNearest` says which point of it the code's
formula picks; `Min` and `Max` of the searched sets then follow (`MinIs`,
`MaxIs`), and an instant follows its day because a fraction is less than a day.
For what is printed, a stamp stands for the nearest number of ticks, reading it
gives the nearest second, and the ticks of that second are the same again,
because of seconds and ticks one is at least as fine as the other (`TicksNear`,
`InstantNear`, `TicksAgain`, `FinerGrid`); rounding keeps order (`RoundingKeepsOrder`), which is
why a printed END stays on its printed day.

**The invariant of the tracker** is `IInv`: `TypeOK`, `OneOwner` and
`WritesInLog`.  `TypeOK` is not inductive alone.  LOG stays a sequence only if a
write begins where LOG reaches, so `WritesInLog` says that `base + done` cells
are there, that `done` is 0 outside a write and never more than the text has.
That in turn holds of a tracker only while no other one shortens LOG, which is
`OneOwner`: the three are inductive together.  `NextIInv` goes through the kinds
of steps (`StepKinds`): what a step does to the tracker that takes it
(`LoopsStep`, `WriteStep`, `OwnWrites`) and that it leaves the others alone
(`FrameStep`, `OthersWrites`).  `OlderLinesAreKept` is then a property of three
actions, since no other changes LOG in a session; `OverlayType` says what a
write keeps.  `StoredEndsAreEnds` adds `Ordered` to the invariant; its two cases
are `stamp` (`StampOrdered`) and the edit, which is `ParseEndNotBefore`
(`EditOrdered`).  `RenderNeverOverflows` adds `Fits`, that the checked total of
every list fits.  It is inductive because a handler checks the total of the list
that it leaves (`HandlerFits`), except where it removes a stamp, and then the
total of what remains is one of the partial sums that were checked (`RemoveFits`,
`FitsThroughout`); and render's sum, which checks nothing, is that same sum
(`RenderFits`).

**What is in LOG** needs more (`LogInv`): a write that has counted `done` cells
has written them (`Stands`), so that when all are counted and the rest is cut off
LOG is current (`TruncateCurrent`); `log_nl` says exactly whether the cell before
`base` ends a line, which is why a session's lines begin one; nothing is left in
the variables of a tracker that has not opened LOG; and the message tells of the
last write (`MsgTells`).  `EarlierAreKept` adds `Earlier`: while a write
overwrites the lines, the cells of finished entries are overwritten by
themselves, because a handler changes the last stamp only (`LoopsFollows`) and
lists that agree up to an even position print the same cells up to there
(`LinesPrefix`).  `EarlierStay` is that argument for one step and one entry, and so
without the condition on `logErr`: a write that fails half way has overwritten what
it has reached by itself, `ftruncate` cuts behind the lines, and the retry begins
with a list that agrees with the old one.

**The refinement** goes by kinds of steps again: `PromiseOthers` (no step of a
tracker without LOG changes an abstract variable; taking the lock does not,
before `log_open` is over), `PromiseLoad`, `PromiseLoops`, `PromiseWrite`,
`PromiseSettle`, `PromiseStops`, `PromiseStutter`, `PromiseForeign`.  That a
handler's ENDs are `IsEndOf` their STARTs comes from `StoredEndsAreEnds`.

**LOG read back**: since LOG is current, the cells of this session are those of its
list (`OwnPart`), four to an entry and two to an open one (`EntryCells`), and a
line of the session begins where an entry does (`EntryStarts`), so that each line
is an entry of the list (`LineOfEntry`) and its tokens are START, dash and END
(`ClosedTokens`, `OpenTokens`).  A printed stamp reads as the nearest second to the
nearest tick, half of each away from what was stamped (`StampReads`); at the two
ends of an entry that makes a tick and a second (`ClosedEntry`).  The line is a
range because no END is before its START, which `Readable` asks for, and
rounding keeps order, and an open one has begun because a tick has passed.  That
`Reader`'s library is the tracker's is `ReaderReads`.

**Sum mode**: `TypeOK` is inductive, since what is added is checked; a range lowers
the total by no more than its END is before its START (`AddRangeAdds`), and that
`ParseEndNotBefore` bounds.  What is printed is rounded by its magnitude (`HalfUp`)
and bears the total's sign.
`LinesInv` relates the automaton to the reading of lines by position.  `LineIs`
says what each state of `sum_line` remembers of the tokens it has taken: `n`
whole ranges, then nothing, a START, or a START and a dash; or that the line is
wrong at the token where it was dropped.  `Tally` says that total, output and
status are those of the durations so far: of the lines before, then of these `n`
ranges.  A token either changes neither (`Extended`), or ends a range, and then
one duration is added to both (`AddRangeTally`), or makes the line wrong
(`BadLineTally`); at the end of a line what `LineIs` says of all its tokens is
what `Durations` and `IsGood` say of the line.  The running totals that the
properties compare with are sequences defined by recursion over durations, and
what one more duration does to them is an induction, which `Recursion` provides:
it takes the numbers that have a property as a set instead of an operator.

**The command**: `StatusInv` says where the status may be other than 0, and that
the stream's flag remembers whatever was lost until the end, unless a signal ends
the tracker before.  `SettingsInv` says
at each `pc` which settings are still the defaults and which are `Resolved`: none
before `configure`, then those with an option or a variable, then, line by line,
that `conf` holds the last line of the file for the others (`ConfIsLast`).  That
the epoch ends up the same whatever it was before is `dk_set_epoch`'s addition,
which stays in range by `DatesAssumption`.

**Conversions** rest on the calendar.  The table of month lengths and the rule of
leap years agree with the days counted from 1970 (`MonthLength`), so that
`dk_parse_date` accepts the dates of the calendar and no others (`RealDates`,
`ParseDateIs`).  A month starts within a few days of where months of 146097/4800
days would (`MonthStartNear`), so the month of any day is where it is looked for
(`MonthOfIs`), and its year, month and day of the month count back to the day
(`DateOfDay`).  `PrintedDateReadsBack` then follows what `dk_fmt_clock` prints
through `dk_parse_date`: the local time comes out again (`ClockDate`), counted
from day 0 it fits, and the printed offset, whole minutes, is what was added
(`WholeMinutes`).  No property of the zone is used: a date with an offset is read
in UTC.  `DateIsRead` is about dates without one, of which `mktime` returns some
offset's instant; it fits, and is refused only as -1.  `ShownInv` ties what is
shown to the VALUE it came from, and day 0 is the default one or a date's
(`EpochIs`).

Only model-checked:

- `SignalEndsSession`: liveness is out of the prover's reach.
- The five properties that a run violates.

## Not modelled

Raw mode and its restoration, the cursor and `rubout` are terminal I/O.  Another
program's write to LOG during a session: nothing in the code guards against it.
The spelling of texts: how `parse_decimal`, `parse_clock`, `dk_parse_date` and a
line of the configuration file scan characters (the repository fuzzes these);
here a text is what they read it as, or one that they refuse.  Diagnostics'
wording, `usage` and `version` beyond that they print.  Tests, the Python proofs
and packaging are not part of the running program.

## What could follow

1. An answer of `mktime` that changes from call to call within a run of the tracker
   or of sum mode, as `CivilCheck` and `Command` already allow for one call.
2. The width of a cell, for logs whose day numbers gain a digit while a session
   owns them.
