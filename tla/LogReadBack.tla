---------------------------- MODULE LogReadBack -----------------------------
(***************************************************************************)
(* A tracker's LOG read by sum mode: `daykeep -f LOG' at a moment when LOG *)
(* is up to date, in the tracker's session.  Reader(now) is what a line    *)
(* means at that moment, which run Sum shows to be what sum_line does.     *)
(***************************************************************************)
EXTENDS TrackerLog

Seqs == INSTANCE SequencesExt

Reader(now) == INSTANCE SumLines

Dash == Reader(0)!Dash

\* A stamp printed with a sign is a dash and a stamp to sum_line.
StampTokens(x) ==
  IF x.day >= 0 THEN <<x>>
  ELSE <<Dash, [x EXCEPT !.day = -x.day,
                         !.mod = IF x.mod = Pow10(PadDigits) THEN Pow10(PadDigits - 1) ELSE @]>>

CellTokens(c) ==
  CASE c.k = "stamp"          -> StampTokens(c.x)
    [] c.k \in {"dash", "open"} -> <<Dash>>
    [] c.k = "text"           -> <<Junk>>
    [] c.k = "nl"             -> <<>>

\* The tokens of the line of f that begins after cell b.
LineTokens(f, b) ==
  LET end == Seqs!Min({i \in (b + 1)..Len(f) : EndsLine(f[i])} \union {Len(f)})
  IN Seqs!FlattenSeq([i \in 1..(end - b) |-> CellTokens(f[b + i])])

\* The cells after which this session's lines begin.
OwnLines(t) ==
  LET own == base[t] + (IF nl[t] THEN 1 ELSE 0)
  IN {b \in own..(Len(file) - 1) : b = own \/ EndsLine(file[b])}

\* LOG was just written, without an error, and holds stamps from day 0 on, which
\* the manual says are read, and no END that the zone put before its START.
Readable(t) ==
  /\ pc[t] = "render" /\ wrote[t] /\ ~logErr[t]
  /\ \A i \in 1..Len(stamps[t]) :
       /\ FmtStamp(stamps[t][i]).day >= 0
       /\ i % 2 = 0 => stamps[t][i - 1] <= stamps[t][i]

\* A moment when LOG is read, at least wait / TicksPerDay seconds after its stamps.
Moments == Instants \union {MaxSecs}
Passed(t, now, wait) ==
  \A i \in 1..Len(stamps[t]) : TicksPerDay * (now - stamps[t][i]) >= wait

\* No stamp in LOG is completed: none has fewer digits than the day of now.
IsLiteral(t, now) ==
  \A i \in 1..Len(stamps[t]) : IsFull(FmtStamp(stamps[t][i]).mod, Day(now))

\* From a tick after the last stamp on, and as long as day numbers have no more
\* digits than are printed, each line of the session is a range, and lasts as
\* long as in the tracker's table, to within a tick and a second (log_write,
\* sum_line).
LogSums ==
  \A t \in Appenders, now \in Moments :
    Readable(t) /\ Passed(t, now, DayLength) /\ IsLiteral(t, now) =>
    \A b \in OwnLines(t) :
      LET l   == LineTokens(file, b)
          k   == 2 * ((b - base[t]) \div 4) + 1
          end == IF k < Len(stamps[t]) THEN stamps[t][k + 1] ELSE now
      IN /\ Reader(now)!IsGood(l) /\ Len(Reader(now)!Durations(l)) = 1
         /\ TicksPerDay * (Reader(now)!Durations(l)[1] - (end - stamps[t][k]))
              \in -(DayLength + TicksPerDay)..(DayLength + TicksPerDay)

\* "Because the lines are ranges, daykeep -f LOG sums the log, open entry
\* included" (doc/daykeep.texi:477-478): from the moment of the last stamp on.
OpenEntrySums ==
  \A t \in Appenders, now \in Moments : Readable(t) /\ Passed(t, now, 0) =>
    \A b \in OwnLines(t) : Reader(now)!IsGood(LineTokens(file, b))

=============================================================================
