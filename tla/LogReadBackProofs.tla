-------------------------- MODULE LogReadBackProofs --------------------------
(***************************************************************************)
(* What sum mode reads from a tracker's LOG, for any session, any writes   *)
(* and any clock: each line is one range, which lasts as long as in the    *)
(* tracker's table.                                                        *)
(***************************************************************************)
EXTENDS LogReadBack, TrackerLogProofs

-----------------------------------------------------------------------------
(* Module Sum at a moment n.                                               *)

\* Its library is the tracker's.
LEMMA ReaderReads ==
  ASSUME NEW n, NEW x, NEW at
  PROVE  /\ Reader(n)!ParseStamp(x, at) = ParseStamp(x, at)
         /\ Reader(n)!ParseEnd(x, at) = ParseEnd(x, at)
PROOF
<1>1. \A a, b : Reader(n)!CDiv(a, b) = CDiv(a, b)
  BY DEF Reader!CDiv, CDiv
<1>2. \A a, b : Reader(n)!CMod(a, b) = CMod(a, b)
  BY <1>1 DEF Reader!CMod, CMod
<1>3. \A a, b : /\ Reader(n)!FloorDiv(a, b) = FloorDiv(a, b)
                /\ Reader(n)!FloorDivWide(a, b) = FloorDivWide(a, b)
  BY <1>1, <1>2 DEF Reader!FloorDiv, FloorDiv, Reader!FloorDivWide, FloorDivWide
<1>4. \A a : Reader(n)!Day(a) = Day(a) /\ Reader(n)!Narrow(a) = Narrow(a)
  BY <1>3 DEF Reader!Day, Day, Reader!Narrow, Narrow, Reader!Secs, Secs, Reader!Good, Good, Reader!Bad, Bad
<1>5. \A a, b, c, d : Reader(n)!CompleteDay(a, b, c, d) = CompleteDay(a, b, c, d)
  BY <1>3 DEF Reader!CompleteDay, CompleteDay, Reader!IsFull, IsFull, Reader!NearestDay, NearestDay
<1>6. \A a, b : Reader(n)!Compose(a, b) = Compose(a, b)
  BY <1>4 DEF Reader!Compose, Compose
<1>7. \A a, b, c : Reader(n)!ClockOn(a, b, c) = ClockOn(a, b, c)
  <2>1. \A a, b : Reader(n)!Add(a, b) = Add(a, b) /\ Reader(n)!Sub(a, b) = Sub(a, b)
    BY <1>4 DEF Reader!Add, Add, Reader!Sub, Sub
  <2>2. Reader(n)!Civil = Civil /\ Reader(n)!Bad = Bad
    BY DEF Reader!Civil, Civil, Reader!Bad, Bad
  <2>3. \A a : Reader(n)!OnClock(a) = OnClock(a)
    BY DEF Reader!OnClock, OnClock
  <2>4. \A a : Reader(n)!UnixTimes(a) = UnixTimes(a)
    BY <2>3 DEF Reader!UnixTimes, UnixTimes
  <2>5. \A a : Reader(n)!UnixTime(a) = UnixTime(a)
    <3> DEFINE AnyOf(S) == CHOOSE u \in S : TRUE
    <3>1. ASSUME NEW a
          PROVE  Reader(n)!UnixTime(a) = IF a - Guess(a) \in Reader(n)!UnixTimes(a) THEN a - Guess(a)
                                         ELSE AnyOf(Reader(n)!UnixTimes(a))
      BY DEF Reader!UnixTime
    <3>2. ASSUME NEW a
          PROVE  UnixTime(a) = IF a - Guess(a) \in UnixTimes(a) THEN a - Guess(a)
                               ELSE AnyOf(UnixTimes(a))
      BY DEF UnixTime
    <3> HIDE DEF AnyOf
    <3> QED BY <2>4, <3>1, <3>2
  <2>6. ASSUME NEW a PROVE Reader(n)!FromTime(a) = FromTime(a)
    <3>1. Reader(n)!Sub(a, Epoch) = Sub(a, Epoch) /\ Reader(n)!OnClock(a) = OnClock(a)
      BY <2>1, <2>3
    <3> QED BY <2>2, <3>1 DEF Reader!FromTime, FromTime
  <2> QED BY <2>1, <2>2, <2>3, <2>5, <2>6, Zenon DEF Reader!ClockOn, ClockOn
<1>8. \A a : Reader(n)!FracSecs(a) = FracSecs(a) /\ (Reader(n)!ParsesDecimal(a) <=> ParsesDecimal(a))
  BY DEF Reader!FracSecs, FracSecs, Reader!ParsesDecimal, ParsesDecimal
<1>9. Reader(n)!Bad = Bad /\ Reader(n)!Before = Before
  BY DEF Reader!Bad, Bad, Reader!Before, Before
<1>10. Reader(n)!ParseStamp(x, at) = ParseStamp(x, at)
  BY <1>4, <1>5, <1>6, <1>7, <1>8, <1>9, Zenon DEF Reader!ParseStamp, ParseStamp
<1>11. \A a, b : Reader(n)!IsFull(a, b) <=> IsFull(a, b)
  BY DEF Reader!IsFull, IsFull
<1>12. Reader(n)!ParseDecimalEnd(x, at) = ParseDecimalEnd(x, at)
  BY <1>4, <1>5, <1>6, <1>8, <1>9, <1>11, Zenon DEF Reader!ParseDecimalEnd, ParseDecimalEnd
<1>13. Reader(n)!ParseClockEnd(x, at) = ParseClockEnd(x, at)
  BY <1>7, Zenon DEF Reader!ParseClockEnd, ParseClockEnd
<1>14. Reader(n)!ParseEnd(x, at) = ParseEnd(x, at)
  BY <1>8, <1>9, <1>12, <1>13, Zenon DEF Reader!ParseEnd, ParseEnd
<1> QED BY <1>10, <1>14

\* A dash is no stamp.
LEMMA DashIs == Dash.form = "dash" /\ \A n : Reader(n)!Dash = Dash
PROOF BY DEF Dash, Reader!Dash, Reader!Junk

\* A line of START, dash and END that are read is one range, from one to the other.
LEMMA ClosedLine ==
  ASSUME NEW n, NEW x, NEW y, x.form = "decimal", y.form = "decimal", NEW l, l = <<x, Dash, y>>,
         ParseStamp(x, n).r = 0, ParseEnd(y, ParseStamp(x, n).out).r = 0
  PROVE  /\ Reader(n)!IsGood(l) /\ Len(Reader(n)!Durations(l)) = 1
         /\ Reader(n)!Durations(l)[1] = ParseEnd(y, ParseStamp(x, n).out).out - ParseStamp(x, n).out
PROOF
<1>1. Len(l) = 3 /\ l[1] = x /\ l[2] = Dash /\ l[3] = y
  OBVIOUS
<1>2. 3 * 1 - 2 = 1 /\ 3 * 1 - 1 = 2 /\ 3 * 1 = 3 /\ 3 * 2 = 6
  OBVIOUS
<1>3. x # Dash /\ y # Dash
  BY DashIs
<1>4. /\ Reader(n)!StartOf(l, 1) = ParseStamp(x, n)
      /\ Reader(n)!EndOf(l, 1) = ParseEnd(y, ParseStamp(x, n).out)
  BY <1>1, <1>2, ReaderReads DEF Reader!StartOf, Reader!EndOf
<1>5. Reader(n)!IsRange(l, 1)
  BY <1>1, <1>2, <1>3, <1>4, DashIs DEF Reader!IsRange
<1>6. ~Reader(n)!IsRange(l, 1 + 1)
  BY <1>1 DEF Reader!IsRange
<1>7. Reader(n)!Ranges(l) = 1
  <2> DEFINE Is(m) == (\A k \in 1..m : Reader(n)!IsRange(l, k)) /\ ~Reader(n)!IsRange(l, m + 1)
  <2>1. 1 \in 0..Len(l) /\ Is(1)
    BY <1>1, <1>5, <1>6
  <2>2. ASSUME NEW m \in 0..Len(l), Is(m) PROVE m = 1
    <3>1. m # 0
      BY <1>5, <2>2
    <3>2. ~(m > 1)
      <4>1. 2 <= m => 2 \in 1..m
        OBVIOUS
      <4>2. ~Reader(n)!IsRange(l, 2)
        BY <1>6
      <4> QED BY <2>2, <4>1, <4>2
    <3> QED BY <1>1, <3>1, <3>2
  <2>3. Reader(n)!Ranges(l) = CHOOSE m \in 0..Len(l) : Is(m)
    BY DEF Reader!Ranges
  <2> HIDE DEF Is
  <2> QED BY <2>1, <2>2, <2>3
<1>8. ~Reader(n)!HasOpen(l)
  BY <1>1, <1>7 DEF Reader!HasOpen
<1>9. Reader(n)!IsGood(l)
  BY <1>1, <1>2, <1>7 DEF Reader!IsGood
<1>10. Reader(n)!Durations(l) = [k \in 1..1 |-> Reader(n)!EndOf(l, k).out - Reader(n)!StartOf(l, k).out]
  BY <1>7, <1>8 DEF Reader!Durations
<1> QED BY <1>4, <1>9, <1>10

\* A line of START and dash is an open range, if START is read and not in the future.
LEMMA OpenLine ==
  ASSUME NEW n, NEW x, x.form = "decimal", NEW l, l = <<x, Dash>>,
         ParseStamp(x, n).r = 0, ParseStamp(x, n).out <= n
  PROVE  /\ Reader(n)!IsGood(l) /\ Len(Reader(n)!Durations(l)) = 1
         /\ Reader(n)!Durations(l)[1] = n - ParseStamp(x, n).out
PROOF
<1>1. Len(l) = 2 /\ l[1] = x /\ l[2] = Dash
  OBVIOUS
<1>2. x # Dash
  BY DashIs
<1>3. Reader(n)!StartOf(l, 1) = ParseStamp(x, n)
  <2>1. 3 * 1 - 2 = 1
    OBVIOUS
  <2> QED BY <1>1, <2>1, ReaderReads DEF Reader!StartOf
<1>4. ~Reader(n)!IsRange(l, 0 + 1)
  BY <1>1 DEF Reader!IsRange
<1>5. Reader(n)!Ranges(l) = 0
  <2> DEFINE Is(m) == (\A k \in 1..m : Reader(n)!IsRange(l, k)) /\ ~Reader(n)!IsRange(l, m + 1)
  <2>1. 0 \in 0..Len(l) /\ Is(0)
    BY <1>1, <1>4
  <2>2. ASSUME NEW m \in 0..Len(l), Is(m) PROVE m = 0
    <3>1. m >= 1 => 1 \in 1..m
      OBVIOUS
    <3>2. ~Reader(n)!IsRange(l, 1)
      BY <1>4
    <3> QED BY <1>1, <2>2, <3>1, <3>2
  <2>3. Reader(n)!Ranges(l) = CHOOSE m \in 0..Len(l) : Is(m)
    BY DEF Reader!Ranges
  <2> HIDE DEF Is
  <2> QED BY <2>1, <2>2, <2>3
<1>6. Reader(n)!HasOpen(l)
  <2>1. 3 * 0 + 2 = 2 /\ 3 * 0 + 1 = 1 /\ 0 + 1 = 1
    OBVIOUS
  <2> QED BY <1>1, <1>2, <1>3, <1>5, <2>1, DashIs DEF Reader!HasOpen
<1>7. Reader(n)!IsGood(l)
  BY <1>6 DEF Reader!IsGood
<1>8. Reader(n)!Durations(l) = [k \in 1..1 |-> n - Reader(n)!StartOf(l, k).out]
  BY <1>5, <1>6 DEF Reader!Durations
<1> QED BY <1>3, <1>7, <1>8

-----------------------------------------------------------------------------
(* The tokens of a line of LOG.                                            *)

\* The least element of a set.
LEMMA LeastIs ==
  ASSUME NEW T, T \subseteq Int, NEW m \in T, \A i \in T : m <= i
  PROVE  Seqs!Min(T) = m
PROOF
<1>1. \A i \in T : (\A j \in T : i <= j) => i = m
  OBVIOUS
<1> QED BY <1>1 DEF Seqs!Min

\* Two sequences joined, and four.
LEMMA FlattenTwo ==
  ASSUME NEW q, Len(q) = 2
  PROVE  Seqs!FlattenSeq(q) = q[1] \o q[2]
PROOF
<1> DEFINE Is(f) == f = [i \in 1..2 |-> IF i = 1 THEN q[i] ELSE f[i - 1] \o q[i]]
           g == CHOOSE f : Is(f)
           h == [i \in 1..2 |-> IF i = 1 THEN q[1] ELSE q[1] \o q[2]]
<1>1. Seqs!FlattenSeq(q) = g[2]
  BY DEF Seqs!FlattenSeq
<1>2. Is(h)
  <2>1. \A i \in 1..2 : h[i] = IF i = 1 THEN q[i] ELSE h[i - 1] \o q[i]
    OBVIOUS
  <2> QED BY <2>1
<1> HIDE DEF h
<1>3. Is(g)
  <2> HIDE DEF Is
  <2> QED BY <1>2, Zenon
<1> HIDE DEF g
<1>4. g[1] = q[1] /\ g[2] = g[1] \o q[2]
  BY <1>3
<1> QED BY <1>1, <1>4

LEMMA FlattenFour ==
  ASSUME NEW q, Len(q) = 4
  PROVE  Seqs!FlattenSeq(q) = ((q[1] \o q[2]) \o q[3]) \o q[4]
PROOF
<1> DEFINE Is(f) == f = [i \in 1..4 |-> IF i = 1 THEN q[i] ELSE f[i - 1] \o q[i]]
           g == CHOOSE f : Is(f)
           two == q[1] \o q[2]
           three == two \o q[3]
           h == [i \in 1..4 |-> IF i = 1 THEN q[1] ELSE IF i = 2 THEN two
                                ELSE IF i = 3 THEN three ELSE three \o q[4]]
<1>1. Seqs!FlattenSeq(q) = g[4]
  BY DEF Seqs!FlattenSeq
<1>2. Is(h)
  <2>1. \A i \in 1..4 : h[i] = IF i = 1 THEN q[i] ELSE h[i - 1] \o q[i]
    <3>1. h[1] = q[1] /\ h[2] = two /\ h[3] = three /\ h[4] = three \o q[4]
      OBVIOUS
    <3>2. \A i \in 1..4 : i = 1 \/ i = 2 \/ i = 3 \/ i = 4
      OBVIOUS
    <3>3. 2 - 1 = 1 /\ 3 - 1 = 2 /\ 4 - 1 = 3
      OBVIOUS
    <3> HIDE DEF h
    <3> QED BY <3>1, <3>2, <3>3
  <2>2. h = [i \in 1..4 |-> h[i]]
    OBVIOUS
  <2> HIDE DEF h
  <2> QED BY <2>1, <2>2
<1> HIDE DEF h
<1>3. Is(g)
  <2> HIDE DEF Is
  <2> QED BY <1>2, Zenon
<1> HIDE DEF g
<1>4. g[1] = q[1] /\ g[2] = g[1] \o q[2] /\ g[3] = g[2] \o q[3] /\ g[4] = g[3] \o q[4]
  <2>1. \A i \in 1..4 : g[i] = IF i = 1 THEN q[i] ELSE g[i - 1] \o q[i]
    BY <1>3, Zenon
  <2>2. /\ 1 \in 1..4 /\ 2 \in 1..4 /\ 3 \in 1..4 /\ 4 \in 1..4
        /\ 2 - 1 = 1 /\ 3 - 1 = 2 /\ 4 - 1 = 3 /\ 2 # 1 /\ 3 # 1 /\ 4 # 1
    OBVIOUS
  <2> QED BY <2>1, <2>2
<1> QED BY <1>1, <1>4, Zenon

\* Single tokens joined.
LEMMA Joined ==
  ASSUME NEW x, NEW y, NEW d
  PROVE  /\ <<x>> \o <<d>> = <<x, d>>
         /\ ((<<x>> \o <<d>>) \o <<y>>) \o <<>> = <<x, d, y>>
PROOF
<1> DEFINE S == {x, d, y}
           p == <<x>> \o <<d>>
           q == <<x, d>> \o <<y>>
<1>1. <<x>> \in Seq(S) /\ <<d>> \in Seq(S) /\ <<y>> \in Seq(S) /\ <<x, d>> \in Seq(S) /\ <<x, d, y>> \in Seq(S)
  OBVIOUS
<1> HIDE DEF S
<1>2. p \in Seq(S) /\ Len(p) = 2 /\ p[1] = x /\ p[2] = d
  BY <1>1
<1>3. q \in Seq(S) /\ Len(q) = 3 /\ q[1] = x /\ q[2] = d /\ q[3] = y
  BY <1>1
<1> HIDE DEF p, q
<1>4. p = <<x, d>>
  BY <1>1, <1>2
<1>5. q = <<x, d, y>>
  BY <1>1, <1>3
<1>6. <<x, d, y>> \o <<>> = <<x, d, y>>
  BY <1>1
<1> QED BY <1>4, <1>5, <1>6 DEF p, q

\* The tokens of a cell of an entry.
LEMMA CellsTokens ==
  /\ \A x : x.day >= 0 => CellTokens(Stamped(x)) = <<x>>
  /\ CellTokens(Mark("dash")) = <<Dash>> /\ CellTokens(Mark("open")) = <<Dash>>
  /\ CellTokens(Mark("nl")) = <<>>
PROOF BY DEF CellTokens, StampTokens, Stamped, Mark

\* An entry's line is START, dash and END.
LEMMA ClosedTokens ==
  ASSUME NEW f \in Seq(Cell), NEW b \in Nat, b + 4 <= Len(f),
         NEW x, NEW y, x.day >= 0, y.day >= 0,
         f[b + 1] = Stamped(x), f[b + 2] = Mark("dash"), f[b + 3] = Stamped(y), f[b + 4] = Mark("nl")
  PROVE  LineTokens(f, b) = <<x, Dash, y>>
PROOF
<1> DEFINE T == {i \in (b + 1)..Len(f) : EndsLine(f[i])} \union {Len(f)}
           q == [i \in 1..4 |-> CellTokens(f[b + i])]
<1>1. Seqs!Min(T) = b + 4
  <2>1. T \subseteq Int /\ b + 4 \in T
    BY DEF EndsLine, Mark
  <2>2. ASSUME NEW i \in T PROVE b + 4 <= i
    <3>1. i \in Int /\ i >= b + 1 /\ (EndsLine(f[i]) \/ i = Len(f))
      OBVIOUS
    <3>2. i # b + 1 /\ i # b + 2 /\ i # b + 3
      BY <3>1 DEF EndsLine, Mark, Stamped
    <3> QED BY <3>1, <3>2
  <2> HIDE DEF T
  <2> QED BY <2>1, <2>2, LeastIs
<1>2. (b + 4) - b = 4
  OBVIOUS
<1>3. LineTokens(f, b) = Seqs!FlattenSeq(q)
  BY <1>1, <1>2 DEF LineTokens
<1>4. Len(q) = 4 /\ q[1] = <<x>> /\ q[2] = <<Dash>> /\ q[3] = <<y>> /\ q[4] = <<>>
  <2>1. CellTokens(f[b + 1]) = <<x>> /\ CellTokens(f[b + 2]) = <<Dash>>
        /\ CellTokens(f[b + 3]) = <<y>> /\ CellTokens(f[b + 4]) = <<>>
    BY CellsTokens
  <2> QED BY <2>1
<1> HIDE DEF q
<1>5. Seqs!FlattenSeq(q) = ((<<x>> \o <<Dash>>) \o <<y>>) \o <<>>
  BY <1>4, FlattenFour
<1> QED BY <1>3, <1>5, Joined

\* That of the open entry is START and dash.
LEMMA OpenTokens ==
  ASSUME NEW f \in Seq(Cell), NEW b \in Nat, b + 2 = Len(f),
         NEW x, x.day >= 0, f[b + 1] = Stamped(x), f[b + 2] = Mark("open")
  PROVE  LineTokens(f, b) = <<x, Dash>>
PROOF
<1> DEFINE T == {i \in (b + 1)..Len(f) : EndsLine(f[i])} \union {Len(f)}
           q == [i \in 1..2 |-> CellTokens(f[b + i])]
<1>1. Seqs!Min(T) = b + 2
  <2>1. T \subseteq Int /\ b + 2 \in T
    OBVIOUS
  <2>2. ASSUME NEW i \in T PROVE b + 2 <= i
    <3>1. i \in Int /\ i >= b + 1 /\ (EndsLine(f[i]) \/ i = Len(f))
      OBVIOUS
    <3>2. i # b + 1
      BY <3>1 DEF EndsLine, Stamped
    <3> QED BY <3>1, <3>2
  <2> HIDE DEF T
  <2> QED BY <2>1, <2>2, LeastIs
<1>2. (b + 2) - b = 2
  OBVIOUS
<1>3. LineTokens(f, b) = Seqs!FlattenSeq(q)
  BY <1>1, <1>2 DEF LineTokens
<1>4. Len(q) = 2 /\ q[1] = <<x>> /\ q[2] = <<Dash>>
  <2>1. CellTokens(f[b + 1]) = <<x>> /\ CellTokens(f[b + 2]) = <<Dash>>
    BY CellsTokens
  <2> QED BY <2>1
<1> HIDE DEF q
<1>5. Seqs!FlattenSeq(q) = <<x>> \o <<Dash>>
  BY <1>4, FlattenTwo
<1> QED BY <1>3, <1>5, Joined

-----------------------------------------------------------------------------
(* Where the lines of the session are.                                     *)

\* The cells of entry q + 1 of a list.
LEMMA EntryCells ==
  ASSUME NEW st \in Seq(Secs), NEW q \in Nat, NEW k, k = 2 * q + 1, k <= Len(st)
  PROVE  /\ 4 * q + 2 <= LinesLen(Len(st))
         /\ Lines(st)[4 * q + 1] = Stamped(FmtStamp(st[k]))
         /\ Lines(st)[4 * q + 2] = Mark(IF k < Len(st) THEN "dash" ELSE "open")
         /\ k < Len(st) =>
              /\ 4 * q + 4 <= LinesLen(Len(st))
              /\ Lines(st)[4 * q + 3] = Stamped(FmtStamp(st[k + 1]))
              /\ Lines(st)[4 * q + 4] = Mark("nl")
         /\ k = Len(st) => LinesLen(Len(st)) = 4 * q + 2
PROOF
<1> DEFINE n == Len(st)
           first(p) == 2 * ((p - 1) \div 4) + 1
           cell(p) == CASE p % 4 = 1 -> Stamped(FmtStamp(st[first(p)]))
                        [] p % 4 = 2 -> Mark(IF first(p) < n THEN "dash" ELSE "open")
                        [] p % 4 = 3 -> Stamped(FmtStamp(st[first(p) + 1]))
                        [] p % 4 = 0 -> Mark("nl")
<1>1. Lines(st) = [p \in 1..LinesLen(n) |-> cell(p)]
  BY DEF Lines
<1>2. n \in Nat /\ k \in Nat /\ k <= n
  OBVIOUS
<1> HIDE DEF n
<1>3. /\ 4 * q + 2 <= LinesLen(n) /\ LinesLen(n) \in Nat
      /\ k < n => 4 * q + 4 <= LinesLen(n)
      /\ k = n => LinesLen(n) = 4 * q + 2
  BY <1>2 DEF LinesLen
<1>4. /\ (4 * q + 1) % 4 = 1 /\ first(4 * q + 1) = k
      /\ (4 * q + 2) % 4 = 2 /\ first(4 * q + 2) = k
      /\ (4 * q + 3) % 4 = 3 /\ first(4 * q + 3) = k
      /\ (4 * q + 4) % 4 = 0
  OBVIOUS
<1> HIDE DEF first
<1>5. /\ cell(4 * q + 1) = Stamped(FmtStamp(st[k]))
      /\ cell(4 * q + 2) = Mark(IF k < n THEN "dash" ELSE "open")
      /\ cell(4 * q + 3) = Stamped(FmtStamp(st[k + 1]))
      /\ cell(4 * q + 4) = Mark("nl")
  BY <1>4
<1> HIDE DEF cell
<1>6. /\ 4 * q + 1 \in 1..LinesLen(n) /\ 4 * q + 2 \in 1..LinesLen(n)
      /\ k < n => 4 * q + 3 \in 1..LinesLen(n) /\ 4 * q + 4 \in 1..LinesLen(n)
  BY <1>3
<1> QED BY <1>1, <1>3, <1>5, <1>6 DEF n

\* A line begins where an entry does.
LEMMA EntryStarts ==
  ASSUME NEW st \in Seq(Secs), NEW j \in Nat, j < LinesLen(Len(st)),
         j = 0 \/ EndsLine(Lines(st)[j])
  PROVE  \E q \in Nat : j = 4 * q /\ 2 * q + 1 <= Len(st)
PROOF
<1> DEFINE n == Len(st)
           first(p) == 2 * ((p - 1) \div 4) + 1
           cell(p) == CASE p % 4 = 1 -> Stamped(FmtStamp(st[first(p)]))
                        [] p % 4 = 2 -> Mark(IF first(p) < n THEN "dash" ELSE "open")
                        [] p % 4 = 3 -> Stamped(FmtStamp(st[first(p) + 1]))
                        [] p % 4 = 0 -> Mark("nl")
<1>1. n \in Nat
  OBVIOUS
<1>2. j # 0 => Lines(st)[j] = cell(j)
  <2>1. j # 0 => j \in 1..LinesLen(n)
    BY <1>1 DEF LinesLen
  <2> QED BY <2>1 DEF Lines
<1>3. j % 4 = 0
  <2>1. CASE j # 0
    <3>1. EndsLine(cell(j)) /\ j < LinesLen(n)
      BY <1>2, <2>1
    <3>2. j % 4 \in 0..3
      OBVIOUS
    <3>3. j % 4 # 1 /\ j % 4 # 3
      BY <3>1 DEF EndsLine, Stamped
    <3>4. j % 4 = 2 => first(j) < n
      <4> DEFINE a == n \div 2
                 r == n % 2
                 m == j \div 4
      <4> HIDE DEF n
      <4>1. (r = 0 \/ r = 1) /\ n = 2 * a + r /\ a \in Nat /\ j < 4 * a + 2 * r
        <5>1. (r = 0 \/ r = 1) /\ n = 2 * a + r /\ a \in Nat
          BY <1>1
        <5>2. LinesLen(n) = 4 * a + 2 * r
          BY DEF LinesLen
        <5> HIDE DEF a, r
        <5> QED BY <3>1, <5>1, <5>2
      <4>2. j % 4 = 2 => j = 4 * m + 2 /\ (j - 1) \div 4 = m /\ m \in Nat
        OBVIOUS
      <4>3. j % 4 = 2 => first(j) = 2 * m + 1
        BY <4>2
      <4> HIDE DEF a, r, m, first
      <4>4. j % 4 = 2 => 2 * m + 1 < n
        <5> SUFFICES ASSUME j % 4 = 2 PROVE 2 * m + 1 < n
          OBVIOUS
        <5>1. j = 4 * m + 2 /\ m \in Nat
          BY <4>2
        <5>2. m < a
          BY <4>1, <5>1
        <5> QED BY <4>1, <5>1, <5>2
      <4> QED BY <4>3, <4>4
    <3>5. j % 4 # 2
      <4> SUFFICES ASSUME j % 4 = 2 PROVE FALSE
        OBVIOUS
      <4>1. cell(j) = Mark("dash")
        BY <3>4
      <4> HIDE DEF cell
      <4> QED BY <3>1, <4>1 DEF EndsLine, Mark
    <3> QED BY <3>2, <3>3, <3>5
  <2> QED BY <2>1
<1> WITNESS j \div 4 \in Nat
<1> HIDE DEF n
<1> QED BY <1>1, <1>3 DEF LinesLen, n

\* The session's part of LOG, right after it was written.
LEMMA OwnPart ==
  ASSUME TypeOK, NEW t \in Trackers, Current(t), wrote[t], base[t] <= Len(file),
         NEW st, st = stamps[t], NEW own, own = base[t] + (IF nl[t] THEN 1 ELSE 0)
  PROVE  /\ file \in Seq(Cell) /\ own \in Nat /\ st \in Seq(Secs)
         /\ IF st = <<>> THEN Len(file) <= own
            ELSE /\ Len(file) = own + LinesLen(Len(st))
                 /\ \A p \in 1..LinesLen(Len(st)) : file[own + p] = Lines(st)[p]
PROOF
<1> DEFINE w == LogText(st, nl[t])
           b == base[t]
           o == IF nl[t] THEN 1 ELSE 0
<1>1. /\ file \in Seq(Cell) /\ b \in Nat /\ b <= Len(file) /\ st \in Seq(Secs)
      /\ nl[t] \in BOOLEAN /\ o \in {0, 1} /\ own = b + o
  BY DEF TypeOK
<1>2. SubSeq(file, b + 1, Len(file)) = w
  BY DEF Current, OwnCells, Wanted
<1>3. Len(Lines(st)) = LinesLen(Len(st)) /\ Lines(st) \in Seq(Cell) /\ LinesLen(Len(st)) \in Nat
  <2>1. Len(st) \in Nat /\ \A n \in Nat : LinesLen(n) \in Nat
    BY <1>1 DEF LinesLen
  <2> QED BY <1>1, <2>1, LinesType
<1>4. Len(w) = Len(file) - b /\ \A i \in 1..Len(w) : w[i] = file[b + i]
  <2> DEFINE s == SubSeq(file, b + 1, Len(file))
  <2>1. Len(s) = Len(file) - b /\ \A i \in 1..(Len(file) - b) : s[i] = file[b + i]
    BY <1>1
  <2> HIDE DEF s, w
  <2>2. s = w
    BY <1>2 DEF s
  <2> QED BY <2>1, <2>2
<1>5. CASE st = <<>>
  <2>1. Len(w) = 0
    <3>1. w = Lines(st) /\ Len(st) = 0
      BY <1>5 DEF LogText
    <3> HIDE DEF w
    <3>2. LinesLen(0) = 0
      BY DEF LinesLen
    <3> QED BY <1>3, <3>1, <3>2
  <2> HIDE DEF w
  <2> QED BY <1>1, <1>4, <1>5, <2>1
<1>6. CASE st # <<>>
  <2>1. Len(w) = o + LinesLen(Len(st))
    <3> DEFINE l == Lines(st)
               c == Mark("nl")
    <3>1. l \in Seq(Cell) /\ c \in Cell /\ w = IF nl[t] THEN <<c>> \o l ELSE l
      BY <1>3, <1>6, MarkIsCell DEF LogText, Kinds
    <3> HIDE DEF w, c, l
    <3>2. Len(<<c>> \o l) = 1 + Len(l)
      BY <3>1
    <3> QED BY <1>3, <3>1, <3>2 DEF l
  <2>2. \A p \in 1..LinesLen(Len(st)) : o + p \in 1..Len(w) /\ w[o + p] = Lines(st)[p]
    BY <1>1, <1>6, LogTextLines
  <2> HIDE DEF w, o
  <2>3. ASSUME NEW p \in 1..LinesLen(Len(st)) PROVE file[own + p] = Lines(st)[p]
    <3>1. b + (o + p) = own + p
      BY <1>1, <1>3
    <3> QED BY <1>4, <2>2, <3>1
  <2>4. Len(file) = own + LinesLen(Len(st))
    <3> DEFINE F == Len(file)
               W == Len(w)
               N == LinesLen(Len(st))
    <3>1. F \in Nat /\ b \in Nat /\ W = F - b
      BY <1>1, <1>4
    <3>2. N \in Nat /\ o \in {0, 1} /\ own = b + o /\ W = o + N
      BY <1>1, <1>3, <2>1
    <3> HIDE DEF F, W, N, b
    <3>3. F = own + N
      BY <3>1, <3>2
    <3> QED BY <3>3 DEF F, N
  <2> QED BY <1>1, <1>6, <2>3, <2>4
<1> QED BY <1>5, <1>6

-----------------------------------------------------------------------------
(* What a stamp of LOG is read as.                                         *)

\* The instant read, within half a tick and half a second of the one stamped;
\* a tick after the stamp it is not in the future.
LEMMA StampReads ==
  ASSUME NEW s \in Secs, NEW n \in Secs, FmtStamp(s).day >= 0,
         TicksPerDay * (n - s) >= DayLength,
         NEW v, v = Instant(Ticks(s)), NEW x, x = FmtStamp(s)
  PROVE  /\ v \in Secs /\ v >= 0 /\ v <= n /\ x.form = "decimal"
         /\ 2 * (TicksPerDay * (v - s)) \in -(DayLength + TicksPerDay)..(DayLength + TicksPerDay)
         /\ \A at \in Secs : IsFull(x.mod, Day(at)) =>
              ParseStamp(x, at) = Good(v) /\ ParseEnd(x, at) = IF v < at THEN Before ELSE Good(v)
PROOF
<1>1. /\ s \in Int /\ n \in Int /\ DayLength \in Nat \ {0} /\ TicksPerDay \in Nat \ {0}
      /\ MinSecs \in Int /\ MaxSecs \in Int /\ MinSecs <= 0 /\ n <= MaxSecs
  BY DayAssumption, SecsAssumption DEF Secs
<1>2. /\ x.form = "decimal" /\ x.plus = FALSE /\ x.day \in Nat /\ x.mod > 1
      /\ FracSecs(x) \in Nat /\ x.day * DayLength + FracSecs(x) = v
  <2>1. /\ FmtStamp(s).form = "decimal" /\ FmtStamp(s).plus = FALSE /\ FmtStamp(s).day \in Int
        /\ FmtStamp(s).day >= 0 => FmtStamp(s).mod > 1
        /\ FracSecs(FmtStamp(s)) \in Nat
        /\ FmtStamp(s).day * DayLength + FracSecs(FmtStamp(s)) = Instant(Ticks(s))
    BY Printed, Zenon
  <2> QED BY <2>1
<1> DEFINE t  == Ticks(s)
           td == t * DayLength
           st == s * TicksPerDay
           vt == v * TicksPerDay
<1>3. t \in Int /\ 2 * (td - st) \in (1 - DayLength)..DayLength
  BY <1>1, TicksNear
<1>4. v \in Int /\ 2 * (vt - td) \in (1 - TicksPerDay)..TicksPerDay
  BY <1>3, InstantNear
<1>5. td \in Int /\ st \in Int /\ vt \in Int
  BY <1>1, <1>3, <1>4
<1>6. TicksPerDay * (v - s) = vt - st
  BY <1>1, <1>4
<1> HIDE DEF t, td, st, vt
<1>7. 2 * (vt - st) \in -(DayLength + TicksPerDay)..(DayLength + TicksPerDay)
  BY <1>1, <1>3, <1>4, <1>5
<1>8. v >= 0 /\ x.day <= v
  <2>1. x.day * DayLength \in Nat /\ x.day <= x.day * DayLength
    BY <1>1, <1>2, Product
  <2> QED BY <1>2, <2>1
<1>9. v <= n
  <2>1. CASE DayLength <= TicksPerDay
    <3>1. v = s
      BY <1>1, <2>1, TicksAgain
    <3>2. ~(n < s)
      <4> SUFFICES ASSUME n < s PROVE FALSE
        OBVIOUS
      <4>1. TicksPerDay * (n - s) <= 0
        BY <1>1
      <4> QED BY <1>1, <4>1
    <3> QED BY <1>1, <3>1, <3>2
  <2>2. CASE TicksPerDay <= DayLength
    <3> DEFINE nt == n * TicksPerDay
    <3>1. nt \in Int /\ TicksPerDay * (n - s) = nt - st
      BY <1>1 DEF st
    <3>2. vt <= nt
      <4> HIDE DEF nt
      <4> QED BY <1>1, <1>5, <1>7, <2>2, <3>1
    <3>3. ~(n < v)
      <4> SUFFICES ASSUME n < v PROVE FALSE
        OBVIOUS
      <4>1. n * TicksPerDay + TicksPerDay <= v * TicksPerDay
        BY <1>1, <1>4, ProductMonotone
      <4> QED BY <1>1, <1>5, <3>1, <3>2, <4>1 DEF vt
    <3> QED BY <1>1, <1>4, <3>3
  <2> QED BY <1>1, <2>1, <2>2
<1>10. v \in Secs
  BY <1>1, <1>4, <1>8, <1>9 DEF Secs
<1>11. ASSUME NEW at \in Secs, IsFull(x.mod, Day(at))
       PROVE  ParseStamp(x, at) = Good(v) /\ ParseEnd(x, at) = IF v < at THEN Before ELSE Good(v)
  <2>1. ParsesDecimal(x)
    BY <1>1, <1>2, <1>4, <1>8, <1>9 DEF ParsesDecimal
  <2>2. \A forward \in BOOLEAN : Compose(CompleteDay(x.day, x.mod, Day(at), forward), FracSecs(x)) = Good(v)
    BY <1>2, <1>10, <1>11 DEF CompleteDay, Compose, Narrow
  <2>3. ParseStamp(x, at) = Good(v)
    BY <1>2, <2>1, <2>2 DEF ParseStamp
  <2>4. ParseEnd(x, at) = IF v < at THEN Before ELSE Good(v)
    <3>1. Compose(CompleteDay(x.day, x.mod, Day(at), TRUE), FracSecs(x)) = Good(v)
      BY <2>2
    <3>2. Good(v).r = 0 /\ Good(v).out = v
      BY DEF Good
    <3> QED BY <1>2, <1>11, <2>1, <3>1, <3>2 DEF ParseEnd, ParseDecimalEnd
  <2> QED BY <2>3, <2>4
<1> QED BY <1>2, <1>6, <1>7, <1>8, <1>9, <1>10, <1>11

-----------------------------------------------------------------------------
(* The lines of a session are ranges.                                      *)

\* Line l is one range that lasts until - from, to within a tick and a second.
LastsAsShown(l, n, from, until) ==
  /\ Reader(n)!IsGood(l) /\ Len(Reader(n)!Durations(l)) = 1
  /\ TicksPerDay * (Reader(n)!Durations(l)[1] - (until - from))
       \in -(DayLength + TicksPerDay)..(DayLength + TicksPerDay)

\* A stamp of LOG that is read at n without completion, and not too early.
ReadAt(s, n) ==
  /\ s \in Secs /\ FmtStamp(s).day >= 0 /\ TicksPerDay * (n - s) >= DayLength
  /\ IsFull(FmtStamp(s).mod, Day(n))

LEMMA ClosedEntry ==
  ASSUME NEW n \in Secs, NEW i, NEW j, ReadAt(i, n), ReadAt(j, n), i <= j,
         NEW l, l = <<FmtStamp(i), Dash, FmtStamp(j)>>
  PROVE  LastsAsShown(l, n, i, j)
PROOF
<1> DEFINE x == FmtStamp(i)
           y == FmtStamp(j)
           v == Instant(Ticks(i))
           w == Instant(Ticks(j))
<1>1. i \in Secs /\ j \in Secs /\ IsFull(x.mod, Day(n)) /\ IsFull(y.mod, Day(n))
  BY DEF ReadAt
<1>2. /\ v \in Secs /\ v <= n /\ x.form = "decimal"
      /\ 2 * (TicksPerDay * (v - i)) \in -(DayLength + TicksPerDay)..(DayLength + TicksPerDay)
      /\ ParseStamp(x, n) = Good(v)
  BY <1>1, StampReads DEF ReadAt
<1>3. /\ w \in Secs /\ y.form = "decimal"
      /\ 2 * (TicksPerDay * (w - j)) \in -(DayLength + TicksPerDay)..(DayLength + TicksPerDay)
      /\ \A at \in Secs : IsFull(y.mod, Day(at)) =>
           ParseEnd(y, at) = IF w < at THEN Before ELSE Good(w)
  BY <1>1, StampReads DEF ReadAt
<1>4. /\ i \in Int /\ j \in Int /\ n \in Int /\ v \in Int /\ w \in Int
      /\ DayLength \in Nat \ {0} /\ TicksPerDay \in Nat \ {0}
  BY <1>1, <1>2, <1>3, SecsAreInts, DayAssumption
<1>5. v <= w
  <2>1. Ticks(i) \in Int /\ Ticks(j) \in Int /\ Ticks(i) <= Ticks(j)
    BY <1>4, TicksNear, RoundingKeepsOrder
  <2> QED BY <2>1, RoundingKeepsOrder
<1>6. IsFull(y.mod, Day(v))
  <2>1. Day(v) <= Day(n)
    BY <1>2, <1>4, DayMonotone
  <2>2. Day(v) \in Int /\ Day(n) \in Int
    BY <1>2, DayInRange
  <2>3. FmtStamp(j) \in Text
    BY <1>1, Printed
  <2>4. FmtStamp(j).mod \in Int
    BY <2>3 DEF Text
  <2>5. y.mod \in Int
    BY <2>4
  <2> HIDE DEF y, v
  <2> QED BY <1>1, <2>1, <2>2, <2>5 DEF IsFull
<1>7. ParseEnd(y, v) = Good(w)
  <2>1. ParseEnd(y, v) = IF w < v THEN Before ELSE Good(w)
    BY <1>2, <1>3, <1>6
  <2> QED BY <1>4, <1>5, <2>1
<1>8. Good(v).r = 0 /\ Good(v).out = v /\ Good(w).r = 0 /\ Good(w).out = w
  BY DEF Good
<1> HIDE DEF x, y, v, w
<1>9. /\ Reader(n)!IsGood(l) /\ Len(Reader(n)!Durations(l)) = 1
      /\ Reader(n)!Durations(l)[1] = w - v
  <2>1. ParseStamp(x, n).r = 0 /\ ParseStamp(x, n).out = v /\ ParseEnd(y, v).r = 0 /\ ParseEnd(y, v).out = w
    BY <1>2, <1>7, <1>8
  <2>2. l = <<x, Dash, y>>
    BY DEF x, y
  <2>3. /\ Reader(n)!IsGood(l) /\ Len(Reader(n)!Durations(l)) = 1
        /\ Reader(n)!Durations(l)[1] = ParseEnd(y, ParseStamp(x, n).out).out - ParseStamp(x, n).out
    BY <1>2, <1>3, <2>1, <2>2, ClosedLine
  <2> QED BY <2>1, <2>3
<1>10. TicksPerDay * ((w - v) - (j - i)) \in -(DayLength + TicksPerDay)..(DayLength + TicksPerDay)
  <2> DEFINE a == TicksPerDay * (v - i)
             b == TicksPerDay * (w - j)
  <2>1. a \in Int /\ b \in Int /\ TicksPerDay * ((w - v) - (j - i)) = b - a
    BY <1>4
  <2>2. 2 * a \in -(DayLength + TicksPerDay)..(DayLength + TicksPerDay)
        /\ 2 * b \in -(DayLength + TicksPerDay)..(DayLength + TicksPerDay)
    BY <1>2, <1>3
  <2> HIDE DEF a, b
  <2>3. b - a \in -(DayLength + TicksPerDay)..(DayLength + TicksPerDay)
    BY <1>4, <2>1, <2>2
  <2> QED BY <2>1, <2>3
<1> QED BY <1>9, <1>10 DEF LastsAsShown

LEMMA OpenEntry ==
  ASSUME NEW n \in Secs, NEW i, ReadAt(i, n), NEW l, l = <<FmtStamp(i), Dash>>
  PROVE  LastsAsShown(l, n, i, n)
PROOF
<1> DEFINE x == FmtStamp(i)
           v == Instant(Ticks(i))
<1>1. i \in Secs /\ IsFull(x.mod, Day(n))
  BY DEF ReadAt
<1>2. /\ v \in Secs /\ v <= n /\ x.form = "decimal"
      /\ 2 * (TicksPerDay * (v - i)) \in -(DayLength + TicksPerDay)..(DayLength + TicksPerDay)
      /\ ParseStamp(x, n) = Good(v)
  BY <1>1, StampReads DEF ReadAt
<1>3. /\ i \in Int /\ n \in Int /\ v \in Int
      /\ DayLength \in Nat \ {0} /\ TicksPerDay \in Nat \ {0}
  BY <1>1, <1>2, SecsAreInts, DayAssumption
<1>4. Good(v).r = 0 /\ Good(v).out = v
  BY DEF Good
<1>5. l = <<x, Dash>>
  OBVIOUS
<1> HIDE DEF x, v
<1>6. /\ Reader(n)!IsGood(l) /\ Len(Reader(n)!Durations(l)) = 1
      /\ Reader(n)!Durations(l)[1] = n - v
  <2>1. ParseStamp(x, n).r = 0 /\ ParseStamp(x, n).out = v
    BY <1>2, <1>4
  <2>2. /\ Reader(n)!IsGood(l) /\ Len(Reader(n)!Durations(l)) = 1
        /\ Reader(n)!Durations(l)[1] = n - ParseStamp(x, n).out
    BY <1>2, <1>5, <2>1, OpenLine
  <2> QED BY <2>1, <2>2
<1>7. TicksPerDay * ((n - v) - (n - i)) \in -(DayLength + TicksPerDay)..(DayLength + TicksPerDay)
  <2> DEFINE a == TicksPerDay * (v - i)
  <2>1. a \in Int /\ TicksPerDay * ((n - v) - (n - i)) = -a
    BY <1>3
  <2>2. 2 * a \in -(DayLength + TicksPerDay)..(DayLength + TicksPerDay)
    BY <1>2
  <2> HIDE DEF a
  <2>3. -a \in -(DayLength + TicksPerDay)..(DayLength + TicksPerDay)
    BY <1>3, <2>1, <2>2
  <2> QED BY <2>1, <2>3
<1> QED BY <1>6, <1>7 DEF LastsAsShown

\* Four cells for an entry, after at most one more.
LEMMA QuarterIs ==
  ASSUME NEW q \in Nat, NEW o \in {0, 1}
  PROVE  (4 * q + o) \div 4 = q
PROOF
<1>1. CASE o = 0
  <2>1. (4 * q) \div 4 = q /\ 4 * q + o = 4 * q
    BY <1>1
  <2> QED BY <2>1
<1>2. CASE o = 1
  <2>1. (4 * q + 1) \div 4 = q
    OBVIOUS
  <2> QED BY <1>2, <2>1
<1> QED BY <1>1, <1>2

\* An END comes after its START.
LEMMA NextIsEven ==
  ASSUME NEW n \in Nat, NEW k \in 1..n, k % 2 = 1, k < n
  PROVE  k + 1 \in 1..n /\ (k + 1) % 2 = 0 /\ (k + 1) - 1 = k
PROOF
<1>1. (k + 1) % 2 = 0
  OBVIOUS
<1> QED BY <1>1

\* Each line of a session is an entry of its list.
LEMMA LineOfEntry ==
  ASSUME TypeOK, NEW t \in Trackers, Current(t), wrote[t], base[t] <= Len(file),
         NEW b \in OwnLines(t), NEW k, k = 2 * ((b - base[t]) \div 4) + 1,
         NEW st, st = stamps[t], \A i \in 1..Len(st) : FmtStamp(st[i]).day >= 0
  PROVE  /\ k \in 1..Len(st) /\ k % 2 = 1
         /\ LineTokens(file, b) =
              IF k < Len(st) THEN <<FmtStamp(st[k]), Dash, FmtStamp(st[k + 1])>>
              ELSE <<FmtStamp(st[k]), Dash>>
PROOF
<1> DEFINE o == IF nl[t] THEN 1 ELSE 0
           own == base[t] + o
           j == b - own
<1>1. /\ file \in Seq(Cell) /\ own \in Nat /\ st \in Seq(Secs) /\ Len(file) \in Nat /\ Len(st) \in Nat
      /\ IF st = <<>> THEN Len(file) <= own
         ELSE /\ Len(file) = own + LinesLen(Len(st))
              /\ \A p \in 1..LinesLen(Len(st)) : file[own + p] = Lines(st)[p]
  <2>1. /\ file \in Seq(Cell) /\ own \in Nat /\ st \in Seq(Secs)
        /\ IF st = <<>> THEN Len(file) <= own
           ELSE /\ Len(file) = own + LinesLen(Len(st))
                /\ \A p \in 1..LinesLen(Len(st)) : file[own + p] = Lines(st)[p]
    BY OwnPart
  <2> HIDE DEF own
  <2> QED BY <2>1
<1>2. /\ b \in own..(Len(file) - 1) /\ (b = own \/ EndsLine(file[b]))
      /\ base[t] \in Nat /\ o \in {0, 1} /\ own = base[t] + o
  BY DEF OwnLines, TypeOK
<1> HIDE DEF o, own
<1>3. st # <<>> /\ j \in Nat /\ j < LinesLen(Len(st)) /\ b = own + j /\ LinesLen(Len(st)) \in Int
      /\ b \in Nat
  <2>1. \A n \in Nat : LinesLen(n) \in Int
    BY DEF LinesLen
  <2>2. LinesLen(Len(st)) \in Int
    BY <1>1, <2>1
  <2>3. b \in Int /\ b >= own /\ b <= Len(file) - 1
    BY <1>1, <1>2
  <2>4. st # <<>>
    BY <1>1, <2>3
  <2>5. Len(file) = own + LinesLen(Len(st))
    BY <1>1, <2>4
  <2> DEFINE N == LinesLen(Len(st))
             F == Len(file)
  <2> HIDE DEF N, F
  <2>6. N \in Int /\ F \in Int /\ own \in Nat /\ b >= own /\ b <= F - 1 /\ F = own + N
    BY <1>1, <2>2, <2>3, <2>5 DEF N, F
  <2>7. b - own \in Nat /\ b - own < N /\ b = own + (b - own) /\ b \in Nat
    BY <2>3, <2>6
  <2> QED BY <2>2, <2>4, <2>7 DEF N
<1> HIDE DEF j
<1>4. j = 0 \/ EndsLine(Lines(st)[j])
  <2>1. j # 0 => j \in 1..LinesLen(Len(st))
    BY <1>3
  <2>2. j # 0 => b # own
    BY <1>1, <1>3
  <2> QED BY <1>1, <1>2, <1>3, <2>1, <2>2
<1>5. PICK q \in Nat : j = 4 * q /\ 2 * q + 1 <= Len(st)
  BY <1>1, <1>3, <1>4, EntryStarts
<1>6. k = 2 * q + 1
  <2> DEFINE c == base[t]
  <2>1. c \in Nat /\ own = c + o /\ b = own + j /\ j = 4 * q
    BY <1>2, <1>3, <1>5, Zenon
  <2>2. o \in Nat
    BY <1>2
  <2> HIDE DEF c
  <2>3. b - c = 4 * q + o
    BY <2>1, <2>2
  <2>4. (4 * q + o) \div 4 = q
    BY <1>2, QuarterIs
  <2>5. k = 2 * ((b - c) \div 4) + 1
    BY DEF c
  <2> QED BY <2>3, <2>4, <2>5
<1>7. k \in 1..Len(st) /\ k % 2 = 1 /\ k <= Len(st)
  BY <1>1, <1>5, <1>6
<1> DEFINE x == FmtStamp(st[k])
           y == FmtStamp(st[k + 1])
           N == LinesLen(Len(st))
<1>8. /\ 4 * q + 2 <= N /\ Lines(st)[4 * q + 1] = Stamped(x)
      /\ Lines(st)[4 * q + 2] = Mark(IF k < Len(st) THEN "dash" ELSE "open")
      /\ k < Len(st) =>
           4 * q + 4 <= N /\ Lines(st)[4 * q + 3] = Stamped(y) /\ Lines(st)[4 * q + 4] = Mark("nl")
      /\ k = Len(st) => N = 4 * q + 2
  BY <1>1, <1>5, <1>6, <1>7, EntryCells
<1>9. x.day >= 0 /\ (k < Len(st) => y.day >= 0)
  <2>1. k < Len(st) => k + 1 \in 1..Len(st)
    BY <1>1, <1>7
  <2>2. k \in 1..Len(st) /\ \A i \in 1..Len(st) : FmtStamp(st[i]).day >= 0
    BY <1>7
  <2> QED BY <2>1, <2>2
<1>10. N \in Int /\ Len(file) = own + N /\ b = own + 4 * q
       /\ \A p \in 1..N : file[own + p] = Lines(st)[p]
  BY <1>1, <1>3, <1>5
<1> HIDE DEF x, y, N
<1>11. CASE k < Len(st)
  <2>1. /\ b + 4 <= Len(file) /\ b + 1 = own + (4 * q + 1) /\ b + 2 = own + (4 * q + 2)
        /\ b + 3 = own + (4 * q + 3) /\ b + 4 = own + (4 * q + 4)
        /\ 4 * q + 1 \in 1..N /\ 4 * q + 2 \in 1..N /\ 4 * q + 3 \in 1..N /\ 4 * q + 4 \in 1..N
    <3> DEFINE F == Len(file)
    <3>1. /\ 4 * q + 4 <= N /\ F = own + N /\ b = own + 4 * q
          /\ own \in Nat /\ N \in Int /\ F \in Int
      BY <1>1, <1>8, <1>10, <1>11
    <3> HIDE DEF F
    <3>2. /\ b + 4 <= F /\ b + 1 = own + (4 * q + 1) /\ b + 2 = own + (4 * q + 2)
          /\ b + 3 = own + (4 * q + 3) /\ b + 4 = own + (4 * q + 4)
      BY <3>1
    <3>3. 4 * q + 1 \in 1..N /\ 4 * q + 2 \in 1..N
      BY <3>1
    <3>4. 4 * q + 3 \in 1..N /\ 4 * q + 4 \in 1..N
      BY <3>1
    <3> QED BY <3>2, <3>3, <3>4 DEF F
  <2>2. /\ file[b + 1] = Stamped(x) /\ file[b + 2] = Mark("dash")
        /\ file[b + 3] = Stamped(y) /\ file[b + 4] = Mark("nl")
    BY <1>8, <1>10, <1>11, <2>1
  <2>3. LineTokens(file, b) = <<x, Dash, y>>
    <3>1. file \in Seq(Cell) /\ b \in Nat /\ b + 4 <= Len(file) /\ x.day >= 0 /\ y.day >= 0
      BY <1>1, <1>3, <1>9, <1>11, <2>1
    <3> HIDE DEF o, own, j
    <3> QED BY <2>2, <3>1, ClosedTokens
  <2> QED BY <1>7, <1>11, <2>3 DEF x, y
<1>12. CASE ~(k < Len(st))
  <2>1. k = Len(st)
    BY <1>1, <1>7, <1>12
  <2>2. /\ b + 2 = Len(file) /\ b + 1 = own + (4 * q + 1) /\ b + 2 = own + (4 * q + 2)
        /\ 4 * q + 1 \in 1..N /\ 4 * q + 2 \in 1..N
    <3> DEFINE F == Len(file)
    <3> HIDE DEF F
    <3>1. N = 4 * q + 2 /\ F = own + N /\ b = own + 4 * q /\ own \in Nat /\ N \in Int /\ F \in Int
      BY <1>1, <1>8, <1>10, <2>1 DEF F
    <3>2. /\ b + 2 = F /\ b + 1 = own + (4 * q + 1) /\ b + 2 = own + (4 * q + 2)
          /\ 4 * q + 1 \in 1..N /\ 4 * q + 2 \in 1..N
      BY <3>1
    <3> QED BY <3>2 DEF F
  <2>3. file[b + 1] = Stamped(x) /\ file[b + 2] = Mark("open")
    BY <1>8, <1>10, <1>12, <2>2
  <2>4. LineTokens(file, b) = <<x, Dash>>
    BY <1>1, <1>3, <1>9, <2>2, <2>3, OpenTokens
  <2> QED BY <1>7, <1>12, <2>4 DEF x
<1> QED BY <1>11, <1>12

LEMMA CurrentSums == LogInv => LogSums
PROOF
<1> SUFFICES ASSUME LogInv, NEW t \in Appenders, NEW n \in Moments,
                    Readable(t), Passed(t, n, DayLength), IsLiteral(t, n), NEW b \in OwnLines(t)
             PROVE  LET l   == LineTokens(file, b)
                        k   == 2 * ((b - base[t]) \div 4) + 1
                        end == IF k < Len(stamps[t]) THEN stamps[t][k + 1] ELSE n
                    IN LastsAsShown(l, n, stamps[t][k], end)
  BY DEF LogSums, LastsAsShown
<1> DEFINE st == stamps[t]
           k  == 2 * ((b - base[t]) \div 4) + 1
<1>1. TypeOK /\ t \in Trackers /\ wrote[t] /\ Current(t) /\ base[t] <= Len(file)
  <2>1. TypeOK /\ t \in Trackers /\ pc[t] = "render" /\ ~logErr[t] /\ wrote[t]
    BY TrackersAssumption DEF LogInv, IInv, Readable
  <2>2. InSession(t)
    BY <2>1 DEF InSession, Idle
  <2>3. base[t] + done[t] <= Len(file) /\ done[t] \in Nat /\ base[t] \in Nat /\ Len(file) \in Nat
    BY <2>1, <2>2 DEF LogInv, IInv, WritesInLog, TypeOK
  <2>4. Current(t)
    BY <2>1 DEF LogInv, LogState, LogStateOf, Idle
  <2> QED BY <2>1, <2>3, <2>4
<1>2. n \in Secs
  BY InputsAssumption, SecsAssumption DEF Moments, Secs
<1>3. /\ st \in Seq(Secs) /\ Len(st) \in Nat
      /\ \A i \in 1..Len(st) : ReadAt(st[i], n)
      /\ \A i \in 1..Len(st) : FmtStamp(st[i]).day >= 0
      /\ \A i \in 1..Len(st) : i % 2 = 0 => st[i - 1] <= st[i]
  <2>1. st \in Seq(Secs)
    BY <1>1 DEF TypeOK
  <2>2. \A i \in 1..Len(st) : i % 2 = 0 => st[i - 1] <= st[i]
    BY DEF Readable
  <2>3. ASSUME NEW i \in 1..Len(st) PROVE ReadAt(st[i], n) /\ FmtStamp(st[i]).day >= 0
    <3>1. st[i] \in Secs
      BY <2>1
    <3> QED BY <3>1 DEF ReadAt, Readable, Passed, IsLiteral
  <2> HIDE DEF st
  <2> QED BY <2>1, <2>2, <2>3
<1> DEFINE l == LineTokens(file, b)
<1>4. /\ k \in 1..Len(st) /\ k % 2 = 1
      /\ l = IF k < Len(st) THEN <<FmtStamp(st[k]), Dash, FmtStamp(st[k + 1])>>
             ELSE <<FmtStamp(st[k]), Dash>>
  BY <1>1, <1>3, LineOfEntry
<1> HIDE DEF st, k, l
<1>5. CASE k < Len(st)
  <2>1. k + 1 \in 1..Len(st) /\ (k + 1) % 2 = 0 /\ (k + 1) - 1 = k
    BY <1>3, <1>4, <1>5, NextIsEven
  <2>2. ReadAt(st[k], n) /\ ReadAt(st[k + 1], n) /\ st[k] <= st[k + 1]
    BY <1>3, <1>4, <2>1
  <2>3. LastsAsShown(l, n, st[k], st[k + 1])
    BY <1>2, <1>4, <1>5, <2>2, ClosedEntry
  <2> QED BY <1>5, <2>3 DEF st, k, l
<1>6. CASE ~(k < Len(st))
  <2>1. LastsAsShown(l, n, st[k], n)
    BY <1>2, <1>3, <1>4, <1>6, OpenEntry
  <2> QED BY <1>6, <2>1 DEF st, k, l
<1> QED BY <1>5, <1>6

\* Whatever was stamped, removed and edited, and however the writes went: what
\* `daykeep -f LOG' reads from a log that was just written is what the tracker
\* shows, entry by entry, to within a tick and a second, from a tick after the
\* last stamp on, for logs whose stamps have as many digits as today's number
\* and no END that a change of the zone put before its START.
THEOREM LogIsSummed == Spec => []LogSums
PROOF BY CurrentSums, LogInvariance, PTL

=============================================================================
