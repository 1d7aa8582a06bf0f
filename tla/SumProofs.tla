----------------------------- MODULE SumProofs ------------------------------
(***************************************************************************)
(* Sum mode, proved for any operands, files and clock: the total is that   *)
(* of the ranges in the lines, the status the worst that happened, the     *)
(* total is lowered by no more than a change of the zone, and it is        *)
(* printed as the nearest number of its units.                             *)
(***************************************************************************)
EXTENDS Sum, DkTimeProofs, Recursion

\* What one addition can do to the total, the status and the output.
Adds == /\ total' \in Secs /\ IsEndOf(total', total)
        /\ status' \in 0..2 /\ status' >= status
        /\ printed' \in Seq(Secs)

LEMMA BadInputAdds ==
  ASSUME TypeOK, status' = Worst(1), UNCHANGED <<total, printed>>
  PROVE  Adds
PROOF BY SecsAreInts DEF TypeOK, Worst, Adds, IsEndOf

\* A range takes off the total what its END lies before its START.
LEMMA AddRangeAdds ==
  ASSUME TypeOK, NEW from \in Secs, NEW to \in Secs, IsEndOf(to, from), AddRange(from, to)
  PROVE  Adds
PROOF
<1> DEFINE d   == Sub(to, from)
           sum == Add(total, d.out)
<1>1. CASE d.r = 0 /\ sum.r = 0
  <2>1. d.out = to - from
    BY <1>1, NarrowGood DEF Sub
  <2>2. sum.out = total + d.out /\ sum.out \in Secs
    BY <1>1, NarrowGood DEF Add
  <2>3. total' = sum.out /\ status' = status
        /\ printed' = (IF summarize THEN printed ELSE Append(printed, sum.out))
    BY <1>1 DEF AddRange
  <2>4. from \in Int /\ to \in Int /\ total \in Int
    BY SecsAreInts DEF TypeOK
  <2>5. total' \in Secs /\ total' = total + (to - from)
    BY <2>1, <2>2, <2>3
  <2>6. IsEndOf(total', total)
    BY <2>4, <2>5, CivilAssumption DEF IsEndOf
  <2>7. printed' \in Seq(Secs)
    BY <2>2, <2>3 DEF TypeOK
  <2> QED BY <2>3, <2>5, <2>6, <2>7 DEF TypeOK, Adds
<1>2. CASE ~(d.r = 0 /\ sum.r = 0)
  <2>1. status' = Worst(1) /\ UNCHANGED <<total, printed>>
    BY <1>2 DEF AddRange
  <2> QED BY <2>1, BadInputAdds
<1> QED BY <1>1, <1>2

LEMMA NoneAdds == ASSUME TypeOK, UNCHANGED outVars PROVE Adds
PROOF BY SecsAreInts DEF TypeOK, outVars, Adds, IsEndOf

LEMMA WordsAreTexts == \A w \in Words \union {Dash} : w # Dash => w \in Text
PROOF BY SumAssumption

\* A token: it begins a range, ends one, or is an error.
LEMMA TokenStep ==
  ASSUME TypeOK, Token
  PROVE  Adds /\ start' \in Secs /\ state' \in {"START", "DASH", "END", "dropped"}
PROOF
<1>1. PICK w \in Words \union {Dash} : WantStart(w) \/ WantDash(w) \/ WantEnd(w)
  BY DEF Token
<1>2. start \in Secs
  BY DEF TypeOK
<1>3. CASE BadInput
  <2>1. Adds
    BY <1>3, BadInputAdds DEF BadInput
  <2> QED BY <1>2, <1>3, <2>1 DEF BadInput
<1>4. CASE WantStart(w) /\ ~BadInput
  <2>1. start' \in Secs /\ state' = "DASH" /\ UNCHANGED outVars
    BY <1>4, ParseStampInRange DEF WantStart
  <2> QED BY <2>1, NoneAdds
<1>5. CASE WantDash(w) /\ ~BadInput
  <2>1. start' = start /\ state' = "END" /\ UNCHANGED outVars
    BY <1>5 DEF WantDash
  <2> QED BY <1>2, <2>1, NoneAdds
<1>6. CASE WantEnd(w) /\ ~BadInput
  <2>1. /\ w # Dash /\ ParseEnd(w, start).r = 0
        /\ AddRange(start, ParseEnd(w, start).out)
        /\ state' = "START" /\ start' = start
    BY <1>6 DEF WantEnd
  <2>2. ParseEnd(w, start).out \in Secs /\ IsEndOf(ParseEnd(w, start).out, start)
    BY <1>2, <2>1, WordsAreTexts, ParseEndNotBefore
  <2>3. Adds
    BY <1>2, <2>1, <2>2, AddRangeAdds
  <2> QED BY <1>2, <2>1, <2>3
<1> QED BY <1>1, <1>3, <1>4, <1>5, <1>6

\* The end of a line, which ends an open range now if that has begun.
LEMMA LineEndsAdds == ASSUME TypeOK, LineEnds PROVE Adds
PROOF
<1>1. now \in Secs /\ start \in Secs
  BY DEF TypeOK
<1>2. CASE UNCHANGED outVars
  BY <1>2, NoneAdds
<1>3. CASE status' = Worst(1) /\ UNCHANGED <<total, printed>>
  BY <1>3, BadInputAdds
<1>4. CASE now >= start /\ AddRange(start, now)
  <2>1. IsEndOf(now, start)
    BY <1>1, <1>4, SecsAreInts DEF IsEndOf
  <2> QED BY <1>1, <1>4, <2>1, AddRangeAdds
<1> QED BY <1>2, <1>3, <1>4 DEF LineEnds

LEMMA InitTypeOK == Init => TypeOK
PROOF
<1>1. ASSUME Init PROVE TypeOK
  <2>1. now \in Secs /\ todo \in Seq({"operands", "file", "stdin"})
    BY <1>1, SumAssumption DEF Init
  <2>2. start \in Secs /\ total \in Secs /\ status \in 0..2
    BY <1>1, SecsAssumption DEF Init, Secs
  <2>3. source = "none" /\ state = "START" /\ printed = <<>>
    BY <1>1 DEF Init
  <2>4. broken \in BOOLEAN /\ summarize \in BOOLEAN
    BY <1>1, Zenon DEF Init
  <2> QED BY <2>1, <2>2, <2>3, <2>4 DEF TypeOK
<1> QED BY <1>1

LEMMA SumStep ==
  ASSUME TypeOK, [Next]_vars
  PROVE  TypeOK' /\ IsEndOf(total', total) /\ status' >= status
PROOF
<1> DEFINE Sources == {"operands", "file", "stdin"}
<1>1. TypeOK /\ total \in Int /\ status \in Int /\ IsEndOf(total, total)
  BY SecsAreInts DEF TypeOK, IsEndOf
<1>2. CASE Adds /\ UNCHANGED inVars /\ broken' = broken /\ start' \in Secs
           /\ state' \in {"START", "DASH", "END", "dropped", "eof"}
  BY <1>1, <1>2 DEF Adds, TypeOK, inVars
<1>3. CASE Token
  BY <1>2, <1>3, TokenStep DEF Token
<1>4. CASE Newline
  BY <1>1, <1>2, <1>4, LineEndsAdds DEF Newline, TypeOK
<1>5. CASE EndOfSource
  BY <1>1, <1>2, <1>5, LineEndsAdds DEF EndOfSource, TypeOK
<1>6. ASSUME todo # <<>>, todo \in Seq(Sources)
      PROVE  Head(todo) \in Sources /\ Tail(todo) \in Seq(Sources)
  BY <1>6
<1>7. CASE Open
  BY <1>1, <1>6, <1>7 DEF Open, TypeOK, outVars
<1>8. CASE OpenFails
  <2>1. status' \in 0..2 /\ status' >= status
    BY <1>1, <1>8 DEF OpenFails, Worst, TypeOK
  <2> QED BY <1>1, <1>6, <1>8, <2>1 DEF OpenFails, TypeOK
<1>9. CASE Close
  <2>1. CASE UNCHANGED <<status, broken>>
    BY <1>1, <1>9, <2>1 DEF Close, TypeOK
  <2>2. CASE status' = Worst(2) /\ broken' = TRUE
    <3>1. status' \in 0..2 /\ status' >= status
      BY <1>1, <2>2 DEF Worst, TypeOK
    <3> QED BY <1>1, <1>9, <2>2, <3>1 DEF Close, TypeOK
  <2> QED BY <1>9, <2>1, <2>2 DEF Close
<1>10. CASE Finish
  <2>1. printed' \in Seq(Secs)
    BY <1>1, <1>10 DEF Finish, TypeOK
  <2> QED BY <1>1, <1>10, <2>1 DEF Finish, TypeOK
<1>11. CASE UNCHANGED vars
  BY <1>1, <1>11 DEF vars, inVars, outVars, TypeOK
<1> QED BY <1>3, <1>4, <1>5, <1>7, <1>8, <1>9, <1>10, <1>11 DEF Next

\* The sum, its START and every printed total stay within dk_secs, whatever the
\* lines are: what add_range cannot add it leaves out.
THEOREM SumTypeCorrect == Spec => []TypeOK
PROOF
<1>1. TypeOK /\ [Next]_vars => TypeOK'
  BY SumStep
<1> QED BY <1>1, InitTypeOK, PTL DEF Spec

\* No token, line or file takes anything off the total, save that a clock END may
\* lie before its START by less than the offsets of the zone differ, and none
\* improves the status: for every text, day length, zone and clock.
THEOREM OnlyZonesTakeBack == Spec => OnlyTheZoneTakesBack
PROOF
<1>1. TypeOK /\ [Next]_vars => [IsEndOf(total', total) /\ status' >= status]_vars
  BY SumStep
<1> QED BY <1>1, SumTypeCorrect, PTL DEF Spec, OnlyTheZoneTakesBack

-----------------------------------------------------------------------------
(* Printing a total.                                                       *)

\* A total is never printed more than half a unit off, in ticks or in minutes,
\* and never with a part that is a whole unit (dk_fmt_dur, dk_fmt_hm).
THEOREM TotalsPrintNearest == Spec => []PrintsNearest
PROOF
<1>1. ASSUME TypeOK PROVE PrintsNearest
  <2> DEFINE d == Magnitude(total)
             t == Ticks(d)
             m == Minutes(total)
  <2>1. d \in Int
    BY <1>1, SecsAreInts DEF TypeOK, Magnitude
  <2>2. t \in Int /\ t = (d * TicksPerDay + DayLength \div 2) \div DayLength
    <3>1. d * TicksPerDay + DayLength \div 2 \in Int
      BY <2>1, DayAssumption
    <3> QED BY <2>1, <3>1, DayAssumption, TicksType, FloorDivWideIsDiv DEF Ticks
  <2>3. m \in Int /\ m = (d + MinuteSecs \div 2) \div MinuteSecs
    BY <2>1, SumAssumption DEF Minutes
  <2>4. 2 * (t * DayLength - d * TicksPerDay) \in (1 - DayLength)..DayLength
    <3>1. d * TicksPerDay \in Int
      BY <2>1, DayAssumption
    <3> QED BY <2>2, <3>1, DayAssumption, HalfUp
  <2>5. 2 * (m * MinuteSecs - d) \in (1 - MinuteSecs)..MinuteSecs
    BY <2>1, <2>3, SumAssumption, HalfUp
  <2>6. (t \div TicksPerDay) * TicksPerDay + (t % TicksPerDay) = t /\ t % TicksPerDay < TicksPerDay
    BY <2>2, DayAssumption, WholeAndPart
  <2>7. (m \div HourMinutes) * HourMinutes + (m % HourMinutes) = m /\ m % HourMinutes < HourMinutes
    BY <2>3, SumAssumption, WholeAndPart
  <2>8. /\ FmtDur(total).whole = t \div TicksPerDay /\ FmtDur(total).part = t % TicksPerDay
        /\ FmtHm(total).whole = m \div HourMinutes /\ FmtHm(total).part = m % HourMinutes
        /\ FmtDur(total).neg = (total < 0) /\ FmtHm(total).neg = (total < 0)
    BY DEF FmtDur, FmtHm
  <2> HIDE DEF t, m, d
  <2> QED BY <2>4, <2>5, <2>6, <2>7, <2>8 DEF PrintsNearest, m, d
<1> QED BY <1>1, SumTypeCorrect, PTL

-----------------------------------------------------------------------------
(* The totals of a sequence of durations.                                  *)

LEMMA MoreType ==
  ASSUME NEW sums \in Seq(Secs), NEW d \in Int
  PROVE  /\ More(sums, d) \in Seq(Secs) /\ TotalOf(sums) \in Secs
         /\ Len(More(sums, d)) <= Len(sums) + 1
PROOF
<1>1. TotalOf(sums) \in Secs
  BY SecsAssumption DEF TotalOf, Secs
<1>2. CASE d \in Secs /\ TotalOf(sums) + d \in Secs
  <2> DEFINE t == TotalOf(sums) + d
  <2>1. More(sums, d) = Append(sums, t) /\ t \in Secs
    BY <1>2 DEF More
  <2> HIDE DEF t
  <2> QED BY <1>1, <2>1
<1>3. CASE ~(d \in Secs /\ TotalOf(sums) + d \in Secs)
  BY <1>1, <1>3 DEF More
<1> QED BY <1>2, <1>3

\* Totals, step by step.
LEMMA TotalsIs ==
  ASSUME NEW ds \in Seq(Int)
  PROVE  \E f \in [0..Len(ds) -> Seq(Secs)] :
           /\ f[0] = <<>> /\ \A n \in 1..Len(ds) : f[n] = More(f[n - 1], ds[n])
           /\ Totals(ds) = f[Len(ds)]
PROOF
<1> DEFINE N == Len(ds)
           Step(q, n) == More(q, ds[n])
           Is(f) == f = [n \in 0..N |-> IF n = 0 THEN <<>> ELSE Step(f[n - 1], n)]
           g == CHOOSE g0 : Is(g0)
           T == Seq(Secs)
           none == <<>>
           h == [p \in (1..N) \X T |-> Step(p[2], p[1])]
<1>1. N \in Nat /\ \A n \in 1..N : ds[n] \in Int
  OBVIOUS
<1>2. \A q \in T, n \in 1..N : Step(q, n) \in T
  BY <1>1, MoreType
<1>3. none \in T
  OBVIOUS
<1>4. Totals(ds) = g[N]
  BY DEF Totals
<1> SUFFICES \E f \in [0..N -> T] :
               /\ f[0] = none /\ \A n \in 1..N : f[n] = Step(f[n - 1], n)
               /\ g[N] = f[N]
  BY <1>4
<1>5. \A f : Is(f) <=> f = [n \in 0..N |-> IF n = 0 THEN none ELSE Step(f[n - 1], n)]
  OBVIOUS
<1> HIDE DEF T, N, Step, Is, none
<1>6. h \in [(1..N) \X T -> T] /\ \A n \in 1..N, q \in T : h[<<n, q>>] = Step(q, n)
  BY <1>2
<1> HIDE DEF h
<1>7. PICK f \in [0..N -> T] : f[0] = none /\ \A n \in 1..N : f[n] = h[<<n, f[n - 1]>>]
  <2> SUFFICES HasFunction(0, 1, N, T, none, h)
    BY Zenon DEF HasFunction
  <2>1. 0 < 1 /\ 1 <= 0 + 1 /\ 0 \in Int /\ 1 \in Int /\ N \in Int /\ 0 <= N
    BY <1>1
  <2> QED BY <1>3, <1>6, <2>1, RecursiveFunction
<1>8. \A n \in 1..N : n \in 0..N /\ n - 1 \in 0..N /\ n # 0
  BY <1>1
<1>9. \A n \in 1..N : f[n] = Step(f[n - 1], n)
  BY <1>6, <1>7, <1>8
<1>10. \A n \in 0..N : n # 0 => n \in 1..N
  BY <1>1
<1>11. Is(f)
  BY <1>5, <1>7, <1>9, <1>10
<1>12. Is(g)
  BY <1>11, Zenon
<1> HIDE DEF g
<1>13. 0 \in 0..N /\ N \in 0..N
  BY <1>1
<1>14. g[0] = none /\ \A n \in 1..N : g[n] = Step(g[n - 1], n)
  BY <1>5, <1>8, <1>12, <1>13
<1>15. Alike(f, g, 0, N)
  <2>1. GoAlike(f, g, 1, N)
    BY <1>9, <1>14 DEF GoAlike
  <2>2. f[0] = g[0] /\ 0 < 1 /\ 1 <= 0 + 1 /\ 0 \in Int /\ 1 \in Int /\ N \in Int
    BY <1>1, <1>7, <1>14
  <2> QED BY <2>1, <2>2, SameRecursion
<1> QED BY <1>7, <1>9, <1>13, <1>15 DEF Alike

LEMMA TotalsNone == Totals(<<>>) = <<>>
PROOF
<1>1. PICK f \in [0..0 -> Seq(Secs)] : f[0] = <<>> /\ Totals(<<>>) = f[0]
  <2>1. <<>> \in Seq(Int) /\ Len(<<>>) = 0
    OBVIOUS
  <2> QED BY <2>1, TotalsIs
<1> QED BY <1>1

\* There are no more totals than durations.
LEMMA TotalsType ==
  ASSUME NEW ds \in Seq(Int)
  PROVE  Totals(ds) \in Seq(Secs) /\ Len(Totals(ds)) <= Len(ds)
PROOF
<1>1. PICK f \in [0..Len(ds) -> Seq(Secs)] :
        /\ f[0] = <<>> /\ \A n \in 1..Len(ds) : f[n] = More(f[n - 1], ds[n])
        /\ Totals(ds) = f[Len(ds)]
  BY TotalsIs
<1> DEFINE N == Len(ds)
           T == {n \in 0..N : Len(f[n]) <= n}
<1>2. N \in Nat /\ 0 \in T
  BY <1>1
<1>3. ASSUME NEW n \in (0 + 1)..N, n - 1 \in T PROVE n \in T
  <2>1. n - 1 \in 0..N /\ n \in 1..N /\ n \in 0..N /\ Len(f[n - 1]) <= n - 1
    BY <1>2, <1>3
  <2>2. f[n - 1] \in Seq(Secs) /\ f[n] \in Seq(Secs) /\ ds[n] \in Int /\ f[n] = More(f[n - 1], ds[n])
    <3>1. f[n - 1] \in Seq(Secs) /\ f[n] \in Seq(Secs)
      BY <1>1, <2>1
    <3>2. ds[n] \in Int
      BY <2>1
    <3>3. f[n] = More(f[n - 1], ds[n])
      BY <1>1, <2>1
    <3> QED BY <3>1, <3>2, <3>3
  <2>3. Len(f[n]) <= Len(f[n - 1]) + 1
    BY <2>2, MoreType
  <2>4. Len(f[n]) \in Nat /\ Len(f[n - 1]) \in Nat
    BY <2>2
  <2>5. Len(f[n]) <= n
    BY <2>1, <2>3, <2>4
  <2> QED BY <2>1, <2>5
<1> HIDE DEF T
<1>4. \A n \in 0..N : n \in T
  <2>1. 0 \in Int /\ N \in Int
    BY <1>2
  <2> QED BY <1>2, <1>3, <2>1, IntervalInduction
<1>5. N \in 0..N
  BY <1>2
<1>6. Len(f[N]) <= N
  BY <1>4, <1>5 DEF T
<1> QED BY <1>1, <1>5, <1>6

LEMMA TotalsAppend ==
  ASSUME NEW ds \in Seq(Int), NEW d \in Int
  PROVE  Totals(Append(ds, d)) = More(Totals(ds), d)
PROOF
<1> DEFINE es == Append(ds, d)
           N  == Len(ds)
<1>1. /\ es \in Seq(Int) /\ N \in Nat /\ Len(es) = N + 1
      /\ es[N + 1] = d /\ \A n \in 1..N : es[n] = ds[n]
  OBVIOUS
<1> HIDE DEF es
<1>2. PICK f \in [0..N -> Seq(Secs)] :
        /\ f[0] = <<>> /\ \A n \in 1..N : f[n] = More(f[n - 1], ds[n])
        /\ Totals(ds) = f[N]
  BY TotalsIs
<1>3. PICK g \in [0..Len(es) -> Seq(Secs)] :
        /\ g[0] = <<>> /\ \A n \in 1..Len(es) : g[n] = More(g[n - 1], es[n])
        /\ Totals(es) = g[Len(es)]
  BY <1>1, TotalsIs
<1>4. \A n \in 1..N : n \in 1..Len(es)
  BY <1>1
<1>5. Alike(f, g, 0, N)
  <2>1. \A n \in 1..N : g[n] = More(g[n - 1], ds[n])
    BY <1>1, <1>3, <1>4
  <2>2. GoAlike(f, g, 1, N)
    BY <1>2, <2>1 DEF GoAlike
  <2>3. f[0] = g[0] /\ 0 < 1 /\ 1 <= 0 + 1 /\ 0 \in Int /\ 1 \in Int /\ N \in Int
    BY <1>1, <1>2, <1>3
  <2> HIDE DEF N
  <2> QED BY <2>2, <2>3, SameRecursion
<1>6. N \in 0..N /\ N + 1 \in 1..Len(es) /\ (N + 1) - 1 = N
  BY <1>1
<1>7. f[N] = g[N]
  BY <1>5, <1>6 DEF Alike
<1>8. g[N + 1] = More(g[N], d)
  BY <1>1, <1>3, <1>6
<1> QED BY <1>1, <1>2, <1>3, <1>7, <1>8 DEF es

-----------------------------------------------------------------------------
(* Concatenation of a sequence of sequences.                               *)

LEMMA FlattenNone == FlattenSeq(<<>>) = <<>>
PROOF BY DEF FlattenSeq

\* FlattenSeq, step by step.
LEMMA FlattenIs ==
  ASSUME NEW S, NEW ss \in Seq(Seq(S)), Len(ss) > 0
  PROVE  \E f \in [1..Len(ss) -> Seq(S)] :
           /\ f[1] = ss[1] /\ \A n \in 2..Len(ss) : f[n] = f[n - 1] \o ss[n]
           /\ FlattenSeq(ss) = f[Len(ss)]
PROOF
<1> DEFINE N == Len(ss)
           T == Seq(S)
           First(i) == ss[i]
           Join(q, i) == q \o ss[i]
           Is(f) == f = [i \in 1..N |-> IF i = 1 THEN First(i) ELSE Join(f[i - 1], i)]
           g == CHOOSE g0 : Is(g0)
<1>1. N \in Nat /\ 1 <= N /\ \A i \in 1..N : ss[i] \in Seq(S)
  OBVIOUS
<1>2. \A q \in T, i \in 2..N : Join(q, i) \in T
  <2> SUFFICES ASSUME NEW q \in T, NEW i \in 2..N PROVE q \o ss[i] \in Seq(S)
    OBVIOUS
  <2>1. ss[i] \in Seq(S)
    BY <1>1
  <2> QED BY <2>1
<1>3. First(1) \in T
  BY <1>1
<1>4. FlattenSeq(ss) = g[N]
  BY <1>1 DEF FlattenSeq
<1> SUFFICES \E f \in [1..N -> T] :
               /\ f[1] = First(1) /\ \A n \in 2..N : f[n] = Join(f[n - 1], n)
               /\ g[N] = f[N]
  BY <1>4
<1> HIDE DEF T, N, First, Join
<1> DEFINE h == [p \in (2..N) \X T |-> Join(p[2], p[1])]
<1>5. h \in [(2..N) \X T -> T] /\ \A n \in 2..N, q \in T : h[<<n, q>>] = Join(q, n)
  BY <1>2
<1> HIDE DEF h
<1>6. PICK f \in [1..N -> T] : f[1] = First(1) /\ \A n \in 2..N : f[n] = h[<<n, f[n - 1]>>]
  <2> SUFFICES HasFunction(1, 2, N, T, First(1), h)
    BY Zenon DEF HasFunction
  <2>1. 1 < 2 /\ 2 <= 1 + 1 /\ 2 \in Int /\ 1 \in Int /\ N \in Int
    BY <1>1
  <2> QED BY <1>1, <1>3, <1>5, <2>1, RecursiveFunction
<1>7. \A n \in 2..N : n \in 1..N /\ n - 1 \in 1..N /\ n # 1
  BY <1>1
<1>8. \A n \in 2..N : f[n] = Join(f[n - 1], n)
  BY <1>5, <1>6, <1>7
<1>9. \A n \in 1..N : n # 1 => n \in 2..N
  BY <1>1
<1>10. Is(f)
  BY <1>6, <1>8, <1>9
<1>11. Is(g)
  <2> HIDE DEF Is
  <2> QED BY <1>10, Zenon
<1> HIDE DEF g
<1>12. 1 \in 1..N /\ N \in 1..N
  BY <1>1
<1>13. g[1] = First(1) /\ \A n \in 2..N : g[n] = Join(g[n - 1], n)
  BY <1>7, <1>11, <1>12
<1>14. \A n \in 1..N : f[n] = g[n]
  <2> SUFFICES Alike(f, g, 1, N)
    BY DEF Alike
  <2>1. GoAlike(f, g, 2, N)
    BY <1>8, <1>13 DEF GoAlike
  <2>2. f[1] = g[1] /\ 1 < 2 /\ 2 <= 1 + 1 /\ 2 \in Int /\ 1 \in Int /\ N \in Int
    BY <1>1, <1>6, <1>13
  <2> QED BY <2>1, <2>2, SameRecursion
<1> QED BY <1>6, <1>8, <1>12, <1>14

LEMMA FlattenType ==
  ASSUME NEW S, NEW ss \in Seq(Seq(S)) PROVE FlattenSeq(ss) \in Seq(S)
PROOF
<1>1. CASE Len(ss) = 0
  <2>1. ss = <<>>
    BY <1>1
  <2>2. FlattenSeq(ss) = <<>>
    BY <2>1, FlattenNone
  <2> QED BY <2>2
<1>2. CASE Len(ss) > 0
  <2>1. PICK f \in [1..Len(ss) -> Seq(S)] : FlattenSeq(ss) = f[Len(ss)]
    BY <1>2, FlattenIs
  <2>2. Len(ss) \in 1..Len(ss)
    BY <1>2
  <2> QED BY <2>1, <2>2
<1> QED BY <1>1, <1>2

LEMMA FlattenAppend ==
  ASSUME NEW S, NEW ss \in Seq(Seq(S)), NEW s \in Seq(S)
  PROVE  FlattenSeq(Append(ss, s)) = FlattenSeq(ss) \o s
PROOF
<1> DEFINE tt == Append(ss, s)
           N  == Len(ss)
           Join(q, i) == q \o tt[i]
<1>1. /\ tt \in Seq(Seq(S)) /\ N \in Nat /\ Len(tt) = N + 1 /\ Len(tt) > 0
      /\ tt[N + 1] = s /\ \A i \in 1..N : tt[i] = ss[i]
  OBVIOUS
<1> HIDE DEF tt
<1>2. PICK g \in [1..Len(tt) -> Seq(S)] :
        /\ g[1] = tt[1] /\ \A n \in 2..Len(tt) : g[n] = Join(g[n - 1], n)
        /\ FlattenSeq(tt) = g[Len(tt)]
  BY <1>1, FlattenIs
<1>3. CASE N = 0
  <2>1. ss = <<>>
    BY <1>3
  <2>2. FlattenSeq(tt) = s
    BY <1>1, <1>2, <1>3
  <2> QED BY <2>1, <2>2, FlattenNone DEF tt
<1>4. CASE N > 0
  <2>1. PICK f \in [1..N -> Seq(S)] :
          /\ f[1] = ss[1] /\ \A n \in 2..N : f[n] = f[n - 1] \o ss[n]
          /\ FlattenSeq(ss) = f[N]
    BY <1>4, FlattenIs
  <2>2. \A n \in 2..N : n \in 1..N /\ n \in 2..Len(tt)
    BY <1>1
  <2>3. \A n \in 2..N : f[n] = Join(f[n - 1], n)
    BY <1>1, <2>1, <2>2
  <2>4. 1 \in 1..N /\ N \in 1..N /\ N + 1 \in 2..Len(tt) /\ (N + 1) - 1 = N
    BY <1>1, <1>4
  <2>5. f[1] = g[1]
    BY <1>1, <1>2, <2>1, <2>4
  <2> HIDE DEF Join
  <2>6. GoAlike(f, g, 2, N)
    BY <1>2, <2>2, <2>3 DEF GoAlike
  <2>7. 1 < 2 /\ 2 <= 1 + 1 /\ 2 \in Int /\ 1 \in Int /\ N \in Int
    BY <1>1
  <2> HIDE DEF N
  <2>8. Alike(f, g, 1, N)
    BY <2>5, <2>6, <2>7, SameRecursion
  <2>9. g[N + 1] = Join(g[N], N + 1)
    BY <1>2, <2>4
  <2>10. FlattenSeq(tt) = g[N] \o s
    BY <1>1, <1>2, <2>9 DEF Join
  <2>11. g[N] = FlattenSeq(ss)
    BY <2>1, <2>4, <2>8 DEF N, Alike
  <2> QED BY <2>10, <2>11 DEF tt
<1> QED BY <1>1, <1>3, <1>4

-----------------------------------------------------------------------------
(* The sum of the lines.  What sum_line remembers of a line is LineIs; the   *)
(* durations that the total counts are those of the lines that have ended,   *)
(* and those of the current line's ranges that have.                         *)

TokenSeqs == Seq(Words \union {Dash})

\* Range n + 1 of l has begun, at s.
Begun(l, n, s) ==
  l[3 * n + 1] # Dash /\ StartOf(l, n + 1).r = 0 /\ s = StartOf(l, n + 1).out

\* Range n + 1 of l is wrong, and l ends where that shows.
Wrong(l, n) ==
  \/ Len(l) = 3 * n + 1 /\ (l[3 * n + 1] = Dash \/ StartOf(l, n + 1).r # 0)
  \/ Len(l) = 3 * n + 2 /\ l[3 * n + 2] # Dash
  \/ Len(l) = 3 * n + 3 /\ (l[3 * n + 3] = Dash \/ EndOf(l, n + 1).r # 0)

\* In state st with START s, sum_line has read l, with n ranges in it.
LineIs(l, st, s, n) ==
  /\ \A k \in 1..n : IsRange(l, k)
  /\ \/ st = "START" /\ Len(l) = 3 * n
     \/ st = "DASH" /\ Len(l) = 3 * n + 1 /\ Begun(l, n, s)
     \/ st = "END" /\ Len(l) = 3 * n + 2 /\ Begun(l, n, s) /\ l[3 * n + 2] = Dash
     \/ st = "dropped" /\ Wrong(l, n)

\* The durations of the first n ranges of l, and of the first m lines.
Ended(l, n) == [k \in 1..n |-> EndOf(l, k).out - StartOf(l, k).out]
AllOf(ls, m) == FlattenSeq([i \in 1..m |-> Durations(ls[i])])
BadLines(ls, m) == \E i \in 1..m : ~IsGood(ls[i])

\* The total, what is printed before the end, and the status for durations ds.
Tally(ds, bad, tot, pr, st, br) ==
  /\ tot = TotalOf(Totals(ds)) /\ pr = IF summarize THEN <<>> ELSE Totals(ds)
  /\ st = IF br THEN 2 ELSE IF bad THEN 1 ELSE IF Len(Totals(ds)) # Len(ds) THEN 1 ELSE 0

\* In the middle of the last of the lines ls.
InLine(ls, state0, s, tot, pr, st, br) ==
  LET m == Len(ls) - 1
      l == ls[Len(ls)]
  IN \E n \in 0..Len(l) :
       /\ LineIs(l, state0, s, n)
       /\ Tally(AllOf(ls, m) \o Ended(l, n), BadLines(ls, m) \/ state0 = "dropped", tot, pr, st, br)

\* After it.
AfterLine(ls, tot, pr, st, br) == Tally(AllOf(ls, Len(ls)), BadLines(ls, Len(ls)), tot, pr, st, br)

LinesInv ==
  /\ TypeOK /\ lines \in Seq(TokenSeqs)
  /\ Between => state = "START"
  /\ Reading =>
       /\ Len(lines) > 0 /\ \A i \in 1..(Len(lines) - 1) : Durations(lines[i]) \in Seq(Int)
       /\ InLine(lines, state, start, total, printed, status, broken)
  /\ ~Reading =>
       /\ \A i \in 1..Len(lines) : Durations(lines[i]) \in Seq(Int)
       /\ AfterLine(lines, total, IF source = "done" /\ summarize THEN <<>> ELSE printed, status, broken)
  /\ source = "done" /\ summarize => printed = <<total>>

\* The durations of lines.
LEMMA AllOfType ==
  ASSUME NEW ls, NEW m \in Nat, \A i \in 1..m : Durations(ls[i]) \in Seq(Int)
  PROVE  AllOf(ls, m) \in Seq(Int)
PROOF
<1> DEFINE ss == [i \in 1..m |-> Durations(ls[i])]
           Ints == Seq(Int)
<1>1. ss \in Seq(Ints)
  <2> HIDE DEF Ints
  <2>1. \A i \in 1..m : Durations(ls[i]) \in Ints
    BY DEF Ints
  <2> QED BY <2>1
<1>2. AllOf(ls, m) = FlattenSeq(ss)
  BY DEF AllOf
<1> HIDE DEF ss
<1> QED BY <1>1, <1>2, FlattenType

LEMMA AllOfNone == \A ls : AllOf(ls, 0) = <<>>
PROOF
<1> SUFFICES ASSUME NEW ls PROVE AllOf(ls, 0) = <<>>
  OBVIOUS
<1>1. [i \in 1..0 |-> Durations(ls[i])] = <<>>
  OBVIOUS
<1> QED BY <1>1, FlattenNone DEF AllOf

LEMMA AllOfMore ==
  ASSUME NEW ls, NEW m \in Nat, \A i \in 1..(m + 1) : Durations(ls[i]) \in Seq(Int)
  PROVE  AllOf(ls, m + 1) = AllOf(ls, m) \o Durations(ls[m + 1])
PROOF
<1> DEFINE Ints == Seq(Int)
           D(i) == Durations(ls[i])
           ss == [i \in 1..m |-> D(i)]
           tt == [i \in 1..(m + 1) |-> D(i)]
<1>1. \A i \in 1..(m + 1) : D(i) \in Ints
  OBVIOUS
<1>2. FlattenSeq(tt) = AllOf(ls, m + 1) /\ FlattenSeq(ss) = AllOf(ls, m)
  BY DEF AllOf
<1> HIDE DEF Ints, D
<1>3. ss \in Seq(Ints) /\ D(m + 1) \in Ints
  BY <1>1
<1>4. tt = Append(ss, D(m + 1))
  BY <1>1
<1> HIDE DEF ss, tt
<1>5. FlattenSeq(Append(ss, D(m + 1))) = FlattenSeq(ss) \o D(m + 1)
  BY <1>3, FlattenAppend DEF Ints
<1> QED BY <1>2, <1>4, <1>5 DEF D

LEMMA AllOfSame ==
  ASSUME NEW ls, NEW ks, NEW m \in Nat, \A i \in 1..m : ls[i] = ks[i]
  PROVE  AllOf(ls, m) = AllOf(ks, m) /\ (BadLines(ls, m) <=> BadLines(ks, m))
PROOF
<1>1. [i \in 1..m |-> Durations(ls[i])] = [i \in 1..m |-> Durations(ks[i])]
  OBVIOUS
<1>2. AllOf(ls, m) = AllOf(ks, m)
  BY <1>1 DEF AllOf
<1>3. BadLines(ls, m) <=> BadLines(ks, m)
  BY DEF BadLines
<1> QED BY <1>2, <1>3

\* Ranges counts the ranges before the first that is none.
LEMMA RangesIs ==
  ASSUME NEW l, Len(l) \in Nat, NEW n \in 0..Len(l),
         \A k \in 1..n : IsRange(l, k), ~IsRange(l, n + 1)
  PROVE  Ranges(l) = n
PROOF
<1> DEFINE Is(m) == (\A k \in 1..m : IsRange(l, k)) /\ ~IsRange(l, m + 1)
<1>1. Is(n)
  OBVIOUS
<1>2. ASSUME NEW m \in 0..Len(l), Is(m) PROVE m = n
  <2>1. CASE m < n
    <3>1. m + 1 \in 1..n
      BY <2>1
    <3> QED BY <1>2, <3>1
  <2>2. CASE m > n
    <3>1. n + 1 \in 1..m
      BY <2>2
    <3> QED BY <1>2, <3>1
  <2> QED BY <2>1, <2>2
<1>3. Ranges(l) = CHOOSE m \in 0..Len(l) : Is(m)
  BY DEF Ranges
<1> HIDE DEF Is
<1> QED BY <1>1, <1>2, <1>3

LEMMA EndedType ==
  ASSUME NEW l, NEW n \in Nat, \A k \in 1..n : IsRange(l, k)
  PROVE  Ended(l, n) \in Seq(Int) /\ Len(Ended(l, n)) = n
PROOF
<1>1. ASSUME NEW k \in 1..n PROVE EndOf(l, k).out - StartOf(l, k).out \in Int
  <2>1. EndOf(l, k).out \in Secs /\ StartOf(l, k).out \in Secs
    <3>1. IsRange(l, k) /\ StartOf(l, k).r = 0 /\ EndOf(l, k).r = 0
      BY DEF IsRange
    <3>2. StartOf(l, k).out \in Secs
      BY <3>1, ParseStampInRange DEF StartOf
    <3>3. EndOf(l, k).out \in Secs
      BY <3>1, ParseEndInRange DEF EndOf
    <3> QED BY <3>2, <3>3
  <2>2. EndOf(l, k).out \in Int /\ StartOf(l, k).out \in Int
    BY <2>1, SecsAreInts
  <2> QED BY <2>2
<1> DEFINE D(k) == EndOf(l, k).out - StartOf(l, k).out
<1>2. \A k \in 1..n : D(k) \in Int
  BY <1>1
<1>3. Ended(l, n) = [k \in 1..n |-> D(k)]
  BY DEF Ended
<1> HIDE DEF D
<1> QED BY <1>2, <1>3

\* What LineIs tells of the line as a whole.
LEMMA LineTells ==
  ASSUME NEW l, Len(l) \in Nat, NEW st, NEW s, NEW n \in 0..Len(l), LineIs(l, st, s, n)
  PROVE  /\ Ranges(l) = n
         /\ HasOpen(l) <=> st = "END" /\ s <= now
         /\ IsGood(l) <=> st = "START" \/ HasOpen(l)
         /\ st = "END" => s = StartOf(l, n + 1).out
PROOF
<1>1. /\ \A k \in 1..n : IsRange(l, k)
      /\ \/ st = "START" /\ Len(l) = 3 * n
         \/ st = "DASH" /\ Len(l) = 3 * n + 1 /\ Begun(l, n, s)
         \/ st = "END" /\ Len(l) = 3 * n + 2 /\ Begun(l, n, s) /\ l[3 * n + 2] = Dash
         \/ st = "dropped" /\ Wrong(l, n)
  BY DEF LineIs
<1>2. 3 * (n + 1) = 3 * n + 3 /\ 3 * (n + 1) - 2 = 3 * n + 1 /\ 3 * (n + 1) - 1 = 3 * n + 2
  OBVIOUS
<1>3. IsRange(l, n + 1) <=> /\ Len(l) >= 3 * n + 3
                            /\ l[3 * n + 1] # Dash /\ l[3 * n + 2] = Dash /\ l[3 * n + 3] # Dash
                            /\ StartOf(l, n + 1).r = 0 /\ EndOf(l, n + 1).r = 0
  BY <1>2 DEF IsRange
<1>4. ~IsRange(l, n + 1)
  BY <1>1, <1>3 DEF Wrong
<1>5. Ranges(l) = n
  BY <1>1, <1>4, RangesIs
<1>6. HasOpen(l) <=> /\ Len(l) = 3 * n + 2 /\ l[3 * n + 1] # Dash /\ l[3 * n + 2] = Dash
                     /\ StartOf(l, n + 1).r = 0 /\ StartOf(l, n + 1).out <= now
  BY <1>5 DEF HasOpen
<1>7. HasOpen(l) <=> st = "END" /\ s <= now
  BY <1>1, <1>6 DEF Begun, Wrong
<1>8. IsGood(l) <=> Len(l) = 3 * n \/ HasOpen(l)
  BY <1>5 DEF IsGood
<1>9. Len(l) = 3 * n <=> st = "START"
  BY <1>1 DEF Wrong
<1> QED BY <1>1, <1>5, <1>7, <1>8, <1>9 DEF Begun

LEMMA DurationsAre ==
  ASSUME TypeOK, NEW l, Len(l) \in Nat, NEW st, NEW s \in Secs, NEW n \in 0..Len(l), LineIs(l, st, s, n)
  PROVE  /\ Ended(l, n) \in Seq(Int)
         /\ Durations(l) = IF st = "END" /\ s <= now THEN Append(Ended(l, n), now - s) ELSE Ended(l, n)
         /\ Durations(l) \in Seq(Int) /\ now - s \in Int
PROOF
<1>1. /\ Ranges(l) = n /\ (HasOpen(l) <=> st = "END" /\ s <= now)
      /\ st = "END" => s = StartOf(l, n + 1).out
  BY LineTells
<1>2. n \in Nat /\ \A k \in 1..n : IsRange(l, k)
  BY DEF LineIs
<1>3. Ended(l, n) \in Seq(Int) /\ Len(Ended(l, n)) = n
  BY <1>2, EndedType
<1>4. now - s \in Int
  BY SecsAreInts DEF TypeOK
<1> DEFINE E(k) == EndOf(l, k).out - StartOf(l, k).out
<1>5. Ended(l, n) = [k \in 1..n |-> E(k)]
  BY DEF Ended
<1>6. CASE HasOpen(l)
  <2>1. Durations(l) = [k \in 1..(n + 1) |-> (IF k <= n THEN EndOf(l, k).out ELSE now) - StartOf(l, k).out]
    BY <1>1, <1>6 DEF Durations
  <2>2. \A k \in 1..(n + 1) : (IF k <= n THEN EndOf(l, k).out ELSE now) - StartOf(l, k).out
                                = IF k <= n THEN E(k) ELSE now - s
    BY <1>1, <1>2, <1>6
  <2>3. Durations(l) = [k \in 1..(n + 1) |-> IF k <= n THEN E(k) ELSE now - s]
    BY <2>1, <2>2
  <2> DEFINE last == now - s
  <2> HIDE DEF E, last
  <2>4. Durations(l) = Append(Ended(l, n), last)
    <3>1. \A k \in 1..n : E(k) \in Int
      BY <1>2, <1>3, <1>5
    <3>2. Durations(l) = [k \in 1..(n + 1) |-> IF k <= n THEN E(k) ELSE last]
      BY <2>3 DEF last
    <3> QED BY <1>2, <1>5, <3>1, <3>2
  <2> QED BY <1>1, <1>3, <1>4, <1>6, <2>4 DEF last
<1>7. CASE ~HasOpen(l)
  <2>1. Durations(l) = [k \in 1..(n + 0) |-> (IF k <= n THEN EndOf(l, k).out ELSE now) - StartOf(l, k).out]
    BY <1>1, <1>7 DEF Durations
  <2>2. n + 0 = n
    BY <1>2
  <2>3. Durations(l) = [k \in 1..n |-> E(k)]
    BY <2>1, <2>2
  <2> QED BY <1>1, <1>3, <1>4, <1>5, <1>7, <2>3
<1> QED BY <1>6, <1>7

-----------------------------------------------------------------------------
(* The steps of a line.                                                    *)

\* A range is added, or it or the total does not fit.
LEMMA AddRangeTally ==
  ASSUME TypeOK, NEW ds \in Seq(Int), NEW bad, NEW from \in Secs, NEW to \in Secs,
         AddRange(from, to), Tally(ds, bad, total, printed, status, broken)
  PROVE  Tally(Append(ds, to - from), bad, total', printed', status', broken)
PROOF
<1> DEFINE d  == to - from
           es == Append(ds, d)
           q  == Totals(ds)
<1>1. d \in Int /\ total \in Int /\ status \in 0..2
  BY SecsAreInts DEF TypeOK
<1>2. Sub(to, from) = Narrow(d)
  BY DEF Sub
<1>3. es \in Seq(Int) /\ Len(es) = Len(ds) + 1 /\ Len(ds) \in Nat
  <2> HIDE DEF d
  <2> QED BY <1>1
<1>4. q \in Seq(Secs) /\ Len(q) <= Len(ds) /\ Len(q) \in Nat
  BY TotalsType
<1> HIDE DEF d, es
<1>5. Totals(es) = More(q, d)
  BY <1>1, TotalsAppend DEF es
<1> HIDE DEF q
<1>6. /\ total = TotalOf(q) /\ printed = IF summarize THEN <<>> ELSE q
      /\ status = IF broken THEN 2 ELSE IF bad THEN 1 ELSE IF Len(q) # Len(ds) THEN 1 ELSE 0
  BY DEF Tally, q
<1>7. CASE d \in Secs /\ total + d \in Secs
  <2>1. Narrow(d).r = 0 /\ Narrow(d).out = d
    BY <1>7 DEF Narrow, Good
  <2>2. Add(total, d).r = 0 /\ Add(total, d).out = total + d
    BY <1>7 DEF Add, Narrow, Good
  <2>3. /\ total' = total + d /\ status' = status
        /\ printed' = IF summarize THEN printed ELSE Append(printed, total + d)
    BY <1>2, <2>1, <2>2 DEF AddRange
  <2>4. More(q, d) = Append(q, total + d)
    BY <1>6, <1>7 DEF More
  <2> DEFINE t == total + d
             r == Append(q, t)
  <2>5. Len(r) = Len(q) + 1 /\ r[Len(r)] = t /\ r # <<>>
    <3>1. t \in Secs
      BY <1>7
    <3> HIDE DEF t
    <3> QED BY <1>4, <3>1
  <2>6. Totals(es) = r /\ total' = t
    BY <1>5, <2>3, <2>4
  <2>7. printed' = IF summarize THEN <<>> ELSE r
    BY <1>6, <2>3
  <2> HIDE DEF t, r
  <2>8. total' = TotalOf(r)
    BY <2>5, <2>6 DEF TotalOf
  <2>9. Len(r) # Len(es) <=> Len(q) # Len(ds)
    BY <1>3, <1>4, <2>5
  <2>10. status' = IF broken THEN 2 ELSE IF bad THEN 1 ELSE IF Len(r) # Len(es) THEN 1 ELSE 0
    BY <1>6, <2>3, <2>9
  <2> QED BY <2>6, <2>7, <2>8, <2>10, Zenon DEF Tally, es, d
<1>8. CASE ~(d \in Secs /\ total + d \in Secs)
  <2>1. Narrow(d).r # 0 \/ Add(total, Narrow(d).out).r # 0
    BY <1>8 DEF Add, Narrow, Good, Bad
  <2>2. status' = Worst(1) /\ UNCHANGED <<total, printed>>
    BY <1>2, <2>1 DEF AddRange
  <2>3. More(q, d) = q
    BY <1>6, <1>8 DEF More
  <2>4. Len(q) # Len(es)
    BY <1>3, <1>4
  <2>5. status' = IF broken THEN 2 ELSE IF bad THEN 1 ELSE IF Len(q) # Len(es) THEN 1 ELSE 0
    BY <1>1, <1>6, <2>2, <2>4 DEF Worst
  <2> QED BY <1>5, <1>6, <2>2, <2>3, <2>5 DEF Tally, es, d
<1> QED BY <1>7, <1>8

\* An error in a line: its durations so far stay counted.
LEMMA BadLineTally ==
  ASSUME NEW ds, NEW bad, NEW worse, worse = TRUE, Tally(ds, bad, total, printed, status, broken),
         status' = Worst(1), UNCHANGED <<total, printed>>
  PROVE  Tally(ds, worse, total', printed', status', broken)
PROOF BY DEF Tally, Worst

\* One more token changes nothing of the ranges before it.
LEMMA Extended ==
  ASSUME NEW l \in TokenSeqs, NEW w \in Words \union {Dash}
  PROVE  LET m == Append(l, w)
         IN /\ m \in TokenSeqs /\ Len(l) \in Nat /\ Len(m) = Len(l) + 1 /\ m[Len(l) + 1] = w
            /\ \A i \in 1..Len(l) : m[i] = l[i]
            /\ \A k \in Nat \ {0} : 3 * k - 2 <= Len(l) => StartOf(m, k) = StartOf(l, k)
            /\ \A k \in Nat \ {0} : 3 * k <= Len(l) =>
                 EndOf(m, k) = EndOf(l, k) /\ (IsRange(m, k) <=> IsRange(l, k))
PROOF
<1> DEFINE m == Append(l, w)
<1>1. /\ m \in TokenSeqs /\ Len(l) \in Nat /\ Len(m) = Len(l) + 1 /\ m[Len(l) + 1] = w
      /\ \A i \in 1..Len(l) : m[i] = l[i]
  BY AppendIs DEF TokenSeqs
<1> HIDE DEF m
<1>2. ASSUME NEW k \in Nat \ {0}, 3 * k - 2 <= Len(l) PROVE StartOf(m, k) = StartOf(l, k)
  <2>1. 3 * k - 2 \in 1..Len(l)
    BY <1>1, <1>2
  <2>2. m[3 * k - 2] = l[3 * k - 2]
    BY <1>1, <2>1
  <2> QED BY <2>2 DEF StartOf
<1>3. ASSUME NEW k \in Nat \ {0}, 3 * k <= Len(l)
      PROVE  EndOf(m, k) = EndOf(l, k) /\ (IsRange(m, k) <=> IsRange(l, k))
  <2>1. 3 * k \in 1..Len(l) /\ 3 * k - 1 \in 1..Len(l) /\ 3 * k - 2 \in 1..Len(l)
        /\ 3 * k - 2 <= Len(l) /\ Len(m) >= 3 * k /\ Len(l) >= 3 * k
    BY <1>1, <1>3
  <2>2. m[3 * k] = l[3 * k] /\ m[3 * k - 1] = l[3 * k - 1] /\ m[3 * k - 2] = l[3 * k - 2]
    BY <1>1, <2>1
  <2>3. StartOf(m, k) = StartOf(l, k)
    BY <1>2, <2>1
  <2>4. EndOf(m, k) = EndOf(l, k)
    BY <2>2, <2>3 DEF EndOf
  <2> QED BY <2>1, <2>2, <2>3, <2>4 DEF IsRange
<1> QED BY <1>1, <1>2, <1>3 DEF m

LEMMA ExtendedRanges ==
  ASSUME NEW l \in TokenSeqs, NEW w \in Words \union {Dash}, NEW n \in Nat, 3 * n <= Len(l),
         \A k \in 1..n : IsRange(l, k)
  PROVE  (\A k \in 1..n : IsRange(Append(l, w), k)) /\ Ended(Append(l, w), n) = Ended(l, n)
PROOF
<1> DEFINE m == Append(l, w)
<1>1. ASSUME NEW k \in 1..n
      PROVE  IsRange(m, k) /\ StartOf(m, k) = StartOf(l, k) /\ EndOf(m, k) = EndOf(l, k)
  <2>1. k \in Nat \ {0} /\ 3 * k <= Len(l) /\ 3 * k - 2 <= Len(l)
    <3>1. Len(l) \in Nat
      BY Extended
    <3> QED BY <3>1
  <2> QED BY <2>1, Extended
<1> HIDE DEF m
<1>2. Ended(m, n) = Ended(l, n)
  BY <1>1 DEF Ended
<1> QED BY <1>1, <1>2 DEF m

\* The three things that a token can do to the line l, which had n ranges.
GoesOn(m, n) ==
  /\ LineIs(m, state', start', n) /\ state' # "dropped" /\ UNCHANGED outVars
EndsRange(m, l, w, n) ==
  LET end == ParseEnd(w, start).out
  IN /\ LineIs(m, state', start', n + 1) /\ state' = "START" /\ AddRange(start, end) /\ end \in Secs
     /\ Ended(m, n + 1) = Append(Ended(l, n), end - start)
IsDropped(m, n) ==
  /\ LineIs(m, state', start', n) /\ state' = "dropped"
  /\ status' = Worst(1) /\ UNCHANGED <<total, printed>>

LEMMA TokenInLine ==
  ASSUME NEW l \in TokenSeqs, NEW w \in Words \union {Dash}, NEW n \in Nat, 3 * n <= Len(l),
         LineIs(l, state, start, n), WantStart(w) \/ WantDash(w) \/ WantEnd(w)
  PROVE  GoesOn(Append(l, w), n) \/ EndsRange(Append(l, w), l, w, n) \/ IsDropped(Append(l, w), n)
PROOF
<1> DEFINE m == Append(l, w)
           j == n + 1
<1>1. /\ m \in TokenSeqs /\ Len(l) \in Nat /\ Len(m) = Len(l) + 1 /\ m[Len(l) + 1] = w
      /\ \A i \in 1..Len(l) : m[i] = l[i]
      /\ \A k \in Nat \ {0} : 3 * k - 2 <= Len(l) => StartOf(m, k) = StartOf(l, k)
  BY Extended
<1>2. \A k \in 1..n : IsRange(l, k)
  BY DEF LineIs
<1>3. (\A k \in 1..n : IsRange(m, k)) /\ Ended(m, n) = Ended(l, n)
  BY <1>2, ExtendedRanges
<1>4. j \in Nat \ {0} /\ 3 * j - 2 = 3 * n + 1 /\ 3 * j - 1 = 3 * n + 2 /\ 3 * j = 3 * n + 3
  OBVIOUS
<1>5. /\ StartOf(m, j) = ParseStamp(m[3 * n + 1], now)
      /\ EndOf(m, j) = ParseEnd(m[3 * n + 3], StartOf(m, j).out)
      /\ IsRange(m, j) <=> /\ Len(m) >= 3 * n + 3
                           /\ m[3 * n + 1] # Dash /\ m[3 * n + 2] = Dash /\ m[3 * n + 3] # Dash
                           /\ StartOf(m, j).r = 0 /\ EndOf(m, j).r = 0
  BY <1>4 DEF StartOf, EndOf, IsRange
<1> HIDE DEF m
<1>6. CASE WantStart(w)
  <2>1. state = "START" /\ Len(l) = 3 * n
    BY <1>6 DEF LineIs, WantStart, Wrong
  <2>2. Len(m) = 3 * n + 1 /\ m[3 * n + 1] = w
    BY <1>1, <2>1
  <2>3. CASE w # Dash /\ ParseStamp(w, now).r = 0 /\ start' = ParseStamp(w, now).out
             /\ state' = "DASH" /\ UNCHANGED outVars
    <3>1. Begun(m, n, start')
      BY <1>5, <2>2, <2>3 DEF Begun
    <3> QED BY <1>3, <2>2, <2>3, <3>1 DEF GoesOn, LineIs, m
  <2>4. CASE (w = Dash \/ ParseStamp(w, now).r # 0) /\ BadInput
    <3>1. Wrong(m, n)
      BY <1>5, <2>2, <2>4 DEF Wrong
    <3> QED BY <1>3, <2>4, <3>1 DEF IsDropped, BadInput, LineIs, m
  <2> QED BY <1>6, <2>3, <2>4 DEF WantStart
<1>7. CASE WantDash(w)
  <2>1. state = "DASH" /\ Len(l) = 3 * n + 1 /\ Begun(l, n, start)
    BY <1>7 DEF LineIs, WantDash
  <2>2. Len(m) = 3 * n + 2 /\ m[3 * n + 2] = w /\ m[3 * n + 1] = l[3 * n + 1] /\ StartOf(m, j) = StartOf(l, j)
    BY <1>1, <1>4, <2>1
  <2>3. Begun(m, n, start)
    BY <2>1, <2>2 DEF Begun
  <2>4. CASE w = Dash /\ state' = "END" /\ UNCHANGED <<start, outVars>>
    <3>1. start' = start /\ UNCHANGED outVars
      BY <2>4
    <3> QED BY <1>3, <2>2, <2>3, <2>4, <3>1 DEF GoesOn, LineIs, m
  <2>5. CASE w # Dash /\ BadInput
    <3>1. Wrong(m, n)
      BY <2>2, <2>5 DEF Wrong
    <3> QED BY <1>3, <2>5, <3>1 DEF IsDropped, BadInput, LineIs, m
  <2> QED BY <1>7, <2>4, <2>5 DEF WantDash
<1>8. CASE WantEnd(w)
  <2>1. state = "END" /\ Len(l) = 3 * n + 2 /\ Begun(l, n, start) /\ l[3 * n + 2] = Dash
    BY <1>8 DEF LineIs, WantEnd
  <2>2. /\ Len(m) = 3 * n + 3 /\ m[3 * n + 3] = w /\ m[3 * n + 2] = Dash
        /\ m[3 * n + 1] = l[3 * n + 1] /\ StartOf(m, j) = StartOf(l, j)
    BY <1>1, <1>4, <2>1
  <2>3. m[3 * n + 1] # Dash /\ StartOf(m, j).r = 0 /\ StartOf(m, j).out = start
    BY <2>1, <2>2 DEF Begun
  <2>4. EndOf(m, j) = ParseEnd(w, start)
    BY <1>5, <2>2, <2>3
  <2>5. CASE w # Dash /\ ParseEnd(w, start).r = 0 /\ AddRange(start, ParseEnd(w, start).out)
             /\ state' = "START" /\ UNCHANGED start
    <3>1. IsRange(m, j)
      BY <1>5, <2>2, <2>3, <2>4, <2>5
    <3>2. \A k \in 1..(n + 1) : IsRange(m, k)
      BY <1>3, <3>1
    <3>3. LineIs(m, state', start', n + 1)
      BY <1>4, <2>2, <2>5, <3>2 DEF LineIs
    <3>4. ParseEnd(w, start).out \in Secs
      BY <2>5, ParseEndInRange
    <3> DEFINE D(k) == EndOf(m, k).out - StartOf(m, k).out
               last == ParseEnd(w, start).out - start
    <3>5. D(n + 1) = last /\ Ended(m, n) = [k \in 1..n |-> D(k)] /\ Ended(m, n + 1) = [k \in 1..(n + 1) |-> D(k)]
      BY <2>3, <2>4 DEF Ended
    <3>6. Ended(m, n) \in Seq(Int) /\ Len(Ended(m, n)) = n
      BY <1>3, EndedType
    <3> HIDE DEF D, last
    <3>7. Ended(m, n + 1) = Append(Ended(m, n), last)
      BY <3>5, <3>6
    <3> QED BY <1>3, <2>5, <3>3, <3>4, <3>7 DEF EndsRange, m, last
  <2>6. CASE (w = Dash \/ ParseEnd(w, start).r # 0) /\ BadInput
    <3>1. Wrong(m, n)
      BY <2>2, <2>4, <2>6 DEF Wrong
    <3> QED BY <1>3, <2>6, <3>1 DEF IsDropped, BadInput, LineIs, m
  <2> QED BY <1>8, <2>5, <2>6 DEF WantEnd
<1> QED BY <1>6, <1>7, <1>8

\* The operators above read the clock and -s, which never change.
LEMMA SameOperators ==
  ASSUME UNCHANGED <<now, summarize>>
  PROVE  /\ \A l : Durations(l)' = Durations(l)
         /\ \A ls, st, s, tot, pr, stt, br :
              InLine(ls, st, s, tot, pr, stt, br)' <=> InLine(ls, st, s, tot, pr, stt, br)
         /\ \A ls, tot, pr, stt, br :
              AfterLine(ls, tot, pr, stt, br)' <=> AfterLine(ls, tot, pr, stt, br)
PROOF
<1>1. now' = now /\ summarize' = summarize
  OBVIOUS
<1>2. \A l, k : StartOf(l, k)' = StartOf(l, k)
  BY <1>1 DEF StartOf
<1>3. \A l, k : EndOf(l, k)' = EndOf(l, k)
  BY <1>2 DEF EndOf
<1>4. \A l, k : IsRange(l, k)' <=> IsRange(l, k)
  BY <1>2, <1>3 DEF IsRange
<1>5. \A l : Ranges(l)' = Ranges(l)
  BY <1>4 DEF Ranges
<1>6. \A l : HasOpen(l)' <=> HasOpen(l)
  BY <1>1, <1>2, <1>5 DEF HasOpen
<1>7. \A l : Durations(l)' = Durations(l)
  BY <1>1, <1>2, <1>3, <1>5, <1>6 DEF Durations
<1>8. \A l : IsGood(l)' <=> IsGood(l)
  BY <1>5, <1>6 DEF IsGood
<1>9. \A l, n, s : Begun(l, n, s)' <=> Begun(l, n, s)
  BY <1>2 DEF Begun
<1>10. \A l, n : Wrong(l, n)' <=> Wrong(l, n)
  BY <1>2, <1>3 DEF Wrong
<1>11. \A l, st, s, n : LineIs(l, st, s, n)' <=> LineIs(l, st, s, n)
  BY <1>4, <1>9, <1>10 DEF LineIs
<1>12. \A l, n : Ended(l, n)' = Ended(l, n)
  BY <1>2, <1>3 DEF Ended
<1>13. \A ls, m : AllOf(ls, m)' = AllOf(ls, m)
  BY <1>7 DEF AllOf
<1>14. \A ls, m : BadLines(ls, m)' <=> BadLines(ls, m)
  BY <1>8 DEF BadLines
<1>15. \A ds, bad, tot, pr, st, br : Tally(ds, bad, tot, pr, st, br)' <=> Tally(ds, bad, tot, pr, st, br)
  BY <1>1 DEF Tally
<1>16. \A ls, tot, pr, stt, br : AfterLine(ls, tot, pr, stt, br)' <=> AfterLine(ls, tot, pr, stt, br)
  BY <1>13, <1>14, <1>15 DEF AfterLine
<1>17. \A ls, st, s, tot, pr, stt, br :
         InLine(ls, st, s, tot, pr, stt, br)' <=> InLine(ls, st, s, tot, pr, stt, br)
  BY <1>11, <1>12, <1>13, <1>14, <1>15 DEF InLine
<1> QED BY <1>7, <1>16, <1>17

\* What LinesInv says in the middle of a line.
MidLine ==
  /\ Len(lines) > 0 /\ \A i \in 1..(Len(lines) - 1) : Durations(lines[i]) \in Seq(Int)
  /\ InLine(lines, state, start, total, printed, status, broken)

LEMMA TokenLines ==
  ASSUME TypeOK, lines \in Seq(TokenSeqs), MidLine, Token
  PROVE  /\ lines' \in Seq(TokenSeqs) /\ Len(lines') = Len(lines)
         /\ \A i \in 1..(Len(lines) - 1) : lines'[i] = lines[i]
         /\ InLine(lines', state', start', total', printed', status', broken')
PROOF
<1> DEFINE N == Len(lines)
           l == lines[N]
<1>1. PICK w \in Words \union {Dash} :
        /\ WantStart(w) \/ WantDash(w) \/ WantEnd(w)
        /\ lines' = [lines EXCEPT ![N] = Append(l, w)]
  BY DEF Token
<1> DEFINE m == Append(l, w)
<1>2. N \in Nat /\ N \in 1..N /\ l \in TokenSeqs /\ N - 1 \in Nat
  BY DEF MidLine
<1>3. m \in TokenSeqs /\ Len(l) \in Nat /\ Len(m) = Len(l) + 1
  BY <1>2, Extended
<1> HIDE DEF m
<1>4. /\ lines' \in Seq(TokenSeqs) /\ Len(lines') = N /\ lines'[N] = m
      /\ \A i \in 1..(N - 1) : lines'[i] = lines[i]
  <2>1. lines' = [lines EXCEPT ![N] = m]
    BY <1>1 DEF m
  <2> QED BY <1>2, <1>3, <2>1
<1>5. broken' = broken
  BY DEF Token
<1> DEFINE before == AllOf(lines, N - 1)
<1>6. before \in Seq(Int)
  BY <1>2, AllOfType DEF MidLine
<1>7. AllOf(lines', N - 1) = before /\ (BadLines(lines', N - 1) <=> BadLines(lines, N - 1))
  BY <1>2, <1>4, AllOfSame
<1> DEFINE bad == BadLines(lines, N - 1)
<1>8. PICK n \in 0..Len(l) :
        /\ LineIs(l, state, start, n)
        /\ Tally(before \o Ended(l, n), bad \/ state = "dropped", total, printed, status, broken)
  BY DEF MidLine, InLine
<1> HIDE DEF before, bad
<1>9. state # "dropped"
  BY <1>1 DEF WantStart, WantDash, WantEnd
<1>10. n \in Nat /\ 3 * n <= Len(l) /\ \A k \in 1..n : IsRange(l, k)
  BY <1>8, <1>9 DEF LineIs
<1>11. GoesOn(m, n) \/ EndsRange(m, l, w, n) \/ IsDropped(m, n)
  BY <1>1, <1>2, <1>8, <1>10, TokenInLine DEF m
<1>12. Ended(m, n) = Ended(l, n) /\ Ended(l, n) \in Seq(Int)
  BY <1>2, <1>10, ExtendedRanges, EndedType DEF m
<1>13. n \in 0..Len(m)
  BY <1>3, <1>10
<1>14. \A k \in 0..Len(m) :
         /\ LineIs(m, state', start', k)
         /\ Tally(before \o Ended(m, k), bad \/ state' = "dropped", total', printed', status', broken')
         => InLine(lines', state', start', total', printed', status', broken')
  BY <1>4, <1>7 DEF InLine, bad
<1> DEFINE ds == before \o Ended(l, n)
<1>15. ds \in Seq(Int)
  BY <1>6, <1>12
<1>16. CASE GoesOn(m, n)
  <2>1. LineIs(m, state', start', n) /\ state' # "dropped"
        /\ total' = total /\ printed' = printed /\ status' = status
    BY <1>16 DEF GoesOn, outVars
  <2>2. (bad \/ state' = "dropped") = (bad \/ state = "dropped")
    BY <1>9, <2>1
  <2>3. Tally(before \o Ended(m, n), bad \/ state' = "dropped", total', printed', status', broken')
    BY <1>5, <1>8, <1>12, <2>1, <2>2
  <2> QED BY <1>4, <1>13, <1>14, <2>1, <2>3
<1>17. CASE EndsRange(m, l, w, n)
  <2> DEFINE end == ParseEnd(w, start).out
             d == end - start
  <2>1. /\ LineIs(m, state', start', n + 1) /\ state' = "START" /\ AddRange(start, end) /\ end \in Secs
        /\ Ended(m, n + 1) = Append(Ended(l, n), d)
    BY <1>17 DEF EndsRange
  <2> HIDE DEF end
  <2>2. start \in Secs /\ d \in Int
    BY <2>1, SecsAreInts DEF TypeOK
  <2>3. Tally(Append(ds, d), bad \/ state = "dropped", total', printed', status', broken)
    BY <1>8, <1>15, <2>1, <2>2, AddRangeTally
  <2> HIDE DEF d
  <2>4. Append(ds, d) = before \o Ended(m, n + 1)
    <3>1. before \o Append(Ended(l, n), d) = Append(before \o Ended(l, n), d)
      BY <1>6, <1>12, <2>2, ConcatAppend
    <3> QED BY <2>1, <3>1
  <2>5. (bad \/ state' = "dropped") = (bad \/ state = "dropped")
    BY <1>9, <2>1
  <2>6. n + 1 \in 0..Len(m)
    BY <1>3, <1>10, <2>1 DEF LineIs
  <2> QED BY <1>4, <1>5, <1>14, <2>1, <2>3, <2>4, <2>5, <2>6
<1>18. CASE IsDropped(m, n)
  <2>1. LineIs(m, state', start', n) /\ state' = "dropped"
        /\ status' = Worst(1) /\ UNCHANGED <<total, printed>>
    BY <1>18 DEF IsDropped
  <2>2. (bad \/ state' = "dropped") = TRUE
    BY <2>1
  <2>3. Tally(ds, bad \/ state' = "dropped", total', printed', status', broken)
    BY <1>8, <2>1, <2>2, BadLineTally
  <2> QED BY <1>4, <1>5, <1>12, <1>13, <1>14, <2>1, <2>3
<1> QED BY <1>4, <1>11, <1>16, <1>17, <1>18

LEMMA LineEndsLines ==
  ASSUME TypeOK, lines \in Seq(TokenSeqs), MidLine, LineEnds
  PROVE  /\ \A i \in 1..Len(lines) : Durations(lines[i]) \in Seq(Int)
         /\ AfterLine(lines, total', printed', status', broken)
PROOF
<1> DEFINE N == Len(lines)
           l == lines[N]
           before == AllOf(lines, N - 1)
           bad == BadLines(lines, N - 1)
<1>1. N \in Nat /\ N \in 1..N /\ l \in TokenSeqs /\ N - 1 \in Nat /\ (N - 1) + 1 = N
      /\ \A i \in 1..(N - 1) : Durations(lines[i]) \in Seq(Int)
  BY DEF MidLine
<1>2. Len(l) \in Nat
  BY <1>1 DEF TokenSeqs
<1>3. PICK n \in 0..Len(l) :
        /\ LineIs(l, state, start, n)
        /\ Tally(before \o Ended(l, n), bad \/ state = "dropped", total, printed, status, broken)
  BY DEF MidLine, InLine
<1>4. start \in Secs /\ now \in Secs
  BY DEF TypeOK
<1>5. /\ HasOpen(l) <=> state = "END" /\ start <= now
      /\ IsGood(l) <=> state = "START" \/ HasOpen(l)
  BY <1>2, <1>3, LineTells
<1> DEFINE open == state = "END" /\ start <= now
           d == now - start
<1>6. /\ Ended(l, n) \in Seq(Int) /\ Durations(l) \in Seq(Int) /\ d \in Int
      /\ Durations(l) = IF open THEN Append(Ended(l, n), d) ELSE Ended(l, n)
  BY <1>2, <1>3, <1>4, DurationsAre
<1> HIDE DEF N
<1>7. /\ \A i \in 1..N : i = N \/ i \in 1..(N - 1)
      /\ \A i \in 1..(N - 1) : i \in 1..N
  BY <1>1
<1> USE DEF N
<1>8. \A i \in 1..N : Durations(lines[i]) \in Seq(Int)
  BY <1>1, <1>6, <1>7, Zenon
<1>9. AllOf(lines, N) = before \o Durations(l) /\ before \in Seq(Int)
  BY <1>1, <1>8, AllOfMore, AllOfType
<1>10. BadLines(lines, N) <=> bad \/ ~IsGood(l)
  BY <1>1, <1>7, Zenon DEF BadLines
<1>11. \A ds, worse : /\ ds = AllOf(lines, N) /\ worse = BadLines(lines, N)
                      /\ Tally(ds, worse, total', printed', status', broken)
                      => AfterLine(lines, total', printed', status', broken)
  BY DEF AfterLine
<1> HIDE DEF before, bad, d
<1>12. state \in {"START", "DASH", "END", "dropped"}
  BY <1>3 DEF LineIs
<1>13. CASE open
  <2>1. AddRange(start, now)
    BY <1>4, <1>13, SecsAreInts DEF LineEnds
  <2>2. (bad \/ state = "dropped") = BadLines(lines, N)
    BY <1>5, <1>10, <1>13 DEF BadLines
  <2>3. before \o Ended(l, n) \in Seq(Int)
    BY <1>6, <1>9
  <2>4. Tally(Append(before \o Ended(l, n), d), bad \/ state = "dropped", total', printed', status', broken)
    BY <1>3, <1>4, <2>1, <2>3, AddRangeTally DEF d
  <2>5. Append(before \o Ended(l, n), d) = AllOf(lines, N)
    <3>1. before \o Append(Ended(l, n), d) = Append(before \o Ended(l, n), d)
      BY <1>6, <1>9, ConcatAppend
    <3>2. Durations(l) = Append(Ended(l, n), d)
      BY <1>6, <1>13
    <3> QED BY <1>9, <3>1, <3>2
  <2> QED BY <1>8, <1>11, <2>2, <2>4, <2>5
<1>14. CASE ~open
  <2>1. AllOf(lines, N) = before \o Ended(l, n)
    BY <1>6, <1>9, <1>14
  <2>2. BadLines(lines, N) <=> bad \/ state # "START"
    BY <1>5, <1>10, <1>14
  <2>3. CASE state \in {"START", "dropped"}
    <3>1. total' = total /\ printed' = printed /\ status' = status
      BY <2>3 DEF LineEnds, outVars
    <3>2. (bad \/ state = "dropped") = BadLines(lines, N)
      BY <2>2, <2>3 DEF BadLines
    <3> QED BY <1>3, <1>8, <1>11, <2>1, <3>1, <3>2
  <2>4. CASE state \in {"DASH", "END"}
    <3>1. status' = Worst(1) /\ UNCHANGED <<total, printed>>
      BY <1>4, <1>14, <2>4, SecsAreInts DEF LineEnds
    <3>2. BadLines(lines, N) = TRUE
      BY <2>2, <2>4 DEF BadLines
    <3>3. Tally(before \o Ended(l, n), BadLines(lines, N), total', printed', status', broken)
      BY <1>3, <3>1, <3>2, BadLineTally
    <3> QED BY <1>8, <1>11, <2>1, <3>3
  <2> QED BY <1>12, <2>3, <2>4
<1> QED BY <1>13, <1>14

\* A new line, after the others.
LEMMA FreshLine ==
  ASSUME lines \in Seq(TokenSeqs), \A i \in 1..Len(lines) : Durations(lines[i]) \in Seq(Int),
         lines' = Append(lines, <<>>), NEW s, NEW tot, NEW pr, NEW stt, NEW br,
         AfterLine(lines, tot, pr, stt, br)
  PROVE  /\ lines' \in Seq(TokenSeqs) /\ Len(lines') > 0
         /\ \A i \in 1..(Len(lines') - 1) : Durations(lines'[i]) \in Seq(Int)
         /\ InLine(lines', "START", s, tot, pr, stt, br)
PROOF
<1> DEFINE N == Len(lines)
           none == <<>>
<1>1. none \in TokenSeqs /\ N \in Nat /\ Len(none) = 0 /\ lines' = Append(lines, none)
  BY DEF TokenSeqs
<1>2. /\ lines' \in Seq(TokenSeqs) /\ Len(lines') = N + 1 /\ Len(lines') - 1 = N /\ lines'[N + 1] = none
      /\ \A i \in 1..N : lines'[i] = lines[i]
  <2> HIDE DEF none
  <2> QED BY <1>1
<1>3. AllOf(lines', N) = AllOf(lines, N) /\ (BadLines(lines', N) <=> BadLines(lines, N))
  BY <1>1, <1>2, AllOfSame
<1>4. Ended(none, 0) = <<>>
  BY DEF Ended
<1>5. AllOf(lines, N) \in Seq(Int)
  BY <1>1, AllOfType
<1>6. AllOf(lines', N) \o Ended(none, 0) = AllOf(lines, N)
  <2> DEFINE a == AllOf(lines, N)
  <2>1. a \o <<>> = a
    <3> HIDE DEF a
    <3> QED BY <1>5 DEF a
  <2> QED BY <1>3, <1>4, <2>1
<1>7. LineIs(none, "START", s, 0)
  BY <1>1 DEF LineIs
<1>8. (BadLines(lines', N) \/ "START" = "dropped") = BadLines(lines, N)
  BY <1>3 DEF BadLines
<1>9. Tally(AllOf(lines, N), BadLines(lines, N), tot, pr, stt, br)
  BY DEF AfterLine
<1> HIDE DEF none
<1>10. InLine(lines', "START", s, tot, pr, stt, br)
  <2>1. lines'[Len(lines')] = none /\ 0 \in 0..Len(none)
    BY <1>1, <1>2
  <2>2. Tally(AllOf(lines', N) \o Ended(none, 0), BadLines(lines', N) \/ "START" = "dropped", tot, pr, stt, br)
    BY <1>6, <1>8, <1>9
  <2> QED BY <1>2, <1>7, <2>1, <2>2 DEF InLine
<1>11. \A i \in 1..(Len(lines') - 1) : Durations(lines'[i]) \in Seq(Int)
  BY <1>1, <1>2
<1> QED BY <1>1, <1>2, <1>10, <1>11

-----------------------------------------------------------------------------
(* The inductive invariant.                                                *)

\* What LinesInv says of the next state: now and -s are still the same.
NextLines ==
  /\ lines' \in Seq(TokenSeqs)
  /\ Between' => state' = "START"
  /\ Reading' =>
       /\ Len(lines') > 0 /\ \A i \in 1..(Len(lines') - 1) : Durations(lines'[i]) \in Seq(Int)
       /\ InLine(lines', state', start', total', printed', status', broken')
  /\ ~Reading' =>
       /\ \A i \in 1..Len(lines') : Durations(lines'[i]) \in Seq(Int)
       /\ AfterLine(lines', total', IF source' = "done" /\ summarize THEN <<>> ELSE printed', status', broken')
  /\ source' = "done" /\ summarize => printed' = <<total'>>

LEMMA NextLinesHold ==
  ASSUME UNCHANGED <<now, summarize>>, TypeOK', NextLines
  PROVE  LinesInv'
PROOF
<1>1. /\ \A l : Durations(l)' = Durations(l)
      /\ \A ls, st, s, tot, pr, stt, br :
           InLine(ls, st, s, tot, pr, stt, br)' <=> InLine(ls, st, s, tot, pr, stt, br)
      /\ \A ls, tot, pr, stt, br :
           AfterLine(ls, tot, pr, stt, br)' <=> AfterLine(ls, tot, pr, stt, br)
  BY SameOperators
<1>2. summarize' = summarize
  OBVIOUS
<1> QED BY <1>1, <1>2 DEF LinesInv, NextLines

LEMMA LinesBegin == Init => LinesInv
PROOF
<1>1. ASSUME Init PROVE LinesInv
  <2>1. /\ TypeOK /\ source = "none" /\ state = "START" /\ lines = <<>>
        /\ total = 0 /\ status = 0 /\ printed = <<>> /\ broken = FALSE
    BY <1>1, InitTypeOK DEF Init
  <2>2. Len(lines) = 0 /\ lines \in Seq(TokenSeqs)
    BY <2>1
  <2>3. AllOf(lines, 0) = <<>>
    BY AllOfNone
  <2>4. Totals(<<>>) = <<>> /\ TotalOf(<<>>) = 0
    BY TotalsNone DEF TotalOf
  <2>5. Tally(AllOf(lines, 0), BadLines(lines, 0), total, <<>>, status, broken)
    BY <2>1, <2>3, <2>4 DEF Tally, BadLines
  <2>6. AfterLine(lines, total, <<>>, status, broken)
    BY <2>2, <2>5 DEF AfterLine
  <2> QED BY <2>1, <2>2, <2>6 DEF LinesInv, Between, Reading
<1> QED BY <1>1

\* A missing FILE or a read error: the status is 2 from here on.
LEMMA BrokenTally ==
  ASSUME TypeOK, NEW pr, AfterLine(lines, total, pr, status, broken), status' = Worst(2), broken' = TRUE
  PROVE  AfterLine(lines, total, pr, status', broken')
PROOF
<1>1. status' = 2
  BY DEF TypeOK, Worst
<1> QED BY <1>1 DEF AfterLine, Tally

LEMMA ReadingLines ==
  ASSUME LinesInv, Reading
  PROVE  /\ TypeOK /\ lines \in Seq(TokenSeqs) /\ MidLine /\ source \notin {"none", "done"}
PROOF BY DEF LinesInv, MidLine, Reading

LEMMA RestingLines ==
  ASSUME LinesInv, source = "none" \/ state = "eof"
  PROVE  /\ TypeOK /\ lines \in Seq(TokenSeqs) /\ source # "done"
         /\ \A i \in 1..Len(lines) : Durations(lines[i]) \in Seq(Int)
         /\ AfterLine(lines, total, printed, status, broken)
PROOF
<1>1. ~Reading /\ source # "done"
  BY DEF LinesInv, Reading, Between
<1> QED BY <1>1 DEF LinesInv

LEMMA LinesStep == LinesInv /\ [Next]_vars => LinesInv'
PROOF
<1> SUFFICES ASSUME LinesInv, [Next]_vars PROVE LinesInv'
  OBVIOUS
<1>1. TypeOK /\ TypeOK'
  BY SumStep DEF LinesInv
<1>2. CASE Token
  <2>1. TypeOK /\ lines \in Seq(TokenSeqs) /\ MidLine /\ source \notin {"none", "done"} /\ UNCHANGED inVars
    BY <1>2, ReadingLines DEF Token
  <2>2. /\ lines' \in Seq(TokenSeqs) /\ Len(lines') = Len(lines)
        /\ \A i \in 1..(Len(lines) - 1) : lines'[i] = lines[i]
        /\ InLine(lines', state', start', total', printed', status', broken')
    BY <1>2, <2>1, TokenLines
  <2>3. state' \in {"START", "DASH", "END", "dropped"} /\ source' = source
    BY <1>2, <2>1, TokenStep DEF inVars
  <2>4. Reading' /\ ~Between' /\ source' # "done"
    BY <2>1, <2>3 DEF Reading, Between
  <2>5. Len(lines') > 0 /\ \A i \in 1..(Len(lines') - 1) : Durations(lines'[i]) \in Seq(Int)
    BY <2>1, <2>2 DEF MidLine
  <2>6. NextLines
    BY <2>2, <2>4, <2>5 DEF NextLines
  <2> QED BY <1>1, <2>1, <2>6, NextLinesHold DEF inVars
<1>3. CASE Newline
  <2>1. /\ TypeOK /\ lines \in Seq(TokenSeqs) /\ MidLine /\ source \notin {"none", "done"}
        /\ LineEnds /\ UNCHANGED inVars /\ broken' = broken
        /\ state' = "START" /\ lines' = Append(lines, <<>>)
    BY <1>3, ReadingLines DEF Newline
  <2>2. /\ \A i \in 1..Len(lines) : Durations(lines[i]) \in Seq(Int)
        /\ AfterLine(lines, total', printed', status', broken)
    BY <2>1, LineEndsLines
  <2>3. /\ lines' \in Seq(TokenSeqs) /\ Len(lines') > 0
        /\ \A i \in 1..(Len(lines') - 1) : Durations(lines'[i]) \in Seq(Int)
        /\ InLine(lines', "START", start', total', printed', status', broken)
    BY <2>1, <2>2, FreshLine
  <2>4. Reading' /\ ~Between' /\ source' # "done"
    BY <2>1 DEF Reading, Between, inVars
  <2>5. NextLines
    BY <2>1, <2>3, <2>4 DEF NextLines
  <2> QED BY <1>1, <2>1, <2>5, NextLinesHold DEF inVars
<1>4. CASE EndOfSource
  <2>1. /\ TypeOK /\ lines \in Seq(TokenSeqs) /\ MidLine /\ source \notin {"none", "done"}
        /\ LineEnds /\ UNCHANGED inVars /\ broken' = broken
        /\ state' = "eof" /\ lines' = lines
    BY <1>4, ReadingLines DEF EndOfSource
  <2>2. /\ \A i \in 1..Len(lines) : Durations(lines[i]) \in Seq(Int)
        /\ AfterLine(lines, total', printed', status', broken)
    BY <2>1, LineEndsLines
  <2>3. ~Reading' /\ ~Between' /\ source' # "done"
    BY <2>1 DEF Reading, Between, inVars
  <2>4. NextLines
    BY <2>1, <2>2, <2>3 DEF NextLines
  <2> QED BY <1>1, <2>1, <2>4, NextLinesHold DEF inVars
<1>5. CASE Open
  <2>1. /\ source = "none" /\ todo # <<>> /\ source' = Head(todo)
        /\ UNCHANGED <<now, summarize, total, printed, status, broken>>
        /\ state' = "START" /\ lines' = Append(lines, <<>>)
    BY <1>5 DEF Open, outVars
  <2>2. /\ lines \in Seq(TokenSeqs) /\ \A i \in 1..Len(lines) : Durations(lines[i]) \in Seq(Int)
        /\ AfterLine(lines, total', printed', status', broken')
    BY <2>1, RestingLines
  <2>3. /\ lines' \in Seq(TokenSeqs) /\ Len(lines') > 0
        /\ \A i \in 1..(Len(lines') - 1) : Durations(lines'[i]) \in Seq(Int)
        /\ InLine(lines', "START", start', total', printed', status', broken')
    BY <2>1, <2>2, FreshLine
  <2>4. source' \in {"operands", "file", "stdin"}
    BY <1>1, <2>1 DEF TypeOK
  <2>5. Reading' /\ ~Between' /\ source' # "done"
    BY <2>1, <2>4 DEF Reading, Between
  <2>6. NextLines
    BY <2>1, <2>3, <2>5 DEF NextLines
  <2> QED BY <1>1, <2>1, <2>6, NextLinesHold
<1>6. ASSUME source = "none" \/ state = "eof", source' = "none", state' = "START",
             UNCHANGED <<now, summarize, total, printed, lines>>,
             \/ UNCHANGED <<status, broken>>
             \/ status' = Worst(2) /\ broken' = TRUE
      PROVE  LinesInv'
  <2>1. /\ lines \in Seq(TokenSeqs) /\ \A i \in 1..Len(lines) : Durations(lines[i]) \in Seq(Int)
        /\ AfterLine(lines, total, printed, status, broken)
    BY <1>6, RestingLines
  <2>2. AfterLine(lines, total, printed, status', broken')
    BY <1>1, <1>6, <2>1, BrokenTally
  <2>3. ~Reading' /\ source' # "done"
    BY <1>6 DEF Reading
  <2>4. NextLines
    BY <1>6, <2>1, <2>2, <2>3 DEF NextLines
  <2> QED BY <1>1, <1>6, <2>4, NextLinesHold
<1>7. CASE OpenFails
  <2>1. state = "START"
    BY <1>7 DEF OpenFails, LinesInv, Between
  <2> QED BY <1>6, <1>7, <2>1 DEF OpenFails
<1>8. CASE Close
  BY <1>6, <1>8 DEF Close
<1>9. CASE Finish
  <2>1. /\ source = "none" /\ source' = "done" /\ UNCHANGED <<now, summarize, state, total, status, lines, broken>>
        /\ printed' = IF summarize THEN Append(printed, total) ELSE printed
    BY <1>9 DEF Finish
  <2>2. /\ lines \in Seq(TokenSeqs) /\ \A i \in 1..Len(lines) : Durations(lines[i]) \in Seq(Int)
        /\ AfterLine(lines, total, printed, status, broken)
    BY <2>1, RestingLines
  <2>3. state = "START" /\ ~Reading'
    BY <2>1 DEF LinesInv, Between, Reading
  <2>4. summarize => printed = <<>>
    BY <2>2 DEF AfterLine, Tally
  <2>5. summarize => printed' = <<total'>>
    BY <2>1, <2>4
  <2>6. AfterLine(lines', total', IF source' = "done" /\ summarize THEN <<>> ELSE printed', status', broken')
    BY <2>1, <2>2, <2>4
  <2>7. NextLines
    BY <2>1, <2>2, <2>3, <2>5, <2>6 DEF NextLines
  <2> QED BY <1>1, <2>1, <2>7, NextLinesHold
<1>10. CASE UNCHANGED vars
  <2>1. /\ now' = now /\ summarize' = summarize /\ source' = source /\ state' = state /\ start' = start
        /\ total' = total /\ printed' = printed /\ status' = status /\ lines' = lines /\ broken' = broken
    BY <1>10 DEF vars, inVars, outVars
  <2>2. (Reading' <=> Reading) /\ (Between' <=> Between)
    BY <2>1 DEF Reading, Between
  <2>3. NextLines
    BY <2>1, <2>2 DEF NextLines, LinesInv
  <2> QED BY <1>1, <2>1, <2>3, NextLinesHold
<1> QED BY <1>2, <1>3, <1>4, <1>5, <1>7, <1>8, <1>9, <1>10 DEF Next

LEMMA LinesInvariance == Spec => []LinesInv
PROOF BY LinesBegin, LinesStep, PTL DEF Spec

LEMMA BetweenLines ==
  ASSUME LinesInv, Between
  PROVE  /\ AllDurations = AllOf(lines, Len(lines))
         /\ AfterLine(lines, total, IF source = "done" /\ summarize THEN <<>> ELSE printed, status, broken)
PROOF
<1>1. ~Reading
  BY DEF Between, Reading
<1> QED BY <1>1 DEF LinesInv, AllDurations, AllOf

\* Sum mode's total, and what it prints, are those of the ranges that stand in
\* its lines before the first error of each, whatever the operands, files, lines
\* and texts are and in whatever order errors of any kind come (sum_line,
\* add_range, bad_input, sum_file).
THEOREM TheRangesAreSummed == Spec => []SumsTheRanges
PROOF
<1>1. LinesInv => SumsTheRanges
  <2> SUFFICES ASSUME LinesInv, Between
               PROVE  /\ total = TotalOf(Running)
                      /\ printed = IF ~summarize THEN Running
                                   ELSE IF source = "done" THEN <<total>> ELSE <<>>
    BY DEF SumsTheRanges
  <2>1. /\ total = TotalOf(Running)
        /\ (IF source = "done" /\ summarize THEN <<>> ELSE printed) = IF summarize THEN <<>> ELSE Running
    BY BetweenLines DEF AfterLine, Tally, Running
  <2>2. source = "done" /\ summarize => printed = <<total>>
    BY DEF LinesInv
  <2> QED BY <2>1, <2>2
<1> QED BY <1>1, LinesInvariance, PTL

\* Its exit status is 2 once a FILE was missing or failed, else 1 once a line had
\* an error or a range did not fit, else 0, however the errors are mixed and
\* whatever was read after them (set_status, doc/daykeep.texi:396-400).
THEOREM TheStatusIsTheWorst == Spec => []StatusIsWorst
PROOF
<1>1. LinesInv => StatusIsWorst
  <2> SUFFICES ASSUME LinesInv, Between
               PROVE  status = IF broken THEN 2
                               ELSE IF \E i \in 1..Len(lines) : ~IsGood(lines[i]) THEN 1
                               ELSE IF Len(Running) # Len(AllDurations) THEN 1 ELSE 0
    BY DEF StatusIsWorst
  <2> QED BY BetweenLines DEF AfterLine, Tally, Running, BadLines
<1> QED BY <1>1, LinesInvariance, PTL

=============================================================================
