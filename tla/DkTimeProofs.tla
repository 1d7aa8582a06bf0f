---------------------------- MODULE DkTimeProofs -----------------------------
(***************************************************************************)
(* Proofs about the library of DkTime: its two floor divisions are floor   *)
(* division, a completed day is the nearest one, what dk_parse_end returns *)
(* is an END of START, and a printed stamp is the nearest tick, for        *)
(* every day length and every text.                                        *)
(***************************************************************************)
EXTENDS DkTime, FiniteSetTheorems, TLAPS

\* Division as the provers know it: the quotient brackets a.
LEMMA DivBrackets ==
  ASSUME NEW a \in Int, NEW b \in Nat \ {0}
  PROVE  /\ a \div b \in Int
         /\ (a \div b) * b <= a
         /\ a < (a \div b) * b + b
PROOF BY SMTT(30)

\* dk_floor_div, written with C's truncating division, is floor division.
LEMMA FloorDivIsDiv ==
  ASSUME NEW a \in Int, NEW b \in Nat \ {0}
  PROVE  FloorDiv(a, b) = a \div b
PROOF BY SMTT(30) DEF FloorDiv, CDiv, CMod

\* So is floor_div_wide, which is written another way.
LEMMA FloorDivWideIsDiv ==
  ASSUME NEW a \in Int, NEW b \in Nat \ {0}
  PROVE  FloorDivWide(a, b) = a \div b
PROOF BY SMTT(30) DEF FloorDivWide, CDiv, CMod

\* Adding half a unit before a division rounds to the nearest.
LEMMA HalfUp ==
  ASSUME NEW a \in Int, NEW b \in Nat \ {0}
  PROVE  2 * (((a + b \div 2) \div b) * b - a) \in (1 - b)..b
PROOF
<1> DEFINE h == b \div 2
           q == (a + h) \div b
<1>1. h \in Int /\ 2 * h <= b /\ b < 2 * h + 2
  BY SMTT(30)
<1>2. q \in Int /\ q * b <= a + h /\ a + h < q * b + b
  <2>1. a + h \in Int
    BY <1>1
  <2> HIDE DEF h
  <2> QED BY <2>1, DivBrackets
<1> DEFINE p == q * b
<1>3. p \in Int
  BY <1>2
<1> HIDE DEF h, q, p
<1>4. 2 * (p - a) \in (1 - b)..b
  BY <1>1, <1>2, <1>3 DEF p
<1> QED BY <1>4 DEF p, q, h

\* The quotient and the remainder of a division put the number together again.
LEMMA WholeAndPart ==
  ASSUME NEW a \in Int, NEW b \in Nat \ {0}
  PROVE  (a \div b) * b + (a % b) = a /\ a % b < b
PROOF BY SMTT(30)

\* Completing forward gives the first day from ref on, backward the last one
\* up to ref, among the days that differ from typed by a multiple of m: it is on
\* the right side of ref and less than m away from it (complete_day).
THEOREM NearestDayIsNearest ==
  ASSUME NEW typed \in Int, NEW m \in Nat \ {0}, NEW ref \in Int
  PROVE  /\ NearestDay(typed, m, ref, TRUE) - ref \in 0..(m - 1)
         /\ ref - NearestDay(typed, m, ref, FALSE) \in 0..(m - 1)
         /\ \A forward \in BOOLEAN : \E k \in Int :
              NearestDay(typed, m, ref, forward) = typed + k * m
PROOF
<1> DEFINE q == (typed - ref) \div m
           p == (ref - typed) \div m
<1>1. /\ q \in Int /\ q * m <= typed - ref /\ typed - ref < q * m + m
  BY DivBrackets, typed - ref \in Int
<1>2. /\ p \in Int /\ p * m <= ref - typed /\ ref - typed < p * m + m
  BY DivBrackets, ref - typed \in Int
<1>3. NearestDay(typed, m, ref, TRUE) = typed - q * m
  BY FloorDivWideIsDiv, typed - ref \in Int DEF NearestDay
<1>4. NearestDay(typed, m, ref, FALSE) = typed + p * m
  BY FloorDivWideIsDiv, ref - typed \in Int DEF NearestDay
<1> HIDE DEF q, p
<1> DEFINE qm == q * m
           pm == p * m
           next == NearestDay(typed, m, ref, TRUE)
           last == NearestDay(typed, m, ref, FALSE)
<1>5. qm \in Int /\ pm \in Int
  BY <1>1, <1>2
<1>6. /\ qm <= typed - ref /\ typed - ref < qm + m
      /\ next = typed - qm
  BY <1>1, <1>3
<1>7. /\ pm <= ref - typed /\ ref - typed < pm + m
      /\ last = typed + pm
  BY <1>2, <1>4
<1> HIDE DEF qm, pm, next, last
<1>8. next - ref \in 0..(m - 1)
  BY <1>5, <1>6
<1>9. ref - last \in 0..(m - 1)
  BY <1>5, <1>7
<1>10. typed - q * m = typed + (-q) * m /\ -q \in Int
  BY <1>1
<1>11. \A forward \in BOOLEAN : \E k \in Int :
        NearestDay(typed, m, ref, forward) = typed + k * m
  BY <1>1, <1>2, <1>3, <1>4, <1>10
<1> QED BY <1>8, <1>9, <1>11 DEF next, last

-----------------------------------------------------------------------------
(* Reading an END.                                                         *)

\* What Narrow returns with r = 0 is its argument, in range.
LEMMA NarrowGood ==
  ASSUME NEW v, Narrow(v).r = 0
  PROVE  Narrow(v).out = v /\ v \in Secs
PROOF BY DEF Narrow, Good, Bad

LEMMA SecsAreInts == Secs \subseteq Int
PROOF BY SecsAssumption DEF Secs

\* An instant lies in its day, and before every instant of the next one.
LEMMA DayBrackets ==
  ASSUME NEW s \in Int
  PROVE  /\ Day(s) \in Int
         /\ Day(s) * DayLength <= s
         /\ s < (Day(s) + 1) * DayLength
PROOF
<1> USE DayAssumption
<1>1. Day(s) = s \div DayLength
  BY FloorDivIsDiv DEF Day
<1>2. /\ s \div DayLength \in Int
      /\ (s \div DayLength) * DayLength <= s
      /\ s < (s \div DayLength) * DayLength + DayLength
  BY DivBrackets
<1>3. ASSUME NEW q \in Int PROVE (q + 1) * DayLength = q * DayLength + DayLength
  OBVIOUS
<1> QED BY <1>1, <1>2, <1>3

LEMMA FracSecsIsNat ==
  ASSUME NEW x \in Text
  PROVE  FracSecs(x) \in Nat
PROOF
<1> USE DayAssumption
<1> DEFINE a == x.frac * DayLength + TicksPerDay \div 2
<1>1. x.frac \in Nat
  BY DEF Text
<1>2. x.frac * DayLength \in Nat
  BY <1>1
<1>3. TicksPerDay \div 2 \in Nat
  BY SMT
<1>4. a \in Nat
  BY <1>2, <1>3
<1> HIDE DEF a
<1>5. a \div TicksPerDay \in Nat
  BY <1>4
<1> QED BY <1>5 DEF FracSecs, a

\* A later day is at least a day later.
LEMMA LaterDay ==
  ASSUME NEW d \in Int, NEW e \in Int, d <= e
  PROVE  d * DayLength <= e * DayLength
PROOF BY DayAssumption

LEMMA CompleteDayForward ==
  ASSUME NEW typed \in Int, NEW mod \in Nat \ {0}, NEW ref \in Int,
         mod = 1 \/ ~IsFull(mod, ref)
  PROVE  /\ CompleteDay(typed, mod, ref, TRUE) \in Int
         /\ CompleteDay(typed, mod, ref, TRUE) >= ref
PROOF
<1>1. CASE mod = 1
  BY <1>1 DEF CompleteDay
<1>2. CASE mod # 1
  <2> DEFINE next == NearestDay(typed, mod, ref, TRUE)
  <2>1. CompleteDay(typed, mod, ref, TRUE) = next
    BY <1>2 DEF CompleteDay
  <2>2. next - ref \in 0..(mod - 1)
    BY NearestDayIsNearest
  <2>3. PICK k \in Int : next = typed + k * mod
    BY NearestDayIsNearest, TRUE \in BOOLEAN
  <2>4. k * mod \in Int
    OBVIOUS
  <2> HIDE DEF next
  <2>5. next \in Int
    BY <2>3, <2>4
  <2>6. next >= ref
    BY <2>2, <2>5
  <2> QED BY <2>1, <2>5, <2>6
<1> QED BY <1>1, <1>2

\* What mktime returns is the local time by one of the zone's offsets.
LEMMA UnixTimeIsOne ==
  ASSUME NEW local \in Int
  PROVE  /\ UnixTime(local) \in UnixTimes(local)
         /\ \E o \in Offsets : UnixTime(local) = local - o
PROOF
<1> USE CivilAssumption
<1> DEFINE all == {local - o : o \in Offsets}
           shown == {u \in all : OnClock(u) = local}
<1>1. UnixTimes(local) = IF shown # {} THEN shown ELSE all
  BY DEF UnixTimes
<1>2. all # {}
  OBVIOUS
<1>3. UnixTimes(local) # {} /\ UnixTimes(local) \subseteq all
  <2> HIDE DEF all
  <2> QED BY <1>1, <1>2
<1> HIDE DEF all, shown
<1>4. UnixTime(local) \in UnixTimes(local)
  BY <1>3 DEF UnixTime
<1>5. UnixTime(local) \in all
  BY <1>3, <1>4
<1> QED BY <1>4, <1>5 DEF all

\* A time of day that is read is that time on the date of ref, or days later.
LEMMA ClockOnShows ==
  ASSUME NEW ref \in Secs, NEW days \in Int, NEW secs \in Nat,
         ClockOn(ref, days, secs).r = 0
  PROVE  LET q == OnClock(ref + Epoch) \div CivilDay
             local == (q + days) * CivilDay + secs
         IN /\ ref + Epoch \in Civil
            /\ q \in Int /\ local \in Int
            /\ OnClock(ref + Epoch) \in Int /\ OnClock(ref + Epoch) < q * CivilDay + CivilDay
            /\ q * CivilDay <= OnClock(ref + Epoch)
            /\ ClockOn(ref, days, secs).out \in Secs
            /\ ClockOn(ref, days, secs).out = UnixTime(local) - Epoch
PROOF
<1> USE CivilAssumption, SecsAreInts
<1> DEFINE u == Add(ref, Epoch)
           t == ref + Epoch
           q == OnClock(t) \div CivilDay
           local == (q + days) * CivilDay + secs
           v == UnixTime(local)
<1>1. Bad.r = -1 /\ -1 # 0
  BY DEF Bad
<1>2. u.r = 0 /\ u.out \in Civil
  <2>1. u.r # 0 \/ u.out \notin Civil => ClockOn(ref, days, secs) = Bad
    BY DEF ClockOn
  <2> HIDE DEF u
  <2> QED BY <1>1, <2>1
<1>3. u.out = t
  BY <1>2, NarrowGood DEF Add
<1>4. t \in Civil
  BY <1>2, <1>3
<1>5. t \in Int /\ Zone(t) \in Int
  <2>1. t \in FirstTime..LastTime
    BY <1>4 DEF Civil
  <2>2. Zone(t) \in Offsets
    BY <2>1, Zenon
  <2> HIDE DEF t
  <2>3. t \in Int
    BY <2>1
  <2>4. Zone(t) \in Int
    BY <2>2, Zenon
  <2> QED BY <2>3, <2>4
<1>6. OnClock(t) \in Int
  BY <1>5 DEF OnClock
<1>7. q \in Int /\ q * CivilDay <= OnClock(t) /\ OnClock(t) < q * CivilDay + CivilDay
  BY <1>6, DivBrackets
<1>8. ClockOn(ref, days, secs) = FromTime(v)
  <2>1. ClockOn(ref, days, secs) =
          IF u.r # 0 \/ u.out \notin Civil THEN Bad
          ELSE FromTime(UnixTime((OnClock(u.out) \div CivilDay + days) * CivilDay + secs))
    BY DEF ClockOn
  <2> HIDE DEF u
  <2>2. ClockOn(ref, days, secs) = FromTime(UnixTime((OnClock(u.out) \div CivilDay + days) * CivilDay + secs))
    BY <1>2, <2>1
  <2> QED BY <1>3, <2>2
<1> HIDE DEF u
<1>9. local \in Int
  <2> HIDE DEF q
  <2> QED BY <1>7
<1> HIDE DEF q, local, v
<1>10. FromTime(v) = Sub(v, Epoch)
  BY <1>1, <1>8 DEF FromTime
<1>11. FromTime(v).out = v - Epoch /\ FromTime(v).out \in Secs
  BY <1>8, <1>10, NarrowGood DEF Sub
<1>12. ClockOn(ref, days, secs).out = v - Epoch /\ ClockOn(ref, days, secs).out \in Secs
  BY <1>8, <1>11
<1> QED BY <1>4, <1>6, <1>7, <1>9, <1>12 DEF q, local, v

LEMMA ClockOnInRange ==
  ASSUME NEW ref, NEW days, NEW secs, ClockOn(ref, days, secs).r = 0
  PROVE  ClockOn(ref, days, secs).out \in Secs
PROOF
<1>1. ASSUME NEW u PROVE FromTime(u) = Bad \/ FromTime(u) = Sub(u, Epoch)
  BY DEF FromTime
<1>2. ClockOn(ref, days, secs) = Bad
      \/ \E u : ClockOn(ref, days, secs) = Sub(u, Epoch)
  BY <1>1, Zenon DEF ClockOn
<1>3. ClockOn(ref, days, secs) # Bad
  BY DEF Bad
<1> QED BY <1>2, <1>3, NarrowGood DEF Sub

\* HH:MM on START's date, or else on the next one, is not before START, but for
\* the difference of two offsets.
LEMMA ParseClockEndNotBefore ==
  ASSUME NEW x \in Text, NEW start \in Secs, ParseClockEnd(x, start).r = 0
  PROVE  /\ ParseClockEnd(x, start).out \in Secs
         /\ IsEndOf(ParseClockEnd(x, start).out, start)
PROOF
<1> USE CivilAssumption, SecsAreInts
<1> DEFINE today == ClockOn(start, 0, x.frac)
           next == ClockOn(start, 1, x.frac)
           t == start + Epoch
           q == OnClock(t) \div CivilDay
           local == (q + 1) * CivilDay + x.frac
<1>1. x.frac \in Nat
  BY DEF Text
<1>2. CASE today.r = 0 /\ today.out < start
  <2>1. ParseClockEnd(x, start) = next
    BY <1>2 DEF ParseClockEnd
  <2>2. /\ t \in Civil /\ q \in Int /\ local \in Int
        /\ OnClock(t) \in Int /\ OnClock(t) < q * CivilDay + CivilDay
        /\ next.out \in Secs /\ next.out = UnixTime(local) - Epoch
    BY <1>1, <2>1, ClockOnShows, 1 \in Int
  <2>3. PICK o \in Offsets : UnixTime(local) = local - o
    BY <2>2, UnixTimeIsOne
  <2>4. Zone(t) \in Offsets /\ OnClock(t) = t + Zone(t) /\ t \in Int
    BY <2>2 DEF Civil, OnClock
  <2>5. (q + 1) * CivilDay = q * CivilDay + CivilDay /\ q * CivilDay \in Int
    BY <2>2
  <2>6. local > OnClock(t)
    BY <1>1, <2>2, <2>5
  <2> DEFINE z == Zone(t)
  <2>7. z \in Offsets /\ OnClock(t) = start + Epoch + z /\ z \in Int /\ o \in Int
    BY <2>4
  <2> HIDE DEF q, next, local, z, t
  <2>8. start - next.out < o - z
    BY <2>2, <2>3, <2>6, <2>7
  <2>9. IsEndOf(next.out, start)
    BY <2>3, <2>7, <2>8 DEF IsEndOf
  <2> QED BY <2>1, <2>2, <2>9
<1>3. CASE ~(today.r = 0 /\ today.out < start)
  <2>1. ParseClockEnd(x, start) = today
    BY <1>3 DEF ParseClockEnd
  <2>2. today.out \in Secs
    BY <2>1, ClockOnInRange
  <2>3. today.r = 0
    BY <2>1
  <2>4. today.out \in Int /\ start \in Int
    BY <2>2
  <2> HIDE DEF today
  <2>5. today.out >= start
    BY <1>3, <2>3, <2>4
  <2> QED BY <2>1, <2>2, <2>5 DEF IsEndOf
<1> QED BY <1>2, <1>3

\* A decimal END, completed from START's day or else from the next, is not
\* before START.
LEMMA ParseDecimalEndNotBefore ==
  ASSUME NEW x \in Text, NEW start \in Secs, ParsesDecimal(x),
         ParseDecimalEnd(x, start).r = 0
  PROVE  /\ ParseDecimalEnd(x, start).out \in Secs
         /\ ParseDecimalEnd(x, start).out >= start
PROOF
<1> DEFINE ref     == Day(start)
           literal == x.mod > 1 /\ IsFull(x.mod, ref)
           first   == Compose(CompleteDay(x.day, x.mod, ref, TRUE), FracSecs(x))
           day     == CompleteDay(x.day, x.mod, ref + 1, TRUE)
           second  == Compose(day, FracSecs(x))
<1> USE DayAssumption, SecsAreInts
<1>1. x.day \in Int /\ x.mod \in Nat \ {0}
  BY DEF Text
<1>2. /\ ref \in Int
      /\ start < (ref + 1) * DayLength
  BY DayBrackets
<1>3. CASE ~(first.r = 0 /\ first.out < start)
  <2>1. ParseDecimalEnd(x, start) = first
    BY <1>3 DEF ParseDecimalEnd
  <2>2. first.out \in Secs
    BY <2>1, NarrowGood DEF Compose
  <2>3. first.r = 0
    BY <2>1
  <2>4. first.out \in Int /\ start \in Int
    BY <2>2
  <2> HIDE DEF first
  <2>5. first.out >= start
    BY <1>3, <2>3, <2>4
  <2> QED BY <2>1, <2>2, <2>5
<1>4. CASE first.r = 0 /\ first.out < start
  <2>1. ~literal
    <3>1. literal => ParseDecimalEnd(x, start) = Before
      BY <1>4 DEF ParseDecimalEnd
    <3>2. Before.r = -2
      BY DEF Before
    <3> QED BY <3>1, <3>2
  <2>2. ParseDecimalEnd(x, start) = second
    BY <1>4, <2>1 DEF ParseDecimalEnd
  <2>3. x.mod = 1 \/ ~IsFull(x.mod, ref + 1)
    BY <1>1, <1>2, <2>1 DEF IsFull
  <2>4. day \in Int /\ day >= ref + 1
    BY <1>1, <1>2, <2>3, CompleteDayForward, ref + 1 \in Int
  <2>5. second.out = day * DayLength + FracSecs(x) /\ second.out \in Secs
    BY <2>2, NarrowGood DEF Compose
  <2> HIDE DEF ref, day
  <2>6. (ref + 1) * DayLength <= day * DayLength
    BY <1>2, <2>4, LaterDay, ref + 1 \in Int
  <2>7. FracSecs(x) \in Nat
    BY FracSecsIsNat
  <2> HIDE DEF second
  <2>8. (ref + 1) * DayLength \in Int /\ day * DayLength \in Int
    BY <1>2, <2>4
  <2>9. second.out >= start
    BY <1>2, <2>5, <2>6, <2>7, <2>8
  <2> QED BY <2>2, <2>5, <2>9
<1> QED BY <1>3, <1>4

\* dk_parse_end never makes of a decimal stamp an END before START, whatever the day
\* length and the text: it completes, rolls over or refuses.  Of a time of day it
\* makes one that lies before START, if at all, by less than two of the zone's
\* offsets differ, whatever the zone and mktime's choices.
THEOREM ParseEndNotBefore ==
  ASSUME NEW x \in Text, NEW start \in Secs, ParseEnd(x, start).r = 0
  PROVE  /\ ParseEnd(x, start).out \in Secs
         /\ IsEndOf(ParseEnd(x, start).out, start)
         /\ x.form # "clock" => ParseEnd(x, start).out >= start
PROOF
<1>1. CASE x.form = "clock"
  BY <1>1, ParseClockEndNotBefore DEF ParseEnd
<1>2. CASE x.form # "clock"
  <2>1. ParsesDecimal(x)
    BY <1>2 DEF ParseEnd, Bad
  <2> QED BY <1>2, <2>1, ParseDecimalEndNotBefore DEF ParseEnd, IsEndOf
<1> QED BY <1>1, <1>2

\* A stamp that is read is in range.
LEMMA ParseStampInRange ==
  ASSUME NEW x, NEW now, ParseStamp(x, now).r = 0
  PROVE  ParseStamp(x, now).out \in Secs
PROOF
<1>1. ParseStamp(x, now) # Bad
  BY DEF Bad
<1>2. CASE x.form = "clock"
  BY <1>2, ClockOnInRange DEF ParseStamp
<1>3. CASE x.form # "clock"
  BY <1>1, <1>3, NarrowGood DEF ParseStamp, Compose
<1> QED BY <1>2, <1>3

LEMMA ParseEndInRange ==
  ASSUME NEW x, NEW start, ParseEnd(x, start).r = 0
  PROVE  ParseEnd(x, start).out \in Secs
PROOF
<1>1. CASE x.form = "clock"
  BY <1>1, ClockOnInRange DEF ParseEnd, ParseClockEnd
<1>2. CASE x.form # "clock"
  <2>1. ParseEnd(x, start) # Bad
    BY DEF Bad
  <2>2. ParseEnd(x, start) # Before
    BY DEF Before
  <2> QED BY <1>2, <2>1, <2>2, NarrowGood DEF ParseEnd, ParseDecimalEnd, Compose
<1> QED BY <1>1, <1>2

-----------------------------------------------------------------------------
(* Printing.                                                               *)

LEMMA PowersOfTen == \A k \in 0..19 : Pow10(k) \in Nat \ {0}
PROOF
<1>1. /\ 10^0 \in Nat \ {0} /\ 10^1 \in Nat \ {0} /\ 10^2 \in Nat \ {0}
      /\ 10^3 \in Nat \ {0} /\ 10^4 \in Nat \ {0} /\ 10^5 \in Nat \ {0}
      /\ 10^6 \in Nat \ {0} /\ 10^7 \in Nat \ {0} /\ 10^8 \in Nat \ {0}
      /\ 10^9 \in Nat \ {0}
  BY SMT
<1>2. ASSUME NEW k \in 0..9 PROVE 10^k \in Nat \ {0}
  <2>1. \/ k = 0 \/ k = 1 \/ k = 2 \/ k = 3 \/ k = 4
        \/ k = 5 \/ k = 6 \/ k = 7 \/ k = 8 \/ k = 9
    OBVIOUS
  <2> QED BY <1>1, <2>1, Zenon
<1>3. ASSUME NEW k \in 10..19 PROVE 10^9 * (10 * 10^(k - 10)) \in Nat \ {0}
  <2>1. k - 10 \in 0..9
    OBVIOUS
  <2>2. PICK m \in Nat \ {0} : 10^(k - 10) = m
    BY <1>2, <2>1
  <2>3. 10^9 * (10 * m) \in Nat \ {0}
    BY <1>1
  <2> QED BY <2>2, <2>3
<1>4. \A k \in 0..19 : (k <= 9 /\ k \in 0..9) \/ (~(k <= 9) /\ k \in 10..19)
  OBVIOUS
<1> QED BY <1>2, <1>3, <1>4 DEF Pow10

LEMMA NDigitsType == ASSUME NEW v \in Int PROVE NDigits(v) \in 1..MaxDayDigits
PROOF
<1> DEFINE powers == {k \in 1..(MaxDayDigits - 1) : Pow10(k) <= v}
<1>1. MaxDayDigits - 1 \in Nat
  BY DigitsAssumption
<1>2. /\ IsFiniteSet(1..(MaxDayDigits - 1))
      /\ Cardinality(1..(MaxDayDigits - 1)) = MaxDayDigits - 1
  BY <1>1, FS_Interval
<1>3. powers \subseteq 1..(MaxDayDigits - 1)
  OBVIOUS
<1> HIDE DEF powers
<1>4. /\ IsFiniteSet(powers)
      /\ Cardinality(powers) <= MaxDayDigits - 1
  BY <1>2, <1>3, FS_Subset
<1>5. Cardinality(powers) \in Nat
  BY <1>4, FS_CardinalityType
<1>6. 1 + Cardinality(powers) \in 1..MaxDayDigits
  BY <1>1, <1>4, <1>5, DigitsAssumption
<1> QED BY <1>6 DEF NDigits, powers

LEMMA TicksType == ASSUME NEW s \in Int PROVE Ticks(s) \in Int
PROOF
<1> USE DayAssumption
<1>1. s * TicksPerDay \in Int /\ DayLength \div 2 \in Int
  OBVIOUS
<1>2. s * TicksPerDay + DayLength \div 2 \in Int
  BY <1>1
<1> QED BY <1>2, FloorDivWideIsDiv, DivBrackets DEF Ticks

\* Whatever is printed has the form of a stamp, its fraction less than a day.
THEOREM FmtStampType ==
  ASSUME NEW s \in Int
  PROVE  FmtStamp(s) \in Text /\ FmtStamp(s).frac < TicksPerDay
PROOF
<1> DEFINE t   == Ticks(s)
           day == FloorDivWide(t, TicksPerDay)
           n   == IF NDigits(day) < PadDigits THEN PadDigits ELSE NDigits(day)
<1>1. t \in Int
  BY TicksType
<1> HIDE DEF t
<1>2. /\ day \in Int /\ day * TicksPerDay <= t
      /\ t < day * TicksPerDay + TicksPerDay
  BY <1>1, DayAssumption, FloorDivWideIsDiv, DivBrackets
<1> HIDE DEF day
<1>3. day * TicksPerDay \in Int
  BY <1>2, DayAssumption
<1>4. t - day * TicksPerDay \in Nat /\ t - day * TicksPerDay < TicksPerDay
  BY <1>1, <1>2, <1>3, DayAssumption
<1>5. n \in 0..19
  BY <1>2, NDigitsType, DigitsAssumption
<1>6. PrintedMod(day) \in Nat \ {0}
  BY <1>5, PowersOfTen DEF PrintedMod
<1>7. FmtStamp(s) = Decimal(FALSE, PrintedMod(day), day, t - day * TicksPerDay)
  BY DEF FmtStamp, t, day
<1> QED BY <1>2, <1>4, <1>6, <1>7 DEF Decimal, Text

LEMMA PowersValues ==
  /\ Pow10(0) = 10^0 /\ Pow10(1) = 10^1 /\ Pow10(2) = 10^2 /\ Pow10(3) = 10^3
  /\ Pow10(4) = 10^4 /\ Pow10(5) = 10^5 /\ Pow10(6) = 10^6
  /\ Pow10(7) = 10^7 /\ Pow10(8) = 10^8 /\ Pow10(9) = 10^9
  /\ \A k \in 0..9 : Pow10(10 + k) = 10^9 * (10 * Pow10(k))
PROOF
<1>1. \A k \in 0..9 : Pow10(k) = 10^k
  BY DEF Pow10
<1>2. \A k \in 0..9 : ~(10 + k <= 9) /\ (10 + k) - 10 = k
  OBVIOUS
<1>3. \A k \in 0..9 : Pow10(10 + k) = 10^9 * (10 * Pow10(k))
  BY <1>1, <1>2 DEF Pow10
<1>4. /\ 0 \in 0..9 /\ 1 \in 0..9 /\ 2 \in 0..9 /\ 3 \in 0..9 /\ 4 \in 0..9
      /\ 5 \in 0..9 /\ 6 \in 0..9 /\ 7 \in 0..9 /\ 8 \in 0..9 /\ 9 \in 0..9
  OBVIOUS
<1> QED BY <1>1, <1>3, <1>4, Zenon

\* Ten times as much with every digit.
LEMMA PowersGrow ==
  /\ \A j, k \in 0..19 : j <= k => Pow10(j) <= Pow10(k)
  /\ \A k \in 1..19 : Pow10(k) >= 10
PROOF
<1>1. \A j, k \in 0..9 : j <= k => Pow10(j) <= Pow10(k)
  BY PowersValues, SMT
<1>2. \A k \in 0..9 : Pow10(k) \in Int /\ Pow10(k) >= 1 /\ Pow10(k) <= 10^9
                      /\ (k >= 1 => Pow10(k) >= 10)
  BY PowersValues, SMT
<1>3. ASSUME NEW k \in 10..19
      PROVE  /\ k - 10 \in 0..9 /\ Pow10(k) = 10^9 * (10 * Pow10(k - 10))
             /\ Pow10(k) >= 10 * 10^9
  <2>1. k - 10 \in 0..9 /\ 10 + (k - 10) = k
    OBVIOUS
  <2>2. Pow10(10 + (k - 10)) = 10^9 * (10 * Pow10(k - 10))
    BY <2>1, PowersValues, Zenon
  <2> QED BY <1>2, <2>1, <2>2, SMT
<1>4. ASSUME NEW j \in 0..19, NEW k \in 0..19, j <= k PROVE Pow10(j) <= Pow10(k)
  <2>1. CASE j \in 0..9 /\ k \in 0..9
    BY <1>1, <1>4, <2>1
  <2>2. CASE j \in 0..9 /\ k \in 10..19
    BY <1>2, <1>3, <2>2, PowersOfTen, SMT
  <2>3. CASE j \in 10..19 /\ k \in 10..19
    <3>1. j - 10 <= k - 10 /\ j - 10 \in 0..9 /\ k - 10 \in 0..9
      BY <1>4, <2>3
    <3>2. Pow10(j - 10) <= Pow10(k - 10) /\ Pow10(j - 10) \in Int /\ Pow10(k - 10) \in Int
      BY <1>1, <1>2, <3>1
    <3> QED BY <1>3, <2>3, <3>2, SMT
  <2> QED BY <1>4, <2>1, <2>2, <2>3
<1>5. ASSUME NEW k \in 1..19 PROVE Pow10(k) >= 10
  <2>1. CASE k \in 1..9
    BY <1>2, <2>1
  <2>2. CASE k \in 10..19
    BY <1>3, <2>2, PowersOfTen, SMT
  <2> QED BY <2>1, <2>2
<1> QED BY <1>4, <1>5

\* Comparing 10^k with a day number is comparing k with its number of digits:
\* IsFull may look at the value of the digits' place (ndigits, complete_day).
THEOREM DigitCount ==
  ASSUME NEW v \in Nat, v < Pow10(MaxDayDigits), NEW k \in 1..MaxDayDigits
  PROVE  (k >= NDigits(v)) <=> (Pow10(k) > v)
PROOF
<1> DEFINE M == MaxDayDigits
           powers == {j \in 1..(M - 1) : Pow10(j) <= v}
           n == NDigits(v)
<1>1. M \in 1..19 /\ k \in 1..19 /\ k <= M
  BY DigitsAssumption
<1>2. \A j \in 1..19 : Pow10(j) \in Nat
  BY PowersOfTen
<1>3. powers \subseteq 1..(M - 1) /\ \A j \in 1..(M - 1) : j \in powers <=> Pow10(j) <= v
  OBVIOUS
<1>4. n = 1 + Cardinality(powers)
  BY DEF NDigits
<1> HIDE DEF M, powers, n
<1>5. ASSUME NEW i \in Nat PROVE IsFiniteSet(1..i) /\ Cardinality(1..i) = i
  <2>1. IsFiniteSet(1..i) /\ Cardinality(1..i) = IF 1 <= i THEN i - 1 + 1 ELSE 0
    BY FS_Interval
  <2> QED BY <2>1
<1>6. IsFiniteSet(powers) /\ Cardinality(powers) \in Nat /\ n \in Int
  <2>1. IsFiniteSet(1..(M - 1))
    BY <1>1, <1>5
  <2>2. IsFiniteSet(powers)
    BY <1>3, <2>1, FS_Subset
  <2> QED BY <1>4, <2>2, FS_CardinalityType
<1>7. ASSUME k >= n PROVE Pow10(k) > v
  <2>1. SUFFICES ASSUME Pow10(k) <= v PROVE FALSE
    BY <1>1, <1>2
  <2>2. k # M
    BY <1>1, <1>2, <2>1 DEF M
  <2>3. \A j \in 1..k : Pow10(j) <= Pow10(k) /\ Pow10(j) \in Nat
    BY <1>1, <1>2, PowersGrow
  <2>4. \A j \in 1..k : j \in powers
    BY <1>1, <1>2, <1>3, <2>1, <2>2, <2>3
  <2>5. Cardinality(1..k) <= Cardinality(powers)
    BY <1>6, <2>4, FS_Subset
  <2> QED BY <1>1, <1>4, <1>5, <1>6, <1>7, <2>5
<1>8. ASSUME Pow10(k) > v PROVE k >= n
  <2>1. ASSUME NEW j \in powers PROVE j \in 1..(k - 1)
    <3>1. j \in 1..19 /\ Pow10(j) <= v
      BY <1>1, <1>3
    <3>2. ~(k <= j)
      BY <1>1, <1>2, <1>8, <3>1, PowersGrow
    <3> QED BY <1>1, <3>1, <3>2
  <2>2. k - 1 \in Nat
    BY <1>1
  <2>3. Cardinality(powers) <= Cardinality(1..(k - 1))
    BY <1>5, <2>1, <2>2, FS_Subset
  <2> QED BY <1>1, <1>4, <1>5, <1>6, <2>2, <2>3
<1> QED BY <1>7, <1>8 DEF n

-----------------------------------------------------------------------------
(* Multiples.                                                               *)

LEMMA Product == ASSUME NEW a \in Int, NEW b \in Int PROVE a * b \in Int
PROOF OBVIOUS

LEMMA ProductMonotone ==
  ASSUME NEW m \in Nat, NEW j \in Int, NEW k \in Int, j <= k
  PROVE  j * m <= k * m
PROOF OBVIOUS

LEMMA NextMultiple ==
  ASSUME NEW m \in Int, NEW k \in Int
  PROVE  (k + 1) * m = k * m + m /\ (k - 1) * m = k * m - m
PROOF OBVIOUS

\* Two numbers with the same remainder, less than m apart in one direction, are
\* ordered in the other.
LEMMA Multiples ==
  ASSUME NEW m \in Nat \ {0}, NEW j \in Int, NEW k \in Int, j * m < k * m + m
  PROVE  j * m <= k * m
PROOF
<1>1. CASE j <= k
  BY <1>1, ProductMonotone
<1>2. CASE k + 1 <= j
  <2>1. (k + 1) * m <= j * m
    BY <1>2, ProductMonotone
  <2>2. (k + 1) * m = k * m + m
    BY NextMultiple
  <2>3. j * m \in Int /\ k * m \in Int
    BY Product
  <2> QED BY <2>1, <2>2, <2>3
<1> QED BY <1>1, <1>2

\* The remainder and the quotient are what they are in a = q * b + r.
LEMMA RemainderIs ==
  ASSUME NEW b \in Nat \ {0}, NEW q \in Int, NEW r \in 0..(b - 1)
  PROVE  (q * b + r) \div b = q /\ (q * b + r) % b = r
PROOF
<1> DEFINE a == q * b + r
           p == a \div b
<1>1. a \in Int
  BY Product
<1>2. p \in Int /\ p * b <= a /\ a < p * b + b
  BY <1>1, DivBrackets
<1>3. a % b = a - p * b
  BY <1>1, SMTT(30)
<1>4. p * b \in Int /\ q * b \in Int
  BY <1>2, Product
<1> HIDE DEF p
<1>5. p * b < q * b + b /\ q * b < p * b + b
  BY <1>2, <1>4
<1>6. p * b = q * b
  BY <1>2, <1>4, <1>5, Multiples
<1>7. p <= q /\ q <= p
  <2>1. ASSUME NEW i \in Int, NEW j \in Int, i * b = j * b PROVE i <= j
    <3>1. SUFFICES ASSUME j + 1 <= i PROVE FALSE
      OBVIOUS
    <3>2. (j + 1) * b <= i * b /\ (j + 1) * b = j * b + b
      BY <3>1, ProductMonotone, NextMultiple
    <3>3. j * b \in Int
      BY Product
    <3> QED BY <2>1, <3>2, <3>3
  <2> QED BY <1>2, <1>6, <2>1
<1>8. p = q
  BY <1>2, <1>7
<1>9. a % b = r
  BY <1>3, <1>4, <1>8
<1> QED BY <1>8, <1>9 DEF p

\* Dividing takes whole multiples of the divisor out.
LEMMA AddDiv ==
  ASSUME NEW b \in Nat \ {0}, NEW q \in Int, NEW a \in Int
  PROVE  (q * b + a) \div b = q + (a \div b)
PROOF
<1> DEFINE p == a \div b
           r == a - p * b
<1>1. p \in Int /\ p * b <= a /\ a < p * b + b
  BY DivBrackets
<1> HIDE DEF p
<1>2. p * b \in Int /\ q * b \in Int /\ (q + p) * b = q * b + p * b
  BY <1>1
<1>3. r \in 0..(b - 1) /\ q * b + a = (q + p) * b + r
  BY <1>1, <1>2
<1> HIDE DEF r
<1>4. ((q + p) * b + r) \div b = q + p
  BY <1>1, <1>3, RemainderIs, q + p \in Int
<1> QED BY <1>3, <1>4 DEF p

-----------------------------------------------------------------------------
(* Reading back what was printed.                                          *)

\* The last day of dk_secs.
Days == MaxSecs \div DayLength

LEMMA DaysBracket ==
  /\ Days \in Nat /\ Days * DayLength <= MaxSecs /\ MaxSecs < Days * DayLength + DayLength
  /\ Days <= MaxSecs
PROOF
<1>1. MaxSecs \in Nat /\ DayLength \in Nat \ {0}
  BY SecsAssumption, DayAssumption
<1>2. Days \in Int /\ Days * DayLength <= MaxSecs /\ MaxSecs < Days * DayLength + DayLength
  BY <1>1, DivBrackets DEF Days
<1> HIDE DEF Days
<1>3. ~(Days <= -1)
  <2>1. Days <= -1 => Days * DayLength <= (-1) * DayLength
    BY <1>1, <1>2, ProductMonotone
  <2>2. Days * DayLength \in Int /\ (-1) * DayLength = -DayLength
    BY <1>1, <1>2, Product
  <2> QED BY <1>1, <1>2, <2>1, <2>2
<1>4. Days <= Days * DayLength
  BY <1>1, <1>2, <1>3
<1>5. Days * DayLength \in Int
  BY <1>1, <1>2, Product
<1> QED BY <1>1, <1>2, <1>3, <1>4, <1>5

\* The day of an instant in range is at most the last day.
LEMMA DayInRange ==
  ASSUME NEW s \in Secs
  PROVE  Day(s) \in Int /\ Day(s) <= Days /\ (s >= 0 => Day(s) >= 0)
PROOF
<1> DEFINE d == Day(s)
<1>1. s \in Int /\ s <= MaxSecs /\ MaxSecs \in Int /\ DayLength \in Nat \ {0}
  BY SecsAssumption, DayAssumption DEF Secs
<1>2. d \in Int /\ d * DayLength <= s /\ s < (d + 1) * DayLength
  BY <1>1, DayBrackets
<1> HIDE DEF d
<1>3. d * DayLength \in Int /\ Days * DayLength \in Int /\ (d + 1) * DayLength = d * DayLength + DayLength
      /\ (Days + 1) * DayLength = Days * DayLength + DayLength
  BY <1>1, <1>2, DaysBracket, Product, NextMultiple
<1>4. d <= Days
  <2>1. Days + 1 <= d => (Days + 1) * DayLength <= d * DayLength
    BY <1>1, <1>2, DaysBracket, ProductMonotone
  <2> QED BY <1>1, <1>2, <1>3, <2>1, DaysBracket
<1>5. ASSUME s >= 0 PROVE d >= 0
  <2>1. d + 1 <= 0 => (d + 1) * DayLength <= 0 * DayLength
    BY <1>1, <1>2, ProductMonotone
  <2>2. 0 * DayLength = 0
    BY <1>1
  <2> QED BY <1>1, <1>2, <1>3, <1>5, <2>1, <2>2
<1> QED BY <1>2, <1>4, <1>5 DEF d

\* The instant t ticks after day 0, as FracSecs rounds it.
Instant(t) == (t * DayLength + TicksPerDay \div 2) \div TicksPerDay

\* Ticks are the nearest to the seconds, and Instant the nearest to the ticks.
LEMMA TicksNear ==
  ASSUME NEW s \in Int
  PROVE  /\ Ticks(s) \in Int
         /\ Ticks(s) = (s * TicksPerDay + DayLength \div 2) \div DayLength
         /\ 2 * (Ticks(s) * DayLength - s * TicksPerDay) \in (1 - DayLength)..DayLength
PROOF
<1>1. s * TicksPerDay \in Int /\ s * TicksPerDay + DayLength \div 2 \in Int
  BY DayAssumption
<1>2. Ticks(s) \in Int /\ Ticks(s) = (s * TicksPerDay + DayLength \div 2) \div DayLength
  BY <1>1, DayAssumption, TicksType, FloorDivWideIsDiv DEF Ticks
<1> QED BY <1>1, <1>2, DayAssumption, HalfUp

LEMMA InstantNear ==
  ASSUME NEW t \in Int
  PROVE  /\ Instant(t) \in Int
         /\ 2 * (Instant(t) * TicksPerDay - t * DayLength) \in (1 - TicksPerDay)..TicksPerDay
PROOF
<1>1. t * DayLength \in Int /\ t * DayLength + TicksPerDay \div 2 \in Int
  BY DayAssumption
<1>2. Instant(t) \in Int
  BY <1>1, DayAssumption, DivBrackets DEF Instant
<1> QED BY <1>1, <1>2, DayAssumption, HalfUp DEF Instant

\* Rounding twice from a number of units b that are finer than the units a goes
\* back to where it started.
LEMMA FinerGrid ==
  ASSUME NEW a \in Nat \ {0}, NEW b \in Nat \ {0}, a <= b,
         NEW t \in Int, NEW v \in Int, NEW u \in Int,
         2 * (v * a - t * b) \in (1 - a)..a, 2 * (u * b - v * a) \in (1 - b)..b
  PROVE  u = t
PROOF
<1> DEFINE va == v * a
           tb == t * b
           ub == u * b
<1>1. va \in Int /\ tb \in Int /\ ub \in Int
  BY Product
<1>2. 2 * (va - tb) \in (1 - a)..a /\ 2 * (ub - va) \in (1 - b)..b
  OBVIOUS
<1>3. va - tb < b /\ (a = b => v = t)
  <2>1. ASSUME a = b PROVE v = t
    <3> DEFINE tl == t * a
    <3>1. tl \in Int /\ 2 * (va - tl) \in (1 - a)..a
      BY <2>1, <1>2, Product
    <3>2. (v + 1) * a = va + a /\ (t + 1) * a = tl + a
      BY NextMultiple
    <3>3. v + 1 <= t => (v + 1) * a <= tl
      BY ProductMonotone
    <3>4. t + 1 <= v => (t + 1) * a <= va
      BY ProductMonotone
    <3> HIDE DEF va, tl
    <3> QED BY <1>1, <3>1, <3>2, <3>3, <3>4
  <2> HIDE DEF va, tb, ub
  <2> QED BY <1>1, <1>2, <2>1
<1>4. (u + 1) * b = ub + b /\ (t + 1) * b = tb + b
  BY NextMultiple
<1>5. u + 1 <= t => (u + 1) * b <= tb
  BY ProductMonotone
<1>6. t + 1 <= u => (t + 1) * b <= ub
  BY ProductMonotone
<1>7. CASE a = b
  <2>1. va = tb
    BY <1>3, <1>7
  <2> HIDE DEF va, tb, ub
  <2> QED BY <1>1, <1>2, <1>4, <1>5, <1>6, <2>1
<1>8. CASE a < b
  <2> HIDE DEF va, tb, ub
  <2> QED BY <1>1, <1>2, <1>4, <1>5, <1>6, <1>8
<1> QED BY <1>7, <1>8

\* What was printed prints as the same ticks again, and where ticks are finer
\* than seconds it is read back exactly.
LEMMA TicksAgain ==
  ASSUME NEW s \in Int
  PROVE  /\ Ticks(Instant(Ticks(s))) = Ticks(s)
         /\ DayLength <= TicksPerDay => Instant(Ticks(s)) = s
PROOF
<1> DEFINE t == Ticks(s)
           v == Instant(t)
           u == Ticks(v)
<1>1. t \in Int /\ 2 * (t * DayLength - s * TicksPerDay) \in (1 - DayLength)..DayLength
  BY TicksNear
<1> HIDE DEF t
<1>2. v \in Int /\ 2 * (v * TicksPerDay - t * DayLength) \in (1 - TicksPerDay)..TicksPerDay
  BY <1>1, InstantNear
<1> HIDE DEF v
<1>3. u \in Int /\ 2 * (u * DayLength - v * TicksPerDay) \in (1 - DayLength)..DayLength
  BY <1>2, TicksNear
<1> HIDE DEF u
<1>4. TicksPerDay <= DayLength => u = t
  BY <1>1, <1>2, <1>3, DayAssumption, FinerGrid
<1>5. DayLength <= TicksPerDay => v = s
  BY <1>1, <1>2, DayAssumption, FinerGrid
<1>6. v = s => u = t
  BY DEF u, t
<1>7. TicksPerDay <= DayLength \/ DayLength <= TicksPerDay
  BY DayAssumption
<1> QED BY <1>4, <1>5, <1>6, <1>7 DEF u, v, t

LEMMA DivMonotone ==
  ASSUME NEW b \in Nat \ {0}, NEW i \in Int, NEW j \in Int, i <= j
  PROVE  i \div b <= j \div b
PROOF
<1> DEFINE p == i \div b
           q == j \div b
<1>1. p \in Int /\ q \in Int /\ p * b <= i /\ j < q * b + b
  BY DivBrackets
<1> HIDE DEF p, q
<1>2. p * b \in Int /\ q * b \in Int /\ (q + 1) * b = q * b + b
  BY <1>1, Product, NextMultiple
<1>3. q + 1 <= p => (q + 1) * b <= p * b
  BY <1>1, ProductMonotone
<1>4. p <= q
  BY <1>1, <1>2, <1>3
<1> QED BY <1>4 DEF p, q

\* Later instants have no fewer ticks, and more ticks are no earlier instant.
LEMMA RoundingKeepsOrder ==
  ASSUME NEW i \in Int, NEW j \in Int, i <= j
  PROVE  Ticks(i) <= Ticks(j) /\ Instant(i) <= Instant(j)
PROOF
<1> USE DayAssumption
<1>1. i * TicksPerDay <= j * TicksPerDay /\ i * DayLength <= j * DayLength
  BY ProductMonotone
<1>2. /\ i * TicksPerDay \in Int /\ j * TicksPerDay \in Int /\ DayLength \div 2 \in Int
      /\ i * DayLength \in Int /\ j * DayLength \in Int /\ TicksPerDay \div 2 \in Int
  BY Product
<1>3. /\ i * TicksPerDay + DayLength \div 2 <= j * TicksPerDay + DayLength \div 2
      /\ i * DayLength + TicksPerDay \div 2 <= j * DayLength + TicksPerDay \div 2
  BY <1>1, <1>2
<1>4. /\ i * TicksPerDay + DayLength \div 2 \in Int /\ j * TicksPerDay + DayLength \div 2 \in Int
      /\ i * DayLength + TicksPerDay \div 2 \in Int /\ j * DayLength + TicksPerDay \div 2 \in Int
  BY <1>2
<1>5. (i * TicksPerDay + DayLength \div 2) \div DayLength <= (j * TicksPerDay + DayLength \div 2) \div DayLength
  BY <1>3, <1>4, DivMonotone
<1>6. Instant(i) <= Instant(j)
  BY <1>3, <1>4, DivMonotone DEF Instant
<1> QED BY <1>5, <1>6, TicksNear

LEMMA InstantOfDayZero == Instant(0) = 0
PROOF
<1> DEFINE h == TicksPerDay \div 2
<1>1. h \in 0..(TicksPerDay - 1)
  BY DayAssumption, SMTT(30)
<1>2. 0 * DayLength = 0 /\ 0 * TicksPerDay = 0
  BY DayAssumption
<1>3. 0 * DayLength + h = 0 * TicksPerDay + h
  BY <1>2
<1> HIDE DEF h
<1>4. (0 * TicksPerDay + h) \div TicksPerDay = 0
  BY <1>1, DayAssumption, RemainderIs
<1> QED BY <1>3, <1>4 DEF Instant, h

LEMMA DayMonotone == ASSUME NEW i \in Int, NEW j \in Int, i <= j PROVE Day(i) <= Day(j)
PROOF BY DayAssumption, FloorDivIsDiv, DivMonotone DEF Day

\* The first instant of a day has exactly the ticks of its day number.
LEMMA WholeDays ==
  ASSUME NEW d \in Int
  PROVE  Ticks(d * DayLength) = d * TicksPerDay
PROOF
<1> DEFINE h == DayLength \div 2
           dt == d * TicksPerDay
<1>1. DayLength \in Nat \ {0} /\ TicksPerDay \in Nat \ {0} /\ d * DayLength \in Int
  BY DayAssumption, Product
<1>2. dt \in Int
  BY <1>1
<1>3. h \in 0..(DayLength - 1)
  BY <1>1, SMTT(30)
<1>4. (d * DayLength) * TicksPerDay = dt * DayLength
  BY <1>1
<1> HIDE DEF h, dt
<1>5. (dt * DayLength + h) \div DayLength = dt
  BY <1>1, <1>2, <1>3, RemainderIs
<1> QED BY <1>1, <1>4, <1>5, TicksNear DEF h, dt

\* A full day number has more values than the days before it.
LEMMA PrintedModCovers ==
  ASSUME NEW d \in Nat, d <= Days + 1
  PROVE  PrintedMod(d) > d /\ PrintedMod(d) > 1
PROOF
<1> DEFINE n == NDigits(d)
           k == IF n < PadDigits THEN PadDigits ELSE n
<1>1. n \in 1..MaxDayDigits
  BY NDigitsType
<1> HIDE DEF n
<1>2. k \in 1..MaxDayDigits /\ k >= n /\ k \in 1..19
  BY <1>1, DigitsAssumption
<1> HIDE DEF k
<1>3. d < Pow10(MaxDayDigits)
  <2>1. MaxDayDigits \in 0..19 /\ Days \in Nat
    BY DigitsAssumption, DaysBracket
  <2>2. Pow10(MaxDayDigits) \in Nat
    BY <2>1, PowersOfTen
  <2>3. Days + 1 < Pow10(MaxDayDigits)
    BY DaysAssumption DEF Days
  <2> QED BY <2>1, <2>2, <2>3
<1>4. Pow10(k) > d
  BY <1>2, <1>3, DigitCount DEF n
<1>5. Pow10(k) >= 10 /\ Pow10(k) \in Nat
  BY <1>2, PowersGrow, PowersOfTen
<1>6. PrintedMod(d) = Pow10(k)
  BY DEF PrintedMod, k, n
<1> QED BY <1>4, <1>5, <1>6

\* What is printed: a full day number, and a fraction that together mean the
\* instant nearest to the ticks.
LEMMA Printed ==
  ASSUME NEW s \in Secs
  PROVE  LET x == FmtStamp(s)
         IN /\ x \in Text /\ x.form = "decimal" /\ x.plus = FALSE
            /\ x.day \in Int /\ x.day <= Days + 1 /\ Day(s) <= x.day
            /\ x.day >= 0 => x.mod > x.day /\ x.mod > 1
            /\ (x.day >= 0) <=> (Ticks(s) >= 0)
            /\ FracSecs(x) \in Nat /\ x.day * DayLength + FracSecs(x) = Instant(Ticks(s))
            /\ TicksPerDay <= DayLength => FracSecs(x) < DayLength
PROOF
<1> DEFINE x == FmtStamp(s)
           t == Ticks(s)
           d == t \div TicksPerDay
           f == t - d * TicksPerDay
<1>1. TicksPerDay \in Nat \ {0} /\ DayLength \in Nat \ {0} /\ s \in Int
  BY DayAssumption, SecsAreInts
<1>2. t \in Int
  BY <1>1, TicksNear
<1> HIDE DEF t
<1>3. d \in Int /\ d * TicksPerDay <= t /\ t < d * TicksPerDay + TicksPerDay
  BY <1>1, <1>2, DivBrackets
<1>4. x = Decimal(FALSE, PrintedMod(d), d, f)
  <2>1. FloorDivWide(t, TicksPerDay) = d
    BY <1>1, <1>2, FloorDivWideIsDiv
  <2> QED BY <2>1 DEF FmtStamp, t
<1>5. x \in Text /\ x.form = "decimal" /\ x.plus = FALSE /\ x.day = d /\ x.mod = PrintedMod(d) /\ x.frac = f
  <2>1. x \in Text
    BY <1>1, FmtStampType
  <2> HIDE DEF x, d, f
  <2> QED BY <1>4, <2>1 DEF Decimal
<1> HIDE DEF x, d
<1>6. FracSecs(x) \in Nat
  BY <1>5, FracSecsIsNat
<1>7. Day(s) \in Int /\ Day(s) * DayLength <= s /\ Day(s) <= Days /\ Days \in Nat
  BY DayInRange, DayBrackets, DaysBracket, <1>1
<1>8. Day(s) <= d
  <2>1. Day(s) * DayLength \in Int
    BY <1>1, <1>7, Product
  <2>2. Ticks(Day(s) * DayLength) <= t
    BY <1>1, <1>7, <2>1, RoundingKeepsOrder DEF t
  <2>3. Day(s) * TicksPerDay <= t /\ Day(s) * TicksPerDay \in Int
    <3>1. Ticks(Day(s) * DayLength) = Day(s) * TicksPerDay
      BY <1>7, WholeDays, Zenon
    <3>2. Day(s) * TicksPerDay \in Int
      BY <1>1, <1>7, Product
    <3> QED BY <2>2, <3>1, <3>2
  <2>4. (d + 1) * TicksPerDay = d * TicksPerDay + TicksPerDay /\ d * TicksPerDay \in Int
    BY <1>1, <1>3, NextMultiple, Product
  <2>5. d + 1 <= Day(s) => (d + 1) * TicksPerDay <= Day(s) * TicksPerDay
    BY <1>1, <1>3, <1>7, ProductMonotone
  <2>6. ~(d + 1 <= Day(s))
    <3> DEFINE dt == d * TicksPerDay
               at == Day(s) * TicksPerDay
    <3>1. dt \in Int /\ at \in Int /\ t < dt + TicksPerDay /\ at <= t
      BY <1>3, <2>3, <2>4
    <3>2. d + 1 <= Day(s) => dt + TicksPerDay <= at
      BY <2>4, <2>5
    <3> HIDE DEF dt, at
    <3> QED BY <1>1, <1>2, <3>1, <3>2
  <2> QED BY <1>3, <1>7, <2>6
<1>9. d <= Days + 1
  <2>1. (Days + 1) * DayLength \in Int /\ s <= (Days + 1) * DayLength
    <3>1. (Days + 1) * DayLength = Days * DayLength + DayLength /\ Days * DayLength \in Int
      BY <1>1, <1>7, NextMultiple, Product
    <3>2. s <= MaxSecs /\ MaxSecs \in Int
      BY SecsAssumption DEF Secs
    <3> QED BY <1>1, <3>1, <3>2, DaysBracket
  <2>2. t <= Ticks((Days + 1) * DayLength)
    BY <1>1, <2>1, RoundingKeepsOrder DEF t
  <2>3. t <= (Days + 1) * TicksPerDay /\ (Days + 1) * TicksPerDay \in Int
    <3>1. Days + 1 \in Int
      BY <1>7
    <3>2. Ticks((Days + 1) * DayLength) = (Days + 1) * TicksPerDay
      BY <3>1, WholeDays, Zenon
    <3>3. (Days + 1) * TicksPerDay \in Int
      BY <1>1, <3>1, Product
    <3> QED BY <2>2, <3>2, <3>3
  <2>4. (Days + 1 + 1) * TicksPerDay = (Days + 1) * TicksPerDay + TicksPerDay /\ d * TicksPerDay \in Int
    BY <1>1, <1>3, <1>7, NextMultiple, Product
  <2>5. Days + 1 + 1 <= d => (Days + 1 + 1) * TicksPerDay <= d * TicksPerDay
    BY <1>1, <1>3, <1>7, ProductMonotone
  <2>6. ~(Days + 1 + 1 <= d)
    <3> DEFINE dt == d * TicksPerDay
               at == (Days + 1) * TicksPerDay
    <3>1. dt \in Int /\ at \in Int /\ dt <= t /\ t <= at
      BY <1>3, <2>3, <2>4
    <3>2. Days + 1 + 1 <= d => at + TicksPerDay <= dt
      BY <2>4, <2>5
    <3> HIDE DEF dt, at
    <3> QED BY <1>1, <1>2, <3>1, <3>2
  <2> QED BY <1>3, <1>7, <2>6
<1>10. d >= 0 => PrintedMod(d) > d /\ PrintedMod(d) > 1
  BY <1>3, <1>9, PrintedModCovers
<1>11. (d >= 0) <=> (t >= 0)
  <2>1. d >= 0 => d * TicksPerDay >= 0 * TicksPerDay
    BY <1>1, <1>3, ProductMonotone
  <2>2. d + 1 <= 0 => (d + 1) * TicksPerDay <= 0 * TicksPerDay
    BY <1>1, <1>3, ProductMonotone
  <2>3. (d + 1) * TicksPerDay = d * TicksPerDay + TicksPerDay /\ 0 * TicksPerDay = 0 /\ d * TicksPerDay \in Int
    BY <1>1, <1>3, NextMultiple, Product
  <2> QED BY <1>1, <1>2, <1>3, <2>1, <2>2, <2>3
<1>12. d * DayLength + FracSecs(x) = Instant(t)
  <2> DEFINE fd == f * DayLength
             dd == d * DayLength
             h  == TicksPerDay \div 2
  <2>1. fd \in Int /\ dd \in Int /\ h \in Int /\ f \in Int
    BY <1>1, <1>2, <1>3
  <2>2. t * DayLength = dd * TicksPerDay + fd /\ dd * TicksPerDay \in Int
    BY <1>1, <1>2, <1>3
  <2> HIDE DEF fd, dd, h
  <2>3. t * DayLength + h = dd * TicksPerDay + (fd + h) /\ fd + h \in Int
    BY <2>1, <2>2
  <2>4. (dd * TicksPerDay + (fd + h)) \div TicksPerDay = dd + ((fd + h) \div TicksPerDay)
    BY <1>1, <2>1, <2>3, AddDiv
  <2> QED BY <1>5, <2>3, <2>4 DEF FracSecs, Instant, h, fd, dd
<1>13. ASSUME TicksPerDay <= DayLength PROVE FracSecs(x) < DayLength
  <2> DEFINE a == f * DayLength + TicksPerDay \div 2
             q == a \div TicksPerDay
             h == TicksPerDay \div 2
             fd == f * DayLength
             whole == DayLength * TicksPerDay
  <2>1. f \in Int /\ f + 1 <= TicksPerDay
    BY <1>1, <1>2, <1>3
  <2>2. (f + 1) * DayLength <= TicksPerDay * DayLength
    BY <1>1, <2>1, ProductMonotone
  <2>3. (f + 1) * DayLength = fd + DayLength /\ fd \in Int /\ whole \in Int /\ TicksPerDay * DayLength = whole
    BY <1>1, <2>1, NextMultiple, Product
  <2>4. h \in Nat /\ h < TicksPerDay
    BY <1>1, SMTT(30)
  <2>5. q \in Int /\ q * TicksPerDay <= a /\ a = fd + h
    <3>1. a = fd + h /\ a \in Int
      BY <2>3, <2>4
    <3> HIDE DEF a
    <3> QED BY <1>1, <3>1, DivBrackets
  <2>6. DayLength <= q => whole <= q * TicksPerDay
    BY <1>1, <2>5, ProductMonotone
  <2>7. q * TicksPerDay \in Int
    BY <1>1, <2>5, Product
  <2>8. FracSecs(x) = q
    BY <1>5 DEF FracSecs
  <2> DEFINE qt == q * TicksPerDay
  <2>9. /\ qt \in Int /\ qt <= fd + h /\ fd + DayLength <= whole
        /\ DayLength <= q => whole <= qt
    BY <2>2, <2>3, <2>5, <2>6, <2>7
  <2> HIDE DEF q, a, h, fd, whole, qt
  <2> QED BY <1>1, <1>13, <2>3, <2>4, <2>5, <2>8, <2>9
<1> QED BY <1>5, <1>6, <1>8, <1>9, <1>10, <1>11, <1>12, <1>13, <1>3 DEF x, t

\* A full day number is taken literally.
LEMMA ReadsLiterally ==
  ASSUME NEW s \in Secs, NEW at \in Secs, FmtStamp(s).mod > Day(at) \/ Day(at) < 0
  PROVE  LET x == FmtStamp(s)
             v == Instant(Ticks(s))
             read == ParseStamp(x, at)
         IN /\ read = Bad \/ (v \in Secs /\ read = Good(v) /\ x.day >= 0)
            /\ ParseEnd(x, at) = IF x.day >= 0 /\ read.r = 0 /\ v < at THEN Before ELSE read
PROOF
<1> DEFINE x == FmtStamp(s)
           v == Instant(Ticks(s))
           ref == Day(at)
           first == Compose(CompleteDay(x.day, x.mod, ref, x.plus), FracSecs(x))
<1>1. /\ x \in Text /\ x.form = "decimal" /\ x.plus = FALSE
      /\ x.day \in Int /\ x.day <= Days + 1
      /\ x.day >= 0 => x.mod > x.day /\ x.mod > 1
      /\ x.day * DayLength + FracSecs(x) = v
  BY Printed, Zenon
<1>2. x.mod > ref \/ ref < 0
  OBVIOUS
<1> HIDE DEF x, v, ref
<1>3. IsFull(x.mod, ref)
  BY <1>2 DEF IsFull
<1>4. ASSUME x.day >= 0, NEW forward \in BOOLEAN
      PROVE  Compose(CompleteDay(x.day, x.mod, ref, forward), FracSecs(x)) = Narrow(v)
  <2>1. x.mod # 1
    BY <1>1, <1>4 DEF Text
  <2> QED BY <1>1, <1>3, <2>1 DEF CompleteDay, Compose
<1>5. Narrow(v) = Bad \/ (v \in Secs /\ Narrow(v) = Good(v))
  BY DEF Narrow
<1>6. ParsesDecimal(x) => x.day >= 0
  BY <1>1 DEF ParsesDecimal
<1>7. ParseStamp(x, at) = IF ParsesDecimal(x) THEN Narrow(v) ELSE Bad
  <2>1. ParseStamp(x, at) = IF ParsesDecimal(x) THEN first ELSE Bad
    BY <1>1 DEF ParseStamp, ref
  <2> QED BY <1>1, <1>4, <1>6, <2>1
<1>8. ParseEnd(x, at) = IF ParsesDecimal(x)
                        THEN IF Narrow(v).r = 0 /\ Narrow(v).out < at THEN Before ELSE Narrow(v)
                        ELSE Bad
  <2>1. CASE ParsesDecimal(x)
    <3>1. x.mod > 1 /\ Compose(CompleteDay(x.day, x.mod, ref, TRUE), FracSecs(x)) = Narrow(v)
      BY <1>1, <1>4, <1>6, <2>1
    <3> QED BY <1>1, <1>3, <2>1, <3>1 DEF ParseEnd, ParseDecimalEnd, ref
  <2>2. CASE ~ParsesDecimal(x)
    BY <1>1, <2>2 DEF ParseEnd
  <2> QED BY <2>1, <2>2
<1>9. Bad.r # 0 /\ Good(v).r = 0 /\ Good(v).out = v
  BY DEF Good, Bad
<1> QED BY <1>5, <1>6, <1>7, <1>8, <1>9 DEF x, v

=============================================================================
