------------------------- MODULE DkTimeCheckProofs --------------------------
(***************************************************************************)
(* The library of DkTime returns what the search over all days finds, for  *)
(* every day length, instant and text.                                     *)
(***************************************************************************)
EXTENDS DkTimeCheck, DkTimeProofs

-----------------------------------------------------------------------------
(* Least and greatest elements.                                            *)

LEMMA MinIs ==
  ASSUME NEW S, S \subseteq Int, NEW m \in S, \A x \in S : m <= x
  PROVE  Min(S) = m
PROOF
<1>1. /\ Min(S) \in S
      /\ \A y \in S : Min(S) <= y
  BY DEF Min
<1>2. Min(S) \in Int /\ m \in Int
  BY <1>1
<1> HIDE DEF Min
<1> QED BY <1>1, <1>2

LEMMA MaxIs ==
  ASSUME NEW S, S \subseteq Int, NEW m \in S, \A x \in S : x <= m
  PROVE  Max(S) = m
PROOF
<1>1. /\ Max(S) \in S
      /\ \A y \in S : Max(S) >= y
  BY DEF Max
<1>2. Max(S) \in Int /\ m \in Int
  BY <1>1
<1> HIDE DEF Max
<1> QED BY <1>1, <1>2

-----------------------------------------------------------------------------
(* Completion.                                                             *)

\* The digits typed are too few: there is something to complete from ref.
Unfinished(typed, mod, at) ==
  mod \in Nat \ {0} /\ typed \in 0..(mod - 1) /\ (mod = 1 \/ ~IsFull(mod, at))

Ending(d, typed, mod) == d % mod = typed

LEMMA EndsInDigits ==
  ASSUME NEW mod \in Nat \ {0}, NEW typed \in 0..(mod - 1), NEW d \in Int
  PROVE  /\ \A k \in Int : d = typed + k * mod => Ending(d, typed, mod)
         /\ Ending(d, typed, mod) => d = typed + (d \div mod) * mod /\ d \div mod \in Int
PROOF
<1>1. ASSUME NEW k \in Int, d = typed + k * mod PROVE d % mod = typed
  <2>1. d = k * mod + typed
    BY <1>1, Product
  <2> QED BY <2>1, RemainderIs
<1>2. d \div mod \in Int /\ d % mod = d - (d \div mod) * mod
  BY SMTT(30)
<1>3. (d \div mod) * mod \in Int
  BY <1>2, Product
<1> QED BY <1>1, <1>2, <1>3 DEF Ending

\* Forward, the completed day is the first day from ref on that ends in the
\* typed digits.
LEMMA ForwardIsFirst ==
  ASSUME NEW typed \in Int, NEW mod \in Int, NEW at \in Nat, Unfinished(typed, mod, at)
  PROVE  LET n == CompleteDay(typed, mod, at, TRUE)
         IN /\ n \in Int /\ n - at \in 0..(mod - 1) /\ Ending(n, typed, mod)
            /\ \A d \in Int : d >= at /\ Ending(d, typed, mod) => n <= d
PROOF
<1> DEFINE n == CompleteDay(typed, mod, at, TRUE)
<1>1. mod \in Nat \ {0} /\ typed \in 0..(mod - 1)
  BY DEF Unfinished
<1>2. at \in Int
  OBVIOUS
<1> HIDE DEF n
<1>3. CASE mod = 1
  <2>1. n = at /\ typed = 0
    BY <1>1, <1>3 DEF CompleteDay, n
  <2>2. at % 1 = 0 /\ at \in Int
    BY SMT
  <2>3. n \in Int /\ n - at \in 0..(mod - 1) /\ Ending(n, typed, mod)
    BY <1>2, <1>3, <2>1, <2>2 DEF Ending
  <2>4. \A d \in Int : d >= at => n <= d
    BY <1>2, <2>1
  <2> QED BY <2>3, <2>4 DEF n
<1>4. CASE mod # 1
  <2>1. n = NearestDay(typed, mod, at, TRUE)
    BY <1>4 DEF CompleteDay, Unfinished, n
  <2>2. n - at \in 0..(mod - 1)
    <3>1. NearestDay(typed, mod, at, TRUE) - at \in 0..(mod - 1)
      BY <1>1, <1>2, NearestDayIsNearest, Zenon
    <3> QED BY <2>1, <3>1
  <2>3. PICK k \in Int : n = typed + k * mod
    <3>1. \E k \in Int : NearestDay(typed, mod, at, TRUE) = typed + k * mod
      BY <1>1, <1>2, NearestDayIsNearest, Zenon, TRUE \in BOOLEAN
    <3> QED BY <2>1, <3>1
  <2>4. k * mod \in Int
    BY Product
  <2>5. n \in Int /\ Ending(n, typed, mod)
    BY <1>1, <2>3, <2>4, EndsInDigits
  <2>6. ASSUME NEW d \in Int, d >= at, Ending(d, typed, mod) PROVE n <= d
    <3> DEFINE j == d \div mod
    <3>1. d = typed + j * mod /\ j \in Int
      BY <1>1, <2>6, EndsInDigits
    <3> HIDE DEF j
    <3>2. j * mod \in Int
      BY <3>1, Product
    <3>3. k * mod < j * mod + mod
      BY <1>1, <2>2, <2>3, <2>4, <2>5, <2>6, <3>1, <3>2
    <3>4. k * mod <= j * mod
      BY <1>1, <3>1, <3>3, Multiples
    <3> QED BY <1>1, <2>3, <2>4, <3>1, <3>2, <3>4
  <2> QED BY <2>2, <2>5, <2>6 DEF n
<1> QED BY <1>3, <1>4

\* Backward, it is the last one up to at.
LEMMA BackwardIsLast ==
  ASSUME NEW typed \in Int, NEW mod \in Int, NEW at \in Nat, Unfinished(typed, mod, at)
  PROVE  LET n == CompleteDay(typed, mod, at, FALSE)
         IN /\ n \in 0..at /\ Ending(n, typed, mod)
            /\ \A d \in Int : d <= at /\ Ending(d, typed, mod) => d <= n
PROOF
<1> DEFINE n == CompleteDay(typed, mod, at, FALSE)
<1>1. mod \in Nat \ {0} /\ typed \in 0..(mod - 1)
  BY DEF Unfinished
<1>2. at \in Int
  OBVIOUS
<1> HIDE DEF n
<1>3. CASE mod = 1
  <2>1. n = at /\ typed = 0
    BY <1>1, <1>3 DEF CompleteDay, n
  <2>2. at % 1 = 0 /\ at \in Int
    BY SMT
  <2>3. n \in 0..at /\ Ending(n, typed, mod)
    BY <1>2, <1>3, <2>1, <2>2 DEF Ending
  <2>4. \A d \in Int : d <= at => d <= n
    BY <1>2, <2>1
  <2> QED BY <2>3, <2>4 DEF n
<1>4. CASE mod # 1
  <2>1. n = NearestDay(typed, mod, at, FALSE)
    BY <1>4 DEF CompleteDay, Unfinished, n
  <2>2. at - n \in 0..(mod - 1)
    <3>1. at - NearestDay(typed, mod, at, FALSE) \in 0..(mod - 1)
      BY <1>1, <1>2, NearestDayIsNearest, Zenon
    <3> QED BY <2>1, <3>1
  <2>3. PICK k \in Int : n = typed + k * mod
    <3>1. \E k \in Int : NearestDay(typed, mod, at, FALSE) = typed + k * mod
      BY <1>1, <1>2, NearestDayIsNearest, Zenon, FALSE \in BOOLEAN
    <3> QED BY <2>1, <3>1
  <2>4. k * mod \in Int
    BY Product
  <2>5. n \in Int /\ Ending(n, typed, mod)
    BY <1>1, <2>3, <2>4, EndsInDigits
  <2>6. ASSUME NEW d \in Int, d <= at, Ending(d, typed, mod) PROVE d <= n
    <3> DEFINE j == d \div mod
    <3>1. d = typed + j * mod /\ j \in Int
      BY <1>1, <2>6, EndsInDigits
    <3> HIDE DEF j
    <3>2. j * mod \in Int
      BY <3>1, Product
    <3>3. j * mod < k * mod + mod
      BY <1>1, <2>2, <2>3, <2>4, <2>5, <2>6, <3>1, <3>2
    <3>4. j * mod <= k * mod
      BY <1>1, <3>1, <3>3, Multiples
    <3> QED BY <1>1, <2>3, <2>4, <3>1, <3>2, <3>4
  <2>7. mod <= at
    BY <1>1, <1>4 DEF Unfinished, IsFull
  <2>8. n \in 0..at
    BY <1>1, <2>2, <2>5, <2>7
  <2> QED BY <2>5, <2>6, <2>8 DEF n
<1> QED BY <1>3, <1>4

-----------------------------------------------------------------------------
(* Reading a decimal stamp.                                                *)

LEMMA ComposeFits ==
  ASSUME NEW n \in Nat, NEW f \in Nat
  PROVE  Compose(n, f) = IfFits(f + DayLength * n) /\ Compose(n, f) = IfFits(n * DayLength + f)
PROOF
<1> DEFINE p == n * DayLength
<1>1. p \in Nat /\ DayLength * n = p
  BY DayAssumption
<1>2. MinSecs \in Int /\ MaxSecs \in Int /\ MinSecs <= 0
  BY SecsAssumption
<1>3. Compose(n, f) = Narrow(p + f)
  BY DEF Compose
<1> HIDE DEF p
<1>4. p + f \in Secs <=> p + f <= MaxSecs
  BY <1>1, <1>2 DEF Secs
<1>5. f + p = p + f
  BY <1>1
<1> QED BY <1>1, <1>3, <1>4, <1>5 DEF Narrow, IfFits, p

\* A text with no day digit, or with fewer than the reference day has.
LEMMA TypedUnfinished ==
  ASSUME NEW x \in Typed, x.form = "decimal", NEW at \in Nat, ~(x.mod > at /\ x.mod > 1)
  PROVE  /\ Unfinished(x.day, x.mod, at)
         /\ x.mod \in Nat \ {0} /\ x.day \in 0..(x.mod - 1)
         /\ (x.mod <= at \/ x.mod = 1)
PROOF
<1>1. x.mod \in Nat \ {0} /\ x.day \in 0..(x.mod - 1)
  BY InputsAssumption DEF Text
<1>2. x.mod <= at \/ x.mod = 1
  BY <1>1
<1>3. x.mod = 1 \/ ~IsFull(x.mod, at)
  BY <1>1, <1>2 DEF IsFull
<1> QED BY <1>1, <1>2, <1>3 DEF Unfinished

\* Completed days are days of the reference.
LEMMA CompletedInReference ==
  ASSUME NEW x \in Typed, x.form = "decimal", NEW at \in Nat, at <= Days + 1,
         Unfinished(x.day, x.mod, at), x.mod <= Days \/ x.mod = 1
  PROVE  /\ CompleteDay(x.day, x.mod, at, TRUE) = Min({d \in EndsIn(x) : d >= at})
         /\ CompleteDay(x.day, x.mod, at, TRUE) \in Nat
         /\ CompleteDay(x.day, x.mod, at, TRUE) \in EndsIn(x)
         /\ CompleteDay(x.day, x.mod, at, TRUE) >= at
         /\ \A d \in EndsIn(x) : d >= at => CompleteDay(x.day, x.mod, at, TRUE) <= d
         /\ at <= Days => /\ CompleteDay(x.day, x.mod, at, FALSE) = Max({d \in EndsIn(x) : d <= at})
                          /\ CompleteDay(x.day, x.mod, at, FALSE) \in Nat
PROOF
<1>1. x.mod \in Nat \ {0} /\ x.mod \in Int /\ x.day \in Int
  BY DEF Unfinished
<1> DEFINE n == CompleteDay(x.day, x.mod, at, TRUE)
           l == CompleteDay(x.day, x.mod, at, FALSE)
<1>2. /\ n \in Int /\ n - at \in 0..(x.mod - 1) /\ Ending(n, x.day, x.mod)
      /\ \A d \in Int : d >= at /\ Ending(d, x.day, x.mod) => n <= d
  BY <1>1, ForwardIsFirst, Zenon
<1>3. /\ l \in 0..at /\ Ending(l, x.day, x.mod)
      /\ \A d \in Int : d <= at /\ Ending(d, x.day, x.mod) => d <= l
  BY <1>1, BackwardIsLast, Zenon
<1> HIDE DEF n, l
<1>4. EndsIn(x) = {d \in 0..LastDay : Ending(d, x.day, x.mod)} /\ LastDay = 2 * Days + 1
  BY DEF EndsIn, Ending, LastDay, Days
<1>5. n \in 0..LastDay /\ n >= at
  BY <1>1, <1>2, <1>4, DaysBracket
<1>6. n = Min({d \in EndsIn(x) : d >= at})
  <2> DEFINE S == {d \in EndsIn(x) : d >= at}
  <2>1. S \subseteq Int /\ n \in S /\ \A d \in S : n <= d
    BY <1>2, <1>4, <1>5
  <2> HIDE DEF S
  <2>2. Min(S) = n
    BY <2>1, MinIs
  <2> QED BY <2>2 DEF S
<1>7. ASSUME at <= Days PROVE l = Max({d \in EndsIn(x) : d <= at})
  <2> DEFINE S == {d \in EndsIn(x) : d <= at}
  <2>1. l \in 0..LastDay
    BY <1>3, <1>4, <1>7, DaysBracket
  <2>2. S \subseteq Int /\ l \in S /\ \A d \in S : d <= l
    BY <1>3, <1>4, <2>1
  <2> HIDE DEF S
  <2>3. Max(S) = l
    BY <2>2, MaxIs
  <2> QED BY <2>3 DEF S
<1>8. n \in Nat /\ l \in Nat
  BY <1>2, <1>3, <1>5
<1>9. n \in EndsIn(x) /\ \A d \in EndsIn(x) : d >= at => n <= d
  BY <1>2, <1>4, <1>5
<1> QED BY <1>5, <1>6, <1>7, <1>8, <1>9 DEF n, l

\* What a decimal text says is in reach of parse_decimal unless it is a full
\* day number out of range.
LEMMA TypedParses ==
  ASSUME NEW x \in Typed, x.form = "decimal", NEW at \in Nat, at <= Days
  PROVE  /\ x.day \in Nat /\ x.mod \in Nat \ {0} /\ FracSecs(x) \in Nat
         /\ x.day <= MaxSecs => ParsesDecimal(x)
         /\ ~(x.mod > at /\ x.mod > 1) => ParsesDecimal(x)
PROOF
<1>1. x \in Text /\ x.day \in Nat /\ x.mod \in Nat \ {0} /\ x.day < x.mod /\ x.day \in 0..(x.mod - 1)
  BY InputsAssumption DEF Text
<1>2. FracSecs(x) \in Nat
  BY <1>1, FracSecsIsNat
<1>3. x.day <= MaxSecs => ParsesDecimal(x)
  BY <1>1, SecsAssumption DEF ParsesDecimal
<1>4. ASSUME ~(x.mod > at /\ x.mod > 1) PROVE x.day <= MaxSecs
  BY <1>1, <1>4, DaysBracket, SecsAssumption
<1> QED BY <1>1, <1>2, <1>3, <1>4

LEMMA StampIsNearest ==
  ASSUME NEW x \in Typed, x.form = "decimal", NEW now \in Secs, Day(now) >= 0
  PROVE  LET today == Day(now)
             past  == {d \in EndsIn(x) : d <= today}
             next  == {d \in EndsIn(x) : d >= today}
         IN ParseStamp(x, now) = IfFits(FracSecs(x) + DayLength *
              (IF x.mod > today /\ x.mod > 1 THEN x.day
               ELSE IF x.plus THEN Min(next) ELSE Max(past)))
PROOF
<1> DEFINE at == Day(now)
           f  == FracSecs(x)
<1>1. at \in Nat /\ at <= Days
  BY DayInRange
<1> HIDE DEF at
<1>2. /\ x.day \in Nat /\ x.mod \in Nat \ {0} /\ f \in Nat
      /\ x.day <= MaxSecs => ParsesDecimal(x)
      /\ ~(x.mod > at /\ x.mod > 1) => ParsesDecimal(x)
  BY <1>1, TypedParses
<1> HIDE DEF f
<1>3. ParseStamp(x, now) = IF ParsesDecimal(x) THEN Compose(CompleteDay(x.day, x.mod, at, x.plus), f) ELSE Bad
  BY DEF ParseStamp, at, f
<1>4. CASE x.mod > at /\ x.mod > 1
  <2>1. CompleteDay(x.day, x.mod, at, x.plus) = x.day
    BY <1>1, <1>2, <1>4 DEF CompleteDay, IsFull
  <2>2. CASE ParsesDecimal(x)
    <3>1. ParseStamp(x, now) = IfFits(f + DayLength * x.day)
      BY <1>2, <1>3, <2>1, <2>2, ComposeFits
    <3> QED BY <1>4, <3>1 DEF at, f
  <2>3. CASE ~ParsesDecimal(x)
    <3>1. x.day > MaxSecs /\ MaxSecs \in Int
      BY <1>2, <2>3, SecsAssumption
    <3>2. DayLength * x.day >= x.day /\ DayLength * x.day \in Int
      BY <1>2, DayAssumption
    <3>3. f + DayLength * x.day > MaxSecs
      BY <1>2, <3>1, <3>2
    <3>4. f + DayLength * x.day \in Int
      BY <1>2, <3>2
    <3>5. IfFits(f + DayLength * x.day) = Bad
      BY <3>1, <3>3, <3>4 DEF IfFits
    <3> QED BY <1>3, <1>4, <2>3, <3>5 DEF at, f
  <2> QED BY <2>2, <2>3
<1>5. CASE ~(x.mod > at /\ x.mod > 1)
  <2>1. Unfinished(x.day, x.mod, at) /\ (x.mod <= Days \/ x.mod = 1) /\ at <= Days + 1
    <3>1. Unfinished(x.day, x.mod, at) /\ (x.mod <= at \/ x.mod = 1)
      BY <1>1, <1>5, TypedUnfinished
    <3> QED BY <1>1, <1>2, <3>1, DaysBracket
  <2> DEFINE next == {d \in EndsIn(x) : d >= at}
             past == {d \in EndsIn(x) : d <= at}
             n    == CompleteDay(x.day, x.mod, at, x.plus)
  <2>2. /\ CompleteDay(x.day, x.mod, at, TRUE) = Min(next)
        /\ CompleteDay(x.day, x.mod, at, TRUE) \in Nat
        /\ CompleteDay(x.day, x.mod, at, FALSE) = Max(past)
        /\ CompleteDay(x.day, x.mod, at, FALSE) \in Nat
    BY <1>1, <2>1, CompletedInReference
  <2>3. x.plus \in BOOLEAN
    BY InputsAssumption DEF Text
  <2>4. n \in Nat /\ n = IF x.plus THEN Min(next) ELSE Max(past)
    <3>1. CASE x.plus = TRUE
      BY <2>2, <3>1
    <3>2. CASE x.plus = FALSE
      BY <2>2, <3>2
    <3> QED BY <2>3, <3>1, <3>2
  <2> HIDE DEF next, past, n
  <2>5. ParseStamp(x, now) = IfFits(f + DayLength * n)
    BY <1>2, <1>3, <1>5, <2>4, ComposeFits DEF n
  <2>6. ParseStamp(x, now) = IfFits(f + DayLength * (IF x.plus THEN Min(next) ELSE Max(past)))
    BY <2>4, <2>5
  <2> QED BY <1>5, <2>6 DEF at, f, next, past
<1> QED BY <1>4, <1>5

-----------------------------------------------------------------------------
(* Reading an END.                                                         *)

\* An instant of an earlier day is before start.
LEMMA EarlierDay ==
  ASSUME NEW start \in Int, NEW d \in Int, NEW f \in Nat, f < DayLength
  PROVE  /\ d < Day(start) => d * DayLength + f < start
         /\ d > Day(start) => d * DayLength + f >= start
PROOF
<1> DEFINE at == Day(start)
<1>1. DayLength \in Nat
  BY DayAssumption
<1>2. at \in Int /\ at * DayLength <= start /\ start < (at + 1) * DayLength
  BY DayBrackets
<1> HIDE DEF at
<1>3. /\ at * DayLength \in Int /\ (at + 1) * DayLength \in Int /\ d * DayLength \in Int
      /\ (d + 1) * DayLength = d * DayLength + DayLength
  BY <1>1, <1>2, Product, NextMultiple
<1>4. d < at => (d + 1) * DayLength <= at * DayLength
  BY <1>2, LaterDay
<1>5. d > at => (at + 1) * DayLength <= d * DayLength
  BY <1>2, LaterDay
<1> QED BY <1>1, <1>2, <1>3, <1>4, <1>5 DEF at

\* A later day ending in the typed digits is a later instant the text may mean.
LEMMA MeansOrder ==
  ASSUME NEW x, NEW start \in Int, NEW n \in EndsIn(x), FracSecs(x) \in Nat,
         n * DayLength + FracSecs(x) >= start,
         \A d \in EndsIn(x) : d * DayLength + FracSecs(x) >= start => n <= d
  PROVE  Min({v \in Means(x) : v >= start}) = n * DayLength + FracSecs(x)
PROOF
<1> DEFINE f == FracSecs(x)
           S == {v \in Means(x) : v >= start}
           first == n * DayLength + f
<1>1. DayLength \in Nat /\ EndsIn(x) \subseteq Int /\ f \in Nat
  BY DayAssumption DEF EndsIn
<1>2. \A d \in EndsIn(x) : d * DayLength \in Int
  BY <1>1, Product
<1> HIDE DEF f
<1>3. S \subseteq Int
  BY <1>1, <1>2 DEF Means, f
<1>4. first \in S
  BY DEF Means, f
<1>5. ASSUME NEW v \in S PROVE first <= v
  <2>1. PICK d \in EndsIn(x) : v = d * DayLength + f
    BY DEF Means, f
  <2>2. n <= d
    BY <2>1 DEF f
  <2>3. n * DayLength <= d * DayLength
    BY <1>1, <2>2, LaterDay
  <2> QED BY <1>1, <1>2, <2>1, <2>3
<1> HIDE DEF S, first
<1>6. Min(S) = first
  BY <1>3, <1>4, <1>5, MinIs
<1> QED BY <1>6 DEF S, first, f

LEMMA EndFull ==
  ASSUME NEW x \in Typed, x.form = "decimal", NEW start \in Secs, start >= 0,
         x.mod > Day(start), x.mod > 1
  PROVE  LET value == x.day * DayLength + FracSecs(x)
         IN ParseEnd(x, start) = IF value > MaxSecs THEN Bad
                                 ELSE IF value < start THEN Before ELSE Good(value)
PROOF
<1> DEFINE at == Day(start)
           f  == FracSecs(x)
           value == x.day * DayLength + f
           first == Compose(CompleteDay(x.day, x.mod, at, TRUE), f)
<1>1. at \in Nat /\ at <= Days
  BY DayInRange
<1>2. /\ x.day \in Nat /\ x.mod \in Nat \ {0} /\ f \in Nat
      /\ x.day <= MaxSecs => ParsesDecimal(x)
  BY <1>1, TypedParses
<1>3. IsFull(x.mod, at)
  BY DEF IsFull
<1> HIDE DEF at, f
<1>4. first = IfFits(value)
  <2>1. CompleteDay(x.day, x.mod, at, TRUE) = x.day
    BY <1>2, <1>3 DEF CompleteDay
  <2> QED BY <1>2, <2>1, ComposeFits
<1> HIDE DEF first
<1>5. ParseEnd(x, start) = IF ~ParsesDecimal(x) THEN Bad
                           ELSE IF first.r = 0 /\ first.out < start THEN Before ELSE first
  BY <1>3 DEF ParseEnd, ParseDecimalEnd, first, at, f
<1>6. MaxSecs \in Nat /\ DayLength \in Nat \ {0} /\ x.day * DayLength \in Int
  BY <1>2, SecsAssumption, DayAssumption, Product
<1>7. value \in Int
  BY <1>2, <1>6
<1> HIDE DEF value
<1>8. CASE value > MaxSecs
  <2>1. ~(value <= MaxSecs)
    BY <1>6, <1>7, <1>8
  <2>2. first = Bad /\ first.r # 0
    BY <1>4, <2>1 DEF IfFits, Bad
  <2>3. ParseEnd(x, start) = Bad
    BY <1>5, <2>2
  <2> QED BY <1>8, <2>3 DEF value, f
<1>9. CASE value <= MaxSecs
  <2>1. x.day <= x.day * DayLength
    BY <1>2, <1>6
  <2>2. x.day <= MaxSecs
    BY <1>2, <1>6, <1>9, <2>1 DEF value
  <2>3. first = Good(value)
    BY <1>4, <1>9 DEF IfFits
  <2>4. first.r = 0 /\ first.out = value /\ ~(value > MaxSecs)
    BY <1>6, <1>7, <1>9, <2>3 DEF Good
  <2>5. ParsesDecimal(x)
    BY <1>2, <2>2
  <2>6. ParseEnd(x, start) = IF value < start THEN Before ELSE Good(value)
    BY <1>5, <2>3, <2>4, <2>5, Zenon
  <2> QED BY <2>4, <2>6 DEF value, f
<1>10. value <= MaxSecs \/ value > MaxSecs
  BY <1>6, <1>7
<1> QED BY <1>8, <1>9, <1>10 DEF value, f

LEMMA EndUnfinished ==
  ASSUME NEW x \in Typed, x.form = "decimal", NEW start \in Secs, start >= 0,
         FracSecs(x) < DayLength, ~(x.mod > Day(start) /\ x.mod > 1)
  PROVE  ParseEnd(x, start) = IfFits(Min({v \in Means(x) : v >= start}))
PROOF
<1> DEFINE at == Day(start)
           f  == FracSecs(x)
           n1 == CompleteDay(x.day, x.mod, at, TRUE)
           n2 == CompleteDay(x.day, x.mod, at + 1, TRUE)
           v1 == n1 * DayLength + f
           v2 == n2 * DayLength + f
<1>1. at \in Nat /\ at <= Days /\ start \in Int /\ start <= MaxSecs
  BY DayInRange, SecsAssumption DEF Secs
<1>2. /\ x.day \in Nat /\ x.mod \in Nat \ {0} /\ f \in Nat /\ ParsesDecimal(x)
  BY <1>1, TypedParses
<1>3. Unfinished(x.day, x.mod, at) /\ (x.mod <= at \/ x.mod = 1)
  BY <1>1, TypedUnfinished
<1> HIDE DEF at, f
<1>4. ~(x.mod > 1 /\ IsFull(x.mod, at)) /\ Unfinished(x.day, x.mod, at + 1)
  BY <1>1, <1>2, <1>3 DEF Unfinished, IsFull
<1>5. x.mod <= Days \/ x.mod = 1
  BY <1>1, <1>2, <1>3, DaysBracket
<1>6. at + 1 \in Nat /\ at <= Days + 1 /\ at + 1 <= Days + 1
  BY <1>1, DaysBracket
<1>7. n1 \in Nat /\ n1 \in EndsIn(x) /\ n1 >= at /\ \A d \in EndsIn(x) : d >= at => n1 <= d
  BY <1>1, <1>3, <1>5, <1>6, CompletedInReference
<1>8. n2 \in Nat /\ n2 \in EndsIn(x) /\ n2 >= at + 1 /\ \A d \in EndsIn(x) : d >= at + 1 => n2 <= d
  BY <1>4, <1>5, <1>6, CompletedInReference
<1>9. ParseEnd(x, start) = LET first == Compose(n1, f)
                           IN IF first.r = 0 /\ first.out < start THEN Compose(n2, f) ELSE first
  BY <1>2, <1>4 DEF ParseEnd, ParseDecimalEnd, at, f
<1>10. Compose(n1, f) = IfFits(v1) /\ Compose(n2, f) = IfFits(v2)
  BY <1>2, <1>7, <1>8, ComposeFits
<1> HIDE DEF n1, n2
<1>11. EndsIn(x) \subseteq Int /\ DayLength \in Nat
  BY DayAssumption DEF EndsIn
<1>12. v1 \in Int /\ v2 \in Int
  BY <1>2, <1>7, <1>8, <1>11, Product
<1>13. \A d \in EndsIn(x) : /\ d < at => d * DayLength + f < start
                            /\ d > at => d * DayLength + f >= start
  BY <1>1, <1>2, <1>11, EarlierDay DEF at, f
<1>14. \A d \in EndsIn(x) : d * DayLength + f \in Int
  BY <1>2, <1>11, Product
<1>15. CASE v1 >= start
  <2>1. ASSUME NEW d \in EndsIn(x), d * DayLength + f >= start PROVE n1 <= d
    <3>1. d * DayLength + f \in Int
      BY <1>14
    <3>2. ~(d < at)
      BY <1>1, <1>13, <2>1, <3>1
    <3> QED BY <1>1, <1>7, <1>11, <3>2
  <2>2. Min({v \in Means(x) : v >= start}) = v1
    BY <1>1, <1>2, <1>7, <1>15, <2>1, MeansOrder DEF f
  <2>3. IfFits(v1).r = 0 => IfFits(v1).out = v1
    BY DEF IfFits, Good, Bad
  <2>4. ~(v1 < start)
    BY <1>1, <1>12, <1>15
  <2> HIDE DEF v1
  <2>5. ParseEnd(x, start) = IfFits(v1)
    BY <1>9, <1>10, <2>3, <2>4
  <2> QED BY <2>2, <2>5
<1>16. CASE v1 < start
  <2>1. IfFits(v1) = Good(v1)
    BY <1>1, <1>12, <1>16, SecsAssumption DEF IfFits
  <2>2. ParseEnd(x, start) = IfFits(v2)
    BY <1>9, <1>10, <1>16, <2>1 DEF Good
  <2>3. v2 >= start
    BY <1>1, <1>7, <1>8, <1>13
  <2>4. ASSUME NEW d \in EndsIn(x), d * DayLength + f >= start PROVE n2 <= d
    <3>1. d * DayLength + f \in Int /\ d \in Int
      BY <1>11, <1>14
    <3>2. ~(d < at)
      BY <1>1, <1>13, <2>4, <3>1
    <3>3. d # at
      <4>1. SUFFICES ASSUME d = at PROVE FALSE
        OBVIOUS
      <4>2. n1 = d
        BY <1>1, <1>7, <3>1, <4>1
      <4> QED BY <1>1, <1>12, <1>16, <2>4, <4>2
    <3> QED BY <1>1, <1>8, <3>1, <3>2, <3>3
  <2>5. Min({v \in Means(x) : v >= start}) = v2
    BY <1>1, <1>2, <1>8, <2>3, <2>4, MeansOrder DEF f
  <2> QED BY <2>2, <2>5
<1> QED BY <1>1, <1>12, <1>15, <1>16

\* As long as the zone is z, mktime has no choice.
LEMMA SteadyUnixTime ==
  ASSUME NEW t \in Int, NEW z \in Offsets, NEW local \in Int,
         \A u \in (t - 2 * CivilDay)..(t + 3 * CivilDay) : Zone(u) = z,
         local - z - t \in (1 - CivilDay)..(2 * CivilDay - 1)
  PROVE  UnixTime(local) = local - z /\ OnClock(local - z) = local
PROOF
<1> USE CivilAssumption
<1>1. z \in Int /\ CivilDay \in Nat \ {0}
  OBVIOUS
<1>2. ASSUME NEW o \in Offsets
      PROVE  /\ o \in Int /\ local - o \in (t - 2 * CivilDay)..(t + 3 * CivilDay)
             /\ OnClock(local - o) = local => o = z
  <2>1. o \in Int /\ o - z < CivilDay /\ z - o < CivilDay
    BY OffsetsAssumption
  <2>2. local - o \in (t - 2 * CivilDay)..(t + 3 * CivilDay)
    BY <1>1, <2>1
  <2>3. Zone(local - o) = z
    BY <2>2
  <2>4. OnClock(local - o) = local - o + z
    BY <2>3 DEF OnClock
  <2> QED BY <1>1, <2>1, <2>2, <2>4
<1>3. Zone(local - z) = z
  BY <1>2
<1>4. OnClock(local - z) = local
  BY <1>1, <1>3 DEF OnClock
<1>5. \A u \in UnixTimes(local) : u = local - z
  <2> DEFINE all == {local - o : o \in Offsets}
             shown == {u \in all : OnClock(u) = local}
  <2>1. local - z \in shown
    BY <1>4
  <2>2. UnixTimes(local) = shown
    BY <2>1 DEF UnixTimes
  <2>3. \A u \in shown : u = local - z
    BY <1>2
  <2> HIDE DEF shown
  <2> QED BY <2>2, <2>3
<1>6. UnixTime(local) \in UnixTimes(local)
  BY UnixTimeIsOne
<1> QED BY <1>4, <1>5, <1>6

\* A time of day on the date of at, or on the next, in a zone that is steady.
LEMMA ClockShows ==
  ASSUME NEW at \in Secs, SteadyAround(at), NEW days \in {0, 1},
         NEW secs \in 0..(CivilDay - 1), ClockOn(at, days, secs).r = 0
  PROVE  LET c == Epoch + Zone(at + Epoch)
             p == (at + c) \div CivilDay
             out == ClockOn(at, days, secs).out
         IN /\ c \in Int /\ p \in Int /\ out \in Int
            /\ p * CivilDay <= at + c /\ at + c < p * CivilDay + CivilDay
            /\ out = (p + days) * CivilDay + secs - c
            /\ OnClock(out + Epoch) % CivilDay = secs
PROOF
<1> USE CivilAssumption, SecsAreInts
<1> DEFINE t == at + Epoch
           z == Zone(t)
           c == Epoch + z
           p == (at + c) \div CivilDay
           local == (p + days) * CivilDay + secs
           out == ClockOn(at, days, secs).out
           q == OnClock(t) \div CivilDay
           there == (q + days) * CivilDay + secs
<1>1. at \in Int /\ t \in Int /\ CivilDay \in Nat \ {0} /\ secs \in Nat /\ secs < CivilDay /\ days \in Int
  OBVIOUS
<1>2. /\ t \in Civil /\ q \in Int /\ there \in Int /\ OnClock(t) \in Int
      /\ OnClock(t) < q * CivilDay + CivilDay /\ q * CivilDay <= OnClock(t)
      /\ out \in Secs /\ out = UnixTime(there) - Epoch
  BY <1>1, ClockOnShows
<1>3. z \in Offsets
  BY <1>2, Zenon DEF Civil
<1>4. z \in Int
  BY <1>3
<1>5. OnClock(t) = at + c
  <2>1. OnClock(t) = t + z
    BY DEF OnClock
  <2> HIDE DEF z
  <2> QED BY <1>1, <1>4, <2>1
<1>6. q = p /\ there = local
  BY <1>5
<1>7. \A u \in (t - 2 * CivilDay)..(t + 3 * CivilDay) : Zone(u) = z
  BY DEF SteadyAround
<1>8. c \in Int /\ at + c = t + z
  <2> HIDE DEF z
  <2> QED BY <1>1, <1>4
<1>9. /\ p \in Int /\ local \in Int
      /\ p * CivilDay <= at + c /\ at + c < p * CivilDay + CivilDay
  BY <1>2, <1>5, <1>6
<1> HIDE DEF z, c, p, q, there, out
<1>10. p * CivilDay \in Int /\ p + 0 = p /\ (p + 1) * CivilDay = p * CivilDay + CivilDay
  BY <1>1, <1>9, Product, NextMultiple
<1>11. local - z - t \in (1 - CivilDay)..(2 * CivilDay - 1)
  BY <1>1, <1>4, <1>8, <1>9, <1>10
<1> HIDE DEF t
<1>12. UnixTime(local) = local - z /\ OnClock(local - z) = local
  BY <1>1, <1>3, <1>7, <1>9, <1>11, SteadyUnixTime
<1>13. out \in Int /\ out = local - c /\ out + Epoch = local - z
  <2>1. out = local - z - Epoch
    BY <1>2, <1>6, <1>12
  <2> HIDE DEF local
  <2> QED BY <1>4, <1>9, <2>1 DEF c
<1>14. OnClock(out + Epoch) % CivilDay = secs
  <2>1. p + days \in Int /\ secs \in 0..(CivilDay - 1)
    BY <1>1, <1>9
  <2>2. local % CivilDay = secs
    BY <1>1, <2>1, RemainderIs
  <2> QED BY <1>12, <1>13, <2>2
<1> QED BY <1>8, <1>9, <1>13, <1>14 DEF c, p, out, z, t

\* HH:MM on the date of at is less than a day from it, on the next date not before it.
LEMMA ClockNear ==
  ASSUME NEW at \in Secs, SteadyAround(at), NEW days \in {0, 1},
         NEW secs \in 0..(CivilDay - 1), ClockOn(at, days, secs).r = 0
  PROVE  LET out == ClockOn(at, days, secs).out
         IN /\ out \in Int
            /\ days = 0 => out - at < CivilDay
            /\ days = 1 => /\ out >= at
                           /\ \/ out - at < CivilDay
                              \/ (ClockOn(at, 0, secs).r = 0 => ClockOn(at, 0, secs).out >= at)
PROOF
<1> DEFINE c == Epoch + Zone(at + Epoch)
           p == (at + c) \div CivilDay
           out == ClockOn(at, days, secs).out
           before == ClockOn(at, 0, secs)
<1>1. CivilDay \in Nat \ {0} /\ secs \in Int /\ 0 <= secs /\ secs < CivilDay /\ at \in Int
  BY CivilAssumption, SecsAreInts
<1>2. /\ c \in Int /\ p \in Int /\ out \in Int
      /\ p * CivilDay <= at + c /\ at + c < p * CivilDay + CivilDay
      /\ out = (p + days) * CivilDay + secs - c
  BY ClockShows
<1>3. before.r = 0 => before.out = (p + 0) * CivilDay + secs - c
  BY ClockShows, 0 \in {0, 1}
<1> HIDE DEF c, p, out, before
<1>4. p * CivilDay \in Int /\ p + 0 = p /\ (p + 1) * CivilDay = p * CivilDay + CivilDay
  BY <1>1, <1>2, Product, NextMultiple
<1>5. CASE days = 0
  BY <1>1, <1>2, <1>4, <1>5 DEF out
<1>6. CASE days = 1
  <2>1. out = p * CivilDay + CivilDay + secs - c
    BY <1>1, <1>2, <1>4, <1>6
  <2>2. out >= at /\ (out - at < CivilDay \/ (before.r = 0 => before.out >= at))
    BY <1>1, <1>2, <1>3, <1>4, <2>1
  <2> QED BY <1>2, <1>6, <2>2 DEF out, before
<1> QED BY <1>5, <1>6

LEMMA ClockEndFirst ==
  ASSUME NEW x \in Typed, x.form = "clock", NEW start \in Secs, SteadyAround(start),
         ParseEnd(x, start).r = 0
  PROVE  LET out == ParseEnd(x, start).out
         IN /\ out >= start /\ out - start < CivilDay
            /\ OnClock(out + Epoch) % CivilDay = x.frac
PROOF
<1> DEFINE today == ClockOn(start, 0, x.frac)
           next  == ClockOn(start, 1, x.frac)
<1>1. x.frac \in 0..(CivilDay - 1) /\ start \in Int
  <2>1. x.frac \in Nat /\ x.frac < CivilDay
    BY InputsAssumption DEF Text
  <2> QED BY <2>1, CivilAssumption, SecsAreInts
<1>2. 0 \in {0, 1} /\ 1 \in {0, 1}
  OBVIOUS
<1>3. ParseEnd(x, start) = IF today.r = 0 /\ today.out < start THEN next ELSE today
  BY DEF ParseEnd, ParseClockEnd
<1>4. CASE today.r = 0 /\ today.out < start
  <2>1. ParseEnd(x, start) = next /\ next.r = 0
    BY <1>3, <1>4
  <2>2. OnClock(next.out + Epoch) % CivilDay = x.frac
    BY <1>1, <1>2, <2>1, ClockShows
  <2>3. /\ next.out \in Int /\ next.out >= start
        /\ \/ next.out - start < CivilDay
           \/ today.r = 0 => today.out >= start
    BY <1>1, <1>2, <2>1, ClockNear
  <2>4. today.out \in Int
    BY <1>4, ClockOnInRange, SecsAreInts
  <2> HIDE DEF today, next
  <2>5. next.out - start < CivilDay
    BY <1>1, <1>4, <2>3, <2>4
  <2> QED BY <2>1, <2>2, <2>3, <2>5
<1>5. CASE ~(today.r = 0 /\ today.out < start)
  <2>1. ParseEnd(x, start) = today /\ today.r = 0
    BY <1>3, <1>5
  <2>2. OnClock(today.out + Epoch) % CivilDay = x.frac
    BY <1>1, <1>2, <2>1, ClockShows
  <2>3. today.out \in Int /\ today.out - start < CivilDay
    BY <1>1, <1>2, <2>1, ClockNear
  <2> HIDE DEF today
  <2>4. today.out >= start
    BY <1>1, <1>5, <2>1, <2>3
  <2> QED BY <2>1, <2>2, <2>3, <2>4
<1> QED BY <1>4, <1>5

-----------------------------------------------------------------------------
(* The calls: CheckInv says what the variables hold after each.            *)

CheckInv ==
  /\ TypeOK
  /\ op = "parse_stamp" => ref \in Instants /\ text \in Typed /\ result = ParseStamp(text, ref)
  /\ op = "parse_end"   => ref \in Instants /\ text \in Typed /\ result = ParseEnd(text, ref)
  /\ op \in {"print_read", "print_range"} => printed \in Instants /\ text = FmtStamp(printed)
  /\ op = "print_read"  => ref \in Instants /\ result = ParseStamp(text, ref)
  /\ op = "print_range" => \E start \in Instants :
       /\ start <= printed
       /\ ref = ParseStamp(FmtStamp(start), start).out
       /\ result = ParseEnd(text, ref)

LEMMA OutcomeTypes ==
  ASSUME NEW x, NEW at
  PROVE  /\ ParseStamp(x, at).r \in {0, -1, -2} /\ ParseStamp(x, at).out \in Secs
         /\ ParseEnd(x, at).r \in {0, -1, -2} /\ ParseEnd(x, at).out \in Secs
PROOF
<1>1. 0 \in Secs
  BY SecsAssumption DEF Secs
<1>2. /\ Bad.r = -1 /\ Bad.out \in Secs /\ Before.r = -2 /\ Before.out \in Secs
      /\ \A v : Narrow(v).r \in {0, -1} /\ Narrow(v).out \in Secs
  BY <1>1 DEF Bad, Before, Narrow, Good
<1> DEFINE Narrowed(w) == w = Bad \/ \E v : w = Narrow(v)
<1>3. \A days : Narrowed(ClockOn(at, days, x.frac))
  <2>1. ASSUME NEW u PROVE Narrowed(FromTime(u))
    BY DEF FromTime, Sub
  <2> HIDE DEF Narrowed
  <2>2. Narrowed(Bad)
    BY DEF Narrowed
  <2> QED BY <2>1, <2>2, Zenon DEF ClockOn
<1>4. ParseStamp(x, at).r \in {0, -1, -2} /\ ParseStamp(x, at).out \in Secs
  <2>1. Narrowed(ParseStamp(x, at))
    BY <1>3, Zenon DEF ParseStamp, Compose
  <2> QED BY <1>2, <2>1
<1>5. ParseEnd(x, at).r \in {0, -1, -2} /\ ParseEnd(x, at).out \in Secs
  <2>1. \/ ParseEnd(x, at) \in {Bad, Before, ClockOn(at, 0, x.frac), ClockOn(at, 1, x.frac)}
        \/ \E n : ParseEnd(x, at) = Compose(n, FracSecs(x))
    BY DEF ParseEnd, ParseClockEnd, ParseDecimalEnd
  <2>2. ParseEnd(x, at) \in {Bad, Before} \/ \E v : ParseEnd(x, at) = Narrow(v)
    BY <1>3, <2>1 DEF Compose
  <2> QED BY <1>2, <2>2
<1> QED BY <1>4, <1>5

LEMMA InitCheckInv == Init => CheckInv
PROOF
<1> SUFFICES ASSUME Init PROVE CheckInv
  OBVIOUS
<1>1. op = "none" /\ ref = 0 /\ text = Junk /\ result = Bad /\ printed = 0
  BY DEF Init
<1>2. 0 \in Secs /\ Junk \in Text
  BY SecsAssumption DEF Secs, Junk, Text
<1> QED BY <1>1, <1>2 DEF CheckInv, TypeOK, Bad

LEMMA NextCheckInv == CheckInv /\ [Next]_vars => CheckInv'
PROOF
<1> SUFFICES ASSUME CheckInv, [Next]_vars PROVE CheckInv'
  OBVIOUS
<1>1. Instants \subseteq Secs /\ Instants \subseteq Int /\ Typed \subseteq Text
      /\ \A s \in Instants : FmtStamp(s) \in Text
  BY InputsAssumption, SecsAreInts, FmtStampType
<1>2. CASE CallParseStamp
  <2>1. PICK now \in Instants, x \in Typed :
          /\ op' = "parse_stamp" /\ ref' = now /\ text' = x
          /\ result' = ParseStamp(x, now) /\ printed' = printed
    BY <1>2 DEF CallParseStamp
  <2>2. result'.r \in {0, -1, -2} /\ result'.out \in Secs
    BY <2>1, OutcomeTypes
  <2> QED BY <1>1, <2>1, <2>2 DEF CheckInv, TypeOK
<1>3. CASE CallParseEnd
  <2>1. PICK start \in Instants, x \in Typed :
          /\ op' = "parse_end" /\ ref' = start /\ text' = x
          /\ result' = ParseEnd(x, start) /\ printed' = printed
    BY <1>3 DEF CallParseEnd
  <2>2. result'.r \in {0, -1, -2} /\ result'.out \in Secs
    BY <2>1, OutcomeTypes
  <2> QED BY <1>1, <2>1, <2>2 DEF CheckInv, TypeOK
<1>4. CASE CallPrintRead
  <2>1. PICK s \in Instants, now \in Instants :
          /\ op' = "print_read" /\ ref' = now /\ text' = FmtStamp(s)
          /\ result' = ParseStamp(FmtStamp(s), now) /\ printed' = s
    BY <1>4 DEF CallPrintRead
  <2>2. result'.r \in {0, -1, -2} /\ result'.out \in Secs
    BY <2>1, OutcomeTypes
  <2> QED BY <1>1, <2>1, <2>2 DEF CheckInv, TypeOK
<1>5. CASE CallPrintRange
  <2>1. PICK start \in Instants, end \in Instants :
          /\ start <= end /\ op' = "print_range" /\ text' = FmtStamp(end) /\ printed' = end
          /\ ref' = ParseStamp(FmtStamp(start), start).out
          /\ result' = ParseEnd(FmtStamp(end), ParseStamp(FmtStamp(start), start).out)
    BY <1>5 DEF CallPrintRange
  <2>2. result'.r \in {0, -1, -2} /\ result'.out \in Secs /\ ref' \in Secs
    BY <2>1, OutcomeTypes
  <2> QED BY <1>1, <2>1, <2>2 DEF CheckInv, TypeOK
<1>6. CASE UNCHANGED vars
  BY <1>6 DEF vars, CheckInv, TypeOK
<1> QED BY <1>2, <1>3, <1>4, <1>5, <1>6 DEF Next

THEOREM CheckInvariance == Spec => []CheckInv
PROOF BY InitCheckInv, NextCheckInv, PTL DEF Spec

\* Whatever instant and text a call is made with, what the library returns is
\* a code of its own and an instant in range.
THEOREM CallsTyped == Spec => []TypeOK
PROOF
<1>1. CheckInv => TypeOK
  BY DEF CheckInv
<1> QED BY <1>1, CheckInvariance, PTL

\* A decimal stamp with digits missing is completed to the most recent day up to
\* today that ends in them, or with '+' to the first from today on, for every day
\* length, range, clock and text (complete_day, dk_parse_stamp).
THEOREM StampsCompleteNearest == Spec => []CompletionIsNearest
PROOF
<1>1. ASSUME CheckInv PROVE CompletionIsNearest
  <2>1. CASE op = "parse_stamp" /\ text.form = "decimal" /\ Day(ref) >= 0
    <3>1. ref \in Secs /\ text \in Typed /\ result = ParseStamp(text, ref)
      BY <1>1, <2>1, InputsAssumption DEF CheckInv
    <3> QED BY <2>1, <3>1, StampIsNearest DEF CompletionIsNearest
  <2> QED BY <2>1 DEF CompletionIsNearest
<1> QED BY <1>1, CheckInvariance, PTL

\* A range END is the first instant not before START that its text can mean,
\* and a full day number before START is refused (dk_parse_end).
THEOREM DecimalEndsComeFirst == Spec => []EndIsFirst
PROOF
<1>1. ASSUME CheckInv PROVE EndIsFirst
  <2>1. CASE op = "parse_end" /\ text.form = "decimal" /\ ref >= 0 /\ FracSecs(text) < DayLength
    <3>1. ref \in Secs /\ text \in Typed /\ result = ParseEnd(text, ref)
      BY <1>1, <2>1, InputsAssumption DEF CheckInv
    <3>2. text.mod \in Int /\ Day(ref) \in Int
      BY <3>1, InputsAssumption, DayInRange DEF Text
    <3>3. CASE text.mod > Day(ref) /\ text.mod > 1
      BY <2>1, <3>1, <3>3, EndFull DEF EndIsFirst
    <3>4. CASE ~(text.mod > Day(ref) /\ text.mod > 1)
      BY <2>1, <3>1, <3>4, EndUnfinished DEF EndIsFirst
    <3> QED BY <3>3, <3>4
  <2> QED BY <2>1 DEF EndIsFirst
<1> QED BY <1>1, CheckInvariance, PTL

\* A clock END is the first instant not before START at which the civil clock
\* shows that time, in every zone that does not change in the days around START,
\* whatever it does elsewhere, and for every epoch (clock_on, dk_parse_end).
THEOREM ClockEndsComeFirst == Spec => []ClockEndIsFirst
PROOF
<1>1. ASSUME CheckInv PROVE ClockEndIsFirst
  <2>1. CASE op = "parse_end" /\ text.form = "clock" /\ result.r = 0
    <3>1. ref \in Secs /\ text \in Typed /\ result = ParseEnd(text, ref)
      BY <1>1, <2>1, InputsAssumption DEF CheckInv
    <3> QED BY <2>1, <3>1, ClockEndFirst DEF ClockEndIsFirst
  <2> QED BY <2>1 DEF ClockEndIsFirst
<1> QED BY <1>1, CheckInvariance, PTL

\* A printed stamp is read back as the instant printed, to within half a tick
\* and half a second, and prints as the same text again (dk_fmt_stamp,
\* dk_parse_stamp).
THEOREM PrintsAreStable == Spec => []PrintIsStable
PROOF
<1>1. ASSUME CheckInv, op = "print_read", printed >= 0, result.r = 0, text.mod > Day(ref)
      PROVE  /\ 2 * TicksPerDay * (result.out - printed) \in
                  -(DayLength + TicksPerDay)..(DayLength + TicksPerDay)
             /\ FmtStamp(result.out) = text
  <2> DEFINE t == Ticks(printed)
             v == Instant(t)
  <2>1. /\ printed \in Secs /\ ref \in Secs /\ printed \in Int
        /\ text = FmtStamp(printed) /\ result = ParseStamp(text, ref)
    BY <1>1, InputsAssumption, SecsAreInts DEF CheckInv
  <2>2. result = Good(v)
    <3>1. result = Bad \/ result = Good(v)
      BY <1>1, <2>1, ReadsLiterally
    <3> QED BY <1>1, <3>1 DEF Bad
  <2>3. result.out = v
    BY <2>2 DEF Good
  <2>4. Ticks(v) = t
    BY <2>1, TicksAgain
  <2>5. FmtStamp(v) = FmtStamp(printed)
    BY <2>4 DEF FmtStamp
  <2>6. t \in Int /\ 2 * (t * DayLength - printed * TicksPerDay) \in (1 - DayLength)..DayLength
    BY <2>1, TicksNear
  <2> HIDE DEF t
  <2>7. v \in Int /\ 2 * (v * TicksPerDay - t * DayLength) \in (1 - TicksPerDay)..TicksPerDay
    BY <2>6, InstantNear
  <2> HIDE DEF v
  <2> DEFINE tl == t * DayLength
             vt == v * TicksPerDay
             pt == printed * TicksPerDay
  <2>8. tl \in Int /\ vt \in Int /\ pt \in Int /\ DayLength \in Nat /\ TicksPerDay \in Nat
    BY <2>1, <2>6, <2>7, DayAssumption, Product
  <2>9. 2 * TicksPerDay * (v - printed) = 2 * (vt - pt)
    BY <2>1, <2>7, DayAssumption
  <2>10. 2 * (tl - pt) \in (1 - DayLength)..DayLength /\ 2 * (vt - tl) \in (1 - TicksPerDay)..TicksPerDay
    BY <2>6, <2>7
  <2> HIDE DEF tl, vt, pt
  <2>11. 2 * (vt - pt) \in -(DayLength + TicksPerDay)..(DayLength + TicksPerDay)
    BY <2>8, <2>10
  <2> QED BY <2>1, <2>3, <2>5, <2>9, <2>11
<1>2. CheckInv => PrintIsStable
  BY <1>1 DEF PrintIsStable
<1> QED BY <1>2, CheckInvariance, PTL

\* A printed range START - END, read as a line of a log, is never refused as
\* END before START, and END prints as the same text again, however the two round
\* (dk_fmt_stamp, dk_parse_stamp, dk_parse_end).
THEOREM PrintedRangesRead == Spec => []PrintedRangeReads
PROOF
<1>1. ASSUME CheckInv, op = "print_range", ref >= 0
      PROVE  result.r # -2 /\ (result.r = 0 => FmtStamp(result.out) = text)
  <2>1. PICK start \in Instants :
          /\ start <= printed /\ printed \in Instants /\ text = FmtStamp(printed)
          /\ ref = ParseStamp(FmtStamp(start), start).out
          /\ result = ParseEnd(text, ref)
    BY <1>1 DEF CheckInv
  <2> DEFINE ts == Ticks(start)
             te == Ticks(printed)
             vs == Instant(ts)
             ve == Instant(te)
             x  == FmtStamp(printed)
             y  == FmtStamp(start)
  <2>2. start \in Secs /\ printed \in Secs /\ start \in Int /\ printed \in Int /\ ref \in Secs
    BY <1>1, <2>1, InputsAssumption, SecsAreInts DEF CheckInv, TypeOK
  <2>3. ts \in Int /\ te \in Int /\ ts <= te
    BY <2>1, <2>2, TicksNear, RoundingKeepsOrder
  <2>4. vs \in Int /\ ve \in Int /\ vs <= ve
    BY <2>3, InstantNear, RoundingKeepsOrder
  <2>5. /\ x.day \in Int /\ x.day <= Days + 1 /\ Day(printed) <= x.day
        /\ x.day >= 0 => x.mod > x.day /\ x.mod > 1
        /\ (x.day >= 0) <=> (te >= 0)
        /\ FracSecs(x) \in Nat /\ x.day * DayLength + FracSecs(x) = ve
        /\ TicksPerDay <= DayLength => FracSecs(x) < DayLength
        /\ x.mod \in Nat
    <3>1. x \in Text
      BY <2>2, FmtStampType
    <3> QED BY <2>2, <3>1, Printed DEF Text
  <2>6. /\ y.day \in Int /\ Day(start) <= y.day /\ Day(start) \in Int
        /\ y.day >= 0 => y.mod > y.day /\ y.mod > 1
        /\ y.mod \in Nat
    <3>1. y \in Text /\ Day(start) \in Int
      BY <2>2, FmtStampType, DayInRange
    <3> QED BY <2>2, <3>1, Printed DEF Text
  <2>7. ref = 0 \/ ref = vs
    <3>1. CASE y.mod > Day(start) \/ Day(start) < 0
      <4>1. ParseStamp(y, start) = Bad \/ ParseStamp(y, start) = Good(vs)
        BY <2>2, <3>1, ReadsLiterally
      <4> QED BY <2>1, <4>1 DEF Good, Bad
    <3>2. y.mod > Day(start) \/ Day(start) < 0
      BY <2>6
    <3> QED BY <3>1, <3>2
  <2>8. FmtStamp(ve) = x
    BY <2>2, TicksAgain DEF FmtStamp
  <2>9. DayLength <= TicksPerDay => ve = printed
    BY <2>2, TicksAgain
  <2>10. CASE te < 0
    <3>1. ~ParsesDecimal(x) /\ x.form = "decimal"
      <4>1. x.form = "decimal"
        BY <2>2, Printed
      <4> HIDE DEF x, te
      <4>2. ~(x.day >= 0)
        BY <2>3, <2>5, <2>10
      <4> QED BY <2>5, <4>1, <4>2 DEF ParsesDecimal
    <3>2. result = Bad
      BY <2>1, <3>1 DEF ParseEnd
    <3> QED BY <3>2 DEF Bad
  <2>11. CASE te >= 0
    <3>1. Instant(0) = 0 /\ 0 <= te
      BY <2>3, <2>11, InstantOfDayZero
    <3>2. Instant(0) <= ve
      BY <2>3, <3>1, RoundingKeepsOrder
    <3>3. ref \in Int /\ ref <= ve
      BY <2>2, <2>4, <2>7, <3>1, <3>2, SecsAreInts
    <3>4. Day(ref) \in Int
      BY <2>2, DayInRange
    <3>5. Day(ref) <= x.day
      <4>1. CASE DayLength <= TicksPerDay
        <5>1. Day(ref) <= Day(printed)
          BY <2>2, <2>9, <3>3, <4>1, DayMonotone
        <5>2. Day(printed) \in Int
          BY <2>2, DayInRange
        <5> QED BY <2>5, <3>4, <5>1, <5>2
      <4>2. CASE TicksPerDay <= DayLength
        <5>1. x.day < Day(ref) => ve < ref
          BY <2>5, <3>3, <4>2, EarlierDay
        <5> HIDE DEF x, ve
        <5> QED BY <2>4, <2>5, <3>3, <3>4, <5>1
      <4> QED BY <4>1, <4>2, DayAssumption
    <3>6. x.mod > Day(ref)
      <4> HIDE DEF x, te, ve
      <4> QED BY <2>3, <2>5, <2>11, <3>4, <3>5
    <3>7. ~(ve < ref)
      <4> HIDE DEF ve
      <4> QED BY <2>4, <3>3
    <3>8. result = Bad \/ result = Good(ve)
      BY <2>1, <2>2, <3>6, <3>7, ReadsLiterally
    <3> QED BY <2>1, <2>8, <3>8 DEF Bad, Good
  <2> QED BY <2>3, <2>10, <2>11
<1>2. CheckInv => PrintedRangeReads
  BY <1>1 DEF PrintedRangeReads
<1> QED BY <1>2, CheckInvariance, PTL

=============================================================================
