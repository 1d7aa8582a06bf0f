------------------------------ MODULE Recursion ------------------------------
(***************************************************************************)
(* Induction over an interval of integers, and recursive functions on it:  *)
(* what the proofs about sums and totals rest on.                          *)
(***************************************************************************)
EXTENDS Integers, Sequences, WellFoundedInduction, TLAPS

\* A nonempty set of naturals has a least one.
LEMMA LeastOf ==
  ASSUME NEW T, T \subseteq Nat, T # {}
  PROVE  \E x \in T : \A y \in T : x <= y
PROOF
<1> DEFINE R == OpToRel(<, Nat)
<1>1. IsWellFoundedOn(R, Nat)
  BY NatLessThanWellFounded
<1>2. \A x, y \in Nat : y < x => <<y, x>> \in R
  BY DEF OpToRel
<1> HIDE DEF R
<1>3. PICK x \in T : \A y \in T : ~(<<y, x>> \in R)
  BY <1>1, WFMin
<1>4. ASSUME NEW y \in T PROVE x <= y
  <2>1. x \in Nat /\ y \in Nat /\ ~(<<y, x>> \in R)
    BY <1>3
  <2>2. ~(y < x)
    BY <1>2, <2>1
  <2> QED BY <2>1, <2>2
<1> QED BY <1>4

\* Induction, for a set of the numbers that have a property.
LEMMA SetInduction ==
  ASSUME NEW S, 0 \in S, \A n \in Nat : n \in S => n + 1 \in S
  PROVE  Nat \subseteq S
PROOF
<1> SUFFICES ASSUME Nat \ S # {} PROVE FALSE
  OBVIOUS
<1>1. PICK x \in Nat \ S : \A y \in Nat \ S : x <= y
  BY LeastOf
<1>2. x - 1 \in Nat /\ x - 1 \notin S
  BY <1>1
<1> QED BY <1>1, <1>2

LEMMA IntervalInduction ==
  ASSUME NEW lo \in Int, NEW hi \in Int, NEW S, lo \in S,
         \A n \in (lo + 1)..hi : n - 1 \in S => n \in S
  PROVE  \A n \in lo..hi : n \in S
PROOF
<1> DEFINE T == {k \in Nat : lo + k <= hi => lo + k \in S}
<1>1. 0 \in T
  OBVIOUS
<1>2. ASSUME NEW k \in Nat, k \in T PROVE k + 1 \in T
  <2> SUFFICES ASSUME lo + (k + 1) <= hi PROVE lo + (k + 1) \in S
    OBVIOUS
  <2> DEFINE n == lo + (k + 1)
  <2>1. n \in (lo + 1)..hi /\ n - 1 = lo + k /\ lo + k <= hi
    OBVIOUS
  <2>2. n - 1 \in S
    BY <1>2, <2>1
  <2> HIDE DEF n
  <2>3. n \in S
    BY <2>1, <2>2
  <2> QED BY <2>3 DEF n
<1> HIDE DEF T
<1>3. Nat \subseteq T
  BY <1>1, <1>2, SetInduction
<1> SUFFICES ASSUME NEW n \in lo..hi PROVE n \in S
  OBVIOUS
<1>4. n - lo \in Nat /\ lo + (n - lo) = n /\ n <= hi
  OBVIOUS
<1>5. n - lo \in T
  BY <1>3, <1>4
<1> QED BY <1>4, <1>5 DEF T

\* There is a function that has the value a at lo, and at each n from next = lo + 1
\* on the value that h gives it from the one before.
HasFunction(lo, next, hi, S, a, h) ==
  \E f \in [lo..hi -> S] : f[lo] = a /\ \A n \in next..hi : f[n] = h[<<n, f[n - 1]>>]

\* f and g go on alike from next on; they are alike.
GoAlike(f, g, next, hi) == \A n \in next..hi : f[n - 1] = g[n - 1] => f[n] = g[n]
Alike(f, g, lo, hi) == \A n \in lo..hi : f[n] = g[n]

LEMMA RecursiveFunction ==
  ASSUME NEW lo \in Int, NEW hi \in Int, lo <= hi,
         NEW next \in Int, lo < next, next <= lo + 1,
         NEW S, NEW a \in S, NEW h \in [(next..hi) \X S -> S]
  PROVE  HasFunction(lo, next, hi, S, a, h)
PROOF
<1> DEFINE Upto(m) == {f \in [lo..m -> S] : f[lo] = a /\ \A n \in next..m : f[n] = h[<<n, f[n - 1]>>]}
           T == {m \in lo..hi : Upto(m) # {}}
<1>1. lo \in T
  <2>1. [n \in lo..lo |-> a] \in Upto(lo)
    OBVIOUS
  <2>2. lo \in lo..hi
    OBVIOUS
  <2> HIDE DEF Upto
  <2> QED BY <2>1, <2>2
<1>2. ASSUME NEW m \in next..hi, m - 1 \in T PROVE m \in T
  <2>1. PICK f \in Upto(m - 1) : TRUE
    BY <1>2
  <2> DEFINE g == [n \in lo..m |-> IF n = m THEN h[<<m, f[m - 1]>>] ELSE f[n]]
  <2>2. f \in [lo..(m - 1) -> S] /\ f[lo] = a /\ m - 1 \in lo..(m - 1)
        /\ \A n \in next..(m - 1) : f[n] = h[<<n, f[n - 1]>>]
    BY <2>1
  <2>3. f[m - 1] \in S /\ <<m, f[m - 1]>> \in (next..hi) \X S
    BY <2>2
  <2>4. h[<<m, f[m - 1]>>] \in S
    <3> DEFINE p == <<m, f[m - 1]>>
    <3>1. p \in (next..hi) \X S
      BY <2>3
    <3> HIDE DEF p
    <3>2. h[p] \in S
      BY <3>1
    <3> QED BY <3>2 DEF p
  <2>5. g \in [lo..m -> S]
    <3>1. ASSUME NEW n \in lo..m PROVE (IF n = m THEN h[<<m, f[m - 1]>>] ELSE f[n]) \in S
      <4>1. n # m => n \in lo..(m - 1)
        OBVIOUS
      <4> QED BY <2>2, <2>4, <4>1
    <3> QED BY <3>1
  <2>6. \A n \in lo..(m - 1) : g[n] = f[n]
    OBVIOUS
  <2>7. g[m] = h[<<m, f[m - 1]>>]
    OBVIOUS
  <2> HIDE DEF g
  <2>8. g[lo] = a
    BY <2>2, <2>6
  <2>9. ASSUME NEW n \in next..m PROVE g[n] = h[<<n, g[n - 1]>>]
    <3>1. n - 1 \in lo..(m - 1) /\ (n = m \/ n \in next..(m - 1))
      OBVIOUS
    <3>2. g[n - 1] = f[n - 1]
      BY <2>6, <3>1
    <3>3. CASE n = m
      BY <2>7, <3>2, <3>3
    <3>4. CASE n \in next..(m - 1)
      <4>1. n \in lo..(m - 1)
        BY <3>4
      <4> QED BY <2>2, <2>6, <3>2, <3>4, <4>1
    <3> QED BY <3>1, <3>3, <3>4
  <2> QED BY <2>5, <2>8, <2>9
<1> HIDE DEF T
<1>3. hi \in T
  BY <1>1, <1>2, IntervalInduction
<1> QED BY <1>3 DEF T, HasFunction

\* Two functions that begin alike and go on alike are alike.
LEMMA SameRecursion ==
  ASSUME NEW lo \in Int, NEW hi \in Int, NEW next \in Int, lo < next, next <= lo + 1,
         NEW f, NEW g, f[lo] = g[lo], GoAlike(f, g, next, hi)
  PROVE  Alike(f, g, lo, hi)
PROOF
<1> DEFINE T == {n \in lo..hi : f[n] = g[n]} \union {lo}
<1>1. \A n \in next..hi : n - 1 \in T => n \in T
  BY DEF GoAlike
<1>2. lo \in T
  OBVIOUS
<1> HIDE DEF T
<1>3. \A n \in lo..hi : n \in T
  BY <1>1, <1>2, IntervalInduction
<1> QED BY <1>3 DEF T, Alike

-----------------------------------------------------------------------------
(* Sequences.                                                              *)

\* What Append makes.
LEMMA AppendIs ==
  ASSUME NEW S, NEW q \in Seq(S), NEW e \in S
  PROVE  /\ Append(q, e) \in Seq(S) /\ Len(Append(q, e)) = Len(q) + 1 /\ Len(q) \in Nat
         /\ \A i \in 1..Len(q) : Append(q, e)[i] = q[i]
         /\ Append(q, e)[Len(q) + 1] = e
PROOF OBVIOUS

\* Concatenation is associative, with a last element.
LEMMA ConcatAppend ==
  ASSUME NEW S, NEW p \in Seq(S), NEW q \in Seq(S), NEW e \in S
  PROVE  p \o Append(q, e) = Append(p \o q, e)
PROOF
<1>1. p \o q \in Seq(S) /\ Append(q, e) \in Seq(S) /\ Len(p) \in Nat /\ Len(q) \in Nat
      /\ Len(Append(q, e)) = Len(q) + 1 /\ Len(p \o q) = Len(p) + Len(q)
  OBVIOUS
<1> DEFINE a == p \o Append(q, e)
           b == Append(p \o q, e)
<1>2. a \in Seq(S) /\ b \in Seq(S) /\ Len(a) = Len(p) + Len(q) + 1 /\ Len(b) = Len(p) + Len(q) + 1
  BY <1>1
<1>3. ASSUME NEW i \in 1..(Len(p) + Len(q) + 1) PROVE a[i] = b[i]
  <2>1. CASE i <= Len(p)
    BY <1>1, <2>1
  <2>2. CASE i > Len(p) /\ i <= Len(p) + Len(q)
    BY <1>1, <2>2
  <2>3. CASE i = Len(p) + Len(q) + 1
    BY <1>1, <2>3
  <2> QED BY <1>1, <2>1, <2>2, <2>3
<1> HIDE DEF a, b
<1>4. a = b
  BY <1>1, <1>2, <1>3
<1> QED BY <1>4 DEF a, b

=============================================================================
