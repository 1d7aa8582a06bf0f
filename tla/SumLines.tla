------------------------------ MODULE SumLines ------------------------------
(***************************************************************************)
(* The ranges of a line as sum mode means them, by their positions, with   *)
(* no automaton: what Sum is compared with, and what LogReadBack reads     *)
(* from a tracker's LOG.  A line is a sequence of tokens, stamps (Text of  *)
(* DkTime) and dashes.                                                     *)
(***************************************************************************)
EXTENDS DkTime, Sequences

VARIABLE now    \* t_now

Dash == [Junk EXCEPT !.form = "dash"]

StartOf(l, k) == ParseStamp(l[3 * k - 2], now)
EndOf(l, k)   == ParseEnd(l[3 * k], StartOf(l, k).out)

\* Tokens 3k - 2 .. 3k of l are a range.
IsRange(l, k) ==
  /\ Len(l) >= 3 * k
  /\ l[3 * k - 2] # Dash /\ l[3 * k - 1] = Dash /\ l[3 * k] # Dash
  /\ StartOf(l, k).r = 0 /\ EndOf(l, k).r = 0

\* The ranges before the first error.
Ranges(l) == CHOOSE n \in 0..Len(l) :
  (\A k \in 1..n : IsRange(l, k)) /\ ~IsRange(l, n + 1)

\* After them there is an open range that has begun, and nothing else.
HasOpen(l) ==
  LET n == Ranges(l)
  IN /\ Len(l) = 3 * n + 2 /\ l[3 * n + 1] # Dash /\ l[3 * n + 2] = Dash
     /\ StartOf(l, n + 1).r = 0 /\ StartOf(l, n + 1).out <= now

Durations(l) ==
  [k \in 1..(Ranges(l) + (IF HasOpen(l) THEN 1 ELSE 0)) |->
     (IF k <= Ranges(l) THEN EndOf(l, k).out ELSE now) - StartOf(l, k).out]

IsGood(l) == Len(l) = 3 * Ranges(l) \/ HasOpen(l)

=============================================================================
