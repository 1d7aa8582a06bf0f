----------------------------- MODULE CivilCheck -----------------------------
(***************************************************************************)
(* A range with a clock time for END, read in a zone whose offset changes: *)
(* one call of dk_parse_end, at any START, for any time of day.            *)
(***************************************************************************)
EXTENDS CivilClock

CONSTANTS Starts,   \* the instants a range may start at
          Times     \* the times of day, in seconds

VARIABLES start, text, result
vars == <<start, text, result>>

Init == start \in Starts /\ text = Junk /\ result = Bad

CallParseEnd ==
  /\ text = Junk
  /\ \E t \in Times : text' = Clock(t) /\ result' \in ParseTimeEnd(Clock(t), start, FALSE)
  /\ UNCHANGED start

Next == CallParseEnd
Spec == Init /\ [][Next]_vars

\* The clock of the zone shows that time of day.
Shows(s, time) == Local(s + Epoch, FALSE) % CivilDay = time

\* An END that the clock shows is "the first matching time not before START"
\* (daykeep.c:99-100; dk_parse_end, clock_on), also on the day an hour repeats.
EndIsFirstShown ==
  text # Junk /\ result.r = 0 /\ Shows(result.out, text.frac) =>
    /\ result.out >= start
    /\ \A s \in start..(result.out - 1) : ~Shows(s, text.frac)

=============================================================================
