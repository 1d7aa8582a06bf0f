----------------------------- MODULE MCTracker ------------------------------
(* Instances of Tracker for TLC: days of 2 seconds, printed to the second,   *)
(* civil days of 4.  The clock is turned back from 2 seconds ahead of UTC to   *)
(* none at Unix time 3, over midnight: local times 3 and 4 are shown twice, and *)
(* mktime takes the first.                                                     *)
EXTENDS LogReadBack, TLC

Symmetry == Permutations(Trackers)

Neg3 == -3
Neg8 == -8

MCZone(u) == IF u < 3 THEN 2 ELSE 0
MCGuess(local) == 2

Whole(d, f) == Decimal(FALSE, 10, d, f)
Entry(a, b) == <<Stamped(a), Mark("dash"), Stamped(b)>>

\* LOG as a first session may find it: empty; an older entry with its newline;
\* a line without one; an open entry with a blank line after it.
CoreLogs == {<<>>, <<Mark("text")>>,
             Entry(Whole(0, 0), Whole(1, 1)) \o <<Mark("nl")>>,
             <<Mark("text"), Mark("nl"), Stamped(Whole(1, 1)), Mark("open"), Mark("nl")>>}
CoreForeign == {<<Mark("text")>>, <<Stamped(Decimal(FALSE, 1, 0, 1)), Mark("dash")>>}
CoreTyped == {Whole(3, 1), Whole(9, 0), Clock(0), Junk}

WriteLogs == {<<>>, <<Mark("text")>>}
TextLog == {<<Mark("text")>>}
WriteTyped == {Whole(3, 1)}
WriteGarbled == {Junk}

\* A clock set before day 0, and totals that pass MaxSecs = 3 in two entries.
PlainClock == {-3, 0, 2, 3}
PlainTyped == {Decimal(FALSE, 1, 0, 1), Decimal(TRUE, 10, 1, 0), Whole(9, 0),
               Whole(0, 0), Clock(0), Clock(1), Junk}

=============================================================================
