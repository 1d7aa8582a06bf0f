----------------------------- MODULE MCCommand ------------------------------
(* Inputs for Command: civil days of 8 seconds, in a zone 4 seconds behind   *)
(* UTC that is 2 seconds less behind for a while in 2000, ahead in 1970, and  *)
(* no whole minutes (of 2 seconds) from UTC from 2001 on.                     *)
EXTENDS Command

Stamp(mod, day, frac) ==
  [form |-> "decimal", plus |-> FALSE, mod |-> mod, day |-> day, frac |-> frac]
Time(secs) == [form |-> "clock", plus |-> FALSE, mod |-> 1, day |-> 0, frac |-> secs]
NoStamp    == [form |-> "junk", plus |-> FALSE, mod |-> 1, day |-> 0, frac |-> 0]

Date(y, m, d, secs) ==
  [full |-> TRUE, year |-> y, month |-> m, day |-> d, secs |-> secs, zoned |-> FALSE, off |-> 0]
DateAt(y, m, d, secs, off) == [Date(y, m, d, secs) EXCEPT !.zoned = TRUE, !.off = off]

MCMinSecs == -500000
Y2000     == 8 * 10957
MCZone(u) == IF u < 100 THEN 2
             ELSE IF u \in (Y2000 + 8)..(Y2000 + 16) THEN -2
             ELSE IF u < Y2000 + 3000 THEN -4 ELSE -3
MCOffsets == {-4, -3, -2, 2}

MCEpochs   == {Date(1999, 12, 31, 3), DateAt(2000, 1, 1, 0, -2), Date(1900, 2, 29, 0)}
\* Among them local times that the zone skips and repeats, and Unix time -1.
MCOperands == {Stamp(1, 0, 1), NoStamp, Time(3),
               Date(2000, 2, 29, 1), Date(2000, 1, 1, 5), Date(2000, 1, 2, 5), Date(1970, 1, 1, 1), Date(1900, 2, 29, 0),
               DateAt(2000, 1, 2, 5, 2), Date(2000, 4, 31, 0)}
               \union {Stamp(100000, d, f) : d \in {0, 1, 2, 3}, f \in {0, 1}}
               \union {Stamp(100000, 400, 0), Stamp(100000, 20000, 0), [Date(1999, 12, 31, 3) EXCEPT !.full = FALSE]}
MCNowTexts == {Stamp(10, 2, 0), Stamp(1, 0, 1)}
MCClocks   == {Y2000 + 12}
\* These stand for the years of four digits; day 20000 is after them.
MCYears    == 1900..2030

=============================================================================
