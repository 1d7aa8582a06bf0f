------------------------------ MODULE MCDkTime ------------------------------
(* Inputs for DkTimeCheck: 25 seconds to a day of 10 ticks, so that seconds  *)
(* fall between ticks, days 0 to 120 around the changes in digit count, and  *)
(* texts of 0 to 3 day digits.                                               *)
EXTENDS DkTimeCheck

MCMinSecs == -60

\* Summer time in between: local times are skipped at 300 and repeated at 2600.
MCZone(u) == IF u \in 300..2599 THEN 4 ELSE 0
MCGuess(local) == 4

MCDays == {0, 1, 9, 10, 11, 19, 99, 100, 101, 119, 120}
MCInstants == {d * DayLength + o : d \in MCDays, o \in {0, 1, 2, 12, 13, 23, 24}}
              \union {-1, -26, MaxSecs}

MCTyped ==
  {Decimal(p, 1, 0, f) : p \in BOOLEAN, f \in {0, 5, 9}}
  \union {Decimal(p, 10, d, f) : p \in BOOLEAN, d \in {0, 1, 9}, f \in {0, 4, 5, 9}}
  \union {Decimal(p, 100, d, f) : p \in BOOLEAN, d \in {0, 1, 10, 20, 99}, f \in {0, 5}}
  \union {Decimal(p, 1000, d, f) : p \in BOOLEAN, d \in {9, 100, 120, 121}, f \in {0, 9}}
  \union {Clock(s) : s \in {0, 1, 8, 15}} \union {Junk}
=============================================================================
