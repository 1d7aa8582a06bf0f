------------------------------- MODULE MCSum --------------------------------
(* Inputs for Sum: days of 3 seconds and 2 ticks, so that ticks and seconds  *)
(* round; totals past MaxSecs in two or three ranges.  The clock is turned   *)
(* back at Unix time 7, over midnight of civil days of 4 seconds.            *)
EXTENDS Sum

Neg3 == -3

MCZone(u) == IF u < 7 THEN 2 ELSE 0
MCGuess(local) == 2

\* 0.0, .5 and no stamp; midnight, which as an END of .5 is read as a second before.
SumWords == {Decimal(FALSE, 10, 0, 0), Decimal(FALSE, 1, 0, 1), Clock(0), Junk}
SumCommands == {<<"stdin">>, <<"operands", "file">>, <<"file", "file">>}
=============================================================================
