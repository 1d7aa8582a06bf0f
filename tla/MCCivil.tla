------------------------------ MODULE MCCivil -------------------------------
(* Days of 24 seconds; the zone is 3 seconds ahead of UTC up to Unix time 46,  *)
(* then 1: local times from 47 to 48, past midnight, are shown twice.        *)
EXTENDS CivilCheck

MCMinSecs == -100
MCZone(u) == IF u < 46 THEN 3 ELSE 1
=============================================================================
