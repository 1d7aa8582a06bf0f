----------------------------- MODULE TrackerLog -----------------------------
(***************************************************************************)
(* Tracker implements LogFile.  Its owner is the tracker whose log_open is *)
(* over; that tracker's list is the owner's, and LOG shows it when no      *)
(* log_write is in progress and the last one did not fail.                 *)
(***************************************************************************)
EXTENDS Tracker

Owner == IF lock # NoTracker /\ InSession(lock) THEN lock ELSE NoTracker

Kept  == IF Owner = NoTracker THEN 0 ELSE base[Owner]
List  == IF Owner = NoTracker THEN <<>> ELSE stamps[Owner]
Shown == IF Owner = NoTracker THEN TRUE ELSE pc[Owner] # "write" /\ ~logErr[Owner]

Promise == INSTANCE LogFile WITH
  Owners <- Appenders, NoOwner <- NoTracker, Stamps <- Secs,
  Text <- LogText, IsOpen <- OpenEntryAt,
  log <- file, owner <- Owner, kept <- Kept, list <- List, current <- Shown

\* The trackers keep the promise of track.c:20-25: however their steps, their
\* writes, failures and crashes interleave, LOG goes only through the states
\* of LogFile, and after every write it shows the list of its one owner.
KeepsPromise == Promise!Spec

=============================================================================
