------------------------------ MODULE LogFile -------------------------------
(***************************************************************************)
(* What daykeep --track -a LOG promises of LOG, as the head of             *)
(* src/src/track.c and the manual put it: a session of one owner at a time *)
(* is a list of stamps that changes at its end only, LOG is the lines that *)
(* were there followed by that list whenever the owner is done writing,    *)
(* and the lines that were there never change.  How LOG is written, and    *)
(* what is in it meanwhile or after a failure, is left open.               *)
(***************************************************************************)
EXTENDS Integers, Sequences

CONSTANTS Owners, NoOwner,
  Stamps,         \* what a stamp can be
  Text(_, _),     \* a list of stamps as lines; after a newline or not
  EndsLine(_),    \* does a cell end a line?
  IsEndOf(_, _),  \* can a stamp be the END of a START?
  IsOpen(_, _)    \* after its first b cells, LOG has an open entry, its last

VARIABLES log, owner,
  kept,           \* the cells of LOG that were there
  list,           \* the owner's stamps: START and END in turn
  current         \* LOG shows the list

vars == <<log, owner, kept, list, current>>

Init == owner = NoOwner /\ kept = 0 /\ list = <<>> /\ current = TRUE

\* The lines that were there, and those of a list.
Shows(l) ==
  SubSeq(log, 1, kept) \o Text(l, kept > 0 /\ ~EndsLine(log[kept]))

\* A session takes over the open entry at the end of LOG, or starts after it.
Begin ==
  /\ owner = NoOwner /\ owner' \in Owners
  /\ \/ kept' = Len(log) /\ list' = <<>>
     \/ /\ kept' \in 0..Len(log) /\ IsOpen(log, kept')
        /\ \E s \in Stamps : list' = <<s>>
  /\ current' = TRUE
  /\ UNCHANGED log

Push    == \E s \in Stamps : list' = Append(list, s)
Pop     == list # <<>> /\ list' = SubSeq(list, 1, Len(list) - 1)
Replace == list # <<>> /\ \E s \in Stamps : list' = [list EXCEPT ![Len(list)] = s]

\* The last stamp is added, removed or replaced (or LOG is to be written anew);
\* an END is always one of its START.
Change ==
  /\ owner # NoOwner
  /\ Push \/ Pop \/ Replace \/ UNCHANGED list
  /\ \A i \in 1..Len(list') : i % 2 = 0 => IsEndOf(list'[i], list'[i - 1])
  /\ current' = FALSE
  /\ UNCHANGED <<log, owner, kept>>

\* LOG is being written: anything, after what was there.
Write ==
  /\ owner # NoOwner /\ ~current
  /\ Len(log') >= kept /\ SubSeq(log', 1, kept) = SubSeq(log, 1, kept)
  /\ UNCHANGED <<owner, kept, list, current>>

\* It is written.
Settle ==
  /\ owner # NoOwner /\ ~current
  /\ log' = Shows(list)
  /\ current' = TRUE
  /\ UNCHANGED <<owner, kept, list>>

\* The session ends, or its process does.
End ==
  /\ owner # NoOwner /\ owner' = NoOwner
  /\ kept' = 0 /\ list' = <<>> /\ current' = TRUE
  /\ UNCHANGED log

\* Other programs append to LOG between sessions.
Foreign ==
  /\ owner = NoOwner
  /\ Len(log') >= Len(log) /\ SubSeq(log', 1, Len(log)) = log
  /\ UNCHANGED <<owner, kept, list, current>>

Next == Begin \/ Change \/ Write \/ Settle \/ End \/ Foreign
Spec == Init /\ [][Next]_vars

=============================================================================
