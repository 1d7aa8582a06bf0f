------------------------------ MODULE Tracker -------------------------------
(***************************************************************************)
(* daykeep --track: src/src/track.c.  Tracker processes, each a loop of    *)
(* render, key and handler, and the LOG file that those run with -a LOG    *)
(* share and lock.                                                         *)
(*                                                                         *)
(* LOG is a sequence of cells, the pieces log_write prints: a stamp, " - ",*)
(* " -\n" (kind "open"), a newline, and "text" for any other line content. *)
(* A stamp prints in a fixed width and " - " is as wide as " -\n", so that *)
(* cells written over older cells of the session replace them one by one.  *)
(* Offsets (base, done) count cells.                                       *)
(*                                                                         *)
(* A pwrite may be short (ShortWrites) and may stop inside a stamp, which  *)
(* then reads as a text of Garbled.  clock_now() may return any of         *)
(* Instants: the system clock can be set back.  Bounds: MaxStamps stamps   *)
(* in a session, which starts only on a LOG of at most MaxLog cells.       *)
(***************************************************************************)
EXTENDS DkTime, Sequences

CONSTANTS Trackers, NoTracker,
  Appenders,      \* the trackers started with -a LOG
  Instants,       \* what clock_now() can return
  Typed,          \* what the edit line can hold at Enter
  InitialLogs,    \* LOG before the first session
  ForeignLines,   \* what other programs append to LOG between sessions
  Garbled,        \* what a stamp written in part can read as
  ShortWrites,    \* may pwrite write less than it was asked to?
  MaxStamps, MaxLog

ASSUME TrackersAssumption == Appenders \subseteq Trackers /\ NoTracker \notin Trackers
ASSUME InputsAssumption ==
  Instants \subseteq Secs /\ Typed \subseteq Text /\ Garbled \subseteq Text
ASSUME BoundsAssumption ==
  ShortWrites \in BOOLEAN /\ MaxStamps \in Nat /\ MaxLog \in Nat

Kinds == {"stamp", "dash", "open", "nl", "text"}
Cell  == [k : Kinds, x : Text]

ASSUME LogsAssumption ==
  InitialLogs \subseteq Seq(Cell) /\ ForeignLines \subseteq Seq(Cell)

Mark(kind)   == [k |-> kind, x |-> Junk]
Stamped(x)   == [k |-> "stamp", x |-> x]
EndsLine(c)  == c.k \in {"nl", "open"}

VARIABLES
  file,       \* LOG
  lock,       \* the tracker that holds flock(LOG), or NoTracker
  pc,         \* where each tracker is; "off": no process
  mode,       \* who called key(): the "main" loop or "edit" (edit_last)
  stamps,     \* starts at odd positions, ends at even ones
  base,       \* log_base: cells of LOG before this session's lines
  nl,         \* log_nl: LOG lacked a final newline
  wrote,      \* a log_write of this session has succeeded
  logErr,     \* log_errno # 0: the last log_write failed
  readErr,    \* read_errno # 0
  caught,     \* a signal was caught
  msg,        \* the status line, shown once
  saving,     \* the log_write in progress was called by save()
  done,       \* cells that log_write has written so far
  exited      \* how the last tracker to end ended, until another starts

logVars   == <<base, nl, wrote, logErr>>
inputVars == <<readErr, caught>>
writeVars == <<saving, done>>
vars == <<file, lock, pc, mode, stamps, logVars, inputVars, msg, writeVars, exited>>

Idle == {"render", "keys", "toread", "read", "exit"}
Pcs  == {"off", "load", "write"} \union Idle
Msgs == {"none", "resumed", "cannot_write", "saved", "nolog", "future", "range",
         "before", "invalid", "cancelled"}

-----------------------------------------------------------------------------
(* The session's lines.                                                    *)

\* Mutant of LinesLen: the dash of an open entry is left to its END.
LinesLenNoDash(n) == 4 * (n \div 2) + (n % 2)

\* How many cells n stamps print as.
LinesLen(n) == 4 * (n \div 2) + 2 * (n % 2)

Lines(st) == [p \in 1..LinesLen(Len(st)) |->
  LET first == 2 * ((p - 1) \div 4) + 1     \* the entry's START
  IN CASE p % 4 = 1 -> Stamped(FmtStamp(st[first]))
       [] p % 4 = 2 -> Mark(IF first < Len(st) THEN "dash" ELSE "open")
       [] p % 4 = 3 -> Stamped(FmtStamp(st[first + 1]))
       [] p % 4 = 0 -> Mark("nl")]

\* What log_write writes at log_base.
LogText(st, newline) ==
  IF newline /\ st # <<>> THEN <<Mark("nl")>> \o Lines(st) ELSE Lines(st)

\* f after cells a+1..b of text were written where text starts, at offset off.
Overlay(f, off, text, a, b) ==
  [i \in 1..(IF off + b > Len(f) THEN off + b ELSE Len(f)) |->
     IF i - off \in (a + 1)..b THEN text[i - off] ELSE f[i]]

\* The last line of f, after its first b cells, is an open entry "START -",
\* blank lines after it or not.
OpenEntryAt(f, b) ==
  /\ b + 2 <= Len(f)
  /\ b > 0 => EndsLine(f[b])
  /\ f[b + 1].k = "stamp" /\ f[b + 2].k \in {"dash", "open"}
  /\ \A i \in (b + 3)..Len(f) : f[i].k = "nl"

-----------------------------------------------------------------------------
(* The checked total of the durations, as fits_total adds it up.           *)

CheckedTotal(st) ==
  LET sum[k \in 0..Len(st)] ==
        IF k = 0 THEN Good(0)
        ELSE IF k % 2 = 1 \/ sum[k - 1].r # 0 THEN sum[k - 1]
        ELSE IF Sub(st[k], st[k - 1]).r # 0 THEN Bad
        ELSE Add(sum[k - 1].out, Sub(st[k], st[k - 1]).out)
  IN sum[Len(st)]

\* Mutant of FitsTotal: each duration is checked, their sum is not.
FitsDurations(st) ==
  \A k \in 1..Len(st) : k % 2 = 0 => Sub(st[k], st[k - 1]).r = 0

FitsTotal(st) == CheckedTotal(st).r = 0

-----------------------------------------------------------------------------
(* Starting.                                                               *)

Init ==
  /\ file \in InitialLogs
  /\ lock = NoTracker
  /\ pc = [t \in Trackers |-> "off"]
  /\ mode = [t \in Trackers |-> "main"]
  /\ stamps = [t \in Trackers |-> <<>>]
  /\ base = [t \in Trackers |-> 0]
  /\ nl = [t \in Trackers |-> FALSE]
  /\ wrote = [t \in Trackers |-> FALSE]
  /\ logErr = [t \in Trackers |-> FALSE]
  /\ readErr = [t \in Trackers |-> FALSE]
  /\ caught = [t \in Trackers |-> FALSE]
  /\ msg = [t \in Trackers |-> "none"]
  /\ saving = [t \in Trackers |-> FALSE]
  /\ done = [t \in Trackers |-> 0]
  /\ exited = "none"

\* The process is gone, and with it its memory and its lock.
Ends(t, how) ==
  /\ exited' = how
  /\ lock' = IF lock = t THEN NoTracker ELSE lock
  /\ pc' = [pc EXCEPT ![t] = "off"]
  /\ mode' = [mode EXCEPT ![t] = "main"]
  /\ stamps' = [stamps EXCEPT ![t] = <<>>]
  /\ base' = [base EXCEPT ![t] = 0]
  /\ nl' = [nl EXCEPT ![t] = FALSE]
  /\ wrote' = [wrote EXCEPT ![t] = FALSE]
  /\ logErr' = [logErr EXCEPT ![t] = FALSE]
  /\ readErr' = [readErr EXCEPT ![t] = FALSE]
  /\ caught' = [caught EXCEPT ![t] = FALSE]
  /\ msg' = [msg EXCEPT ![t] = "none"]
  /\ saving' = [saving EXCEPT ![t] = FALSE]
  /\ done' = [done EXCEPT ![t] = 0]
  /\ UNCHANGED file

\* track() without -a LOG.
StartPlain(t) ==
  /\ pc[t] = "off" /\ t \notin Appenders
  /\ pc' = [pc EXCEPT ![t] = "render"]
  /\ exited' = "none"
  /\ UNCHANGED <<file, lock, mode, stamps, logVars, inputVars, msg, writeVars>>

\* Mutant of OpenLog: the lock is not asked for.
OpenLogUnlocked(t) ==
  /\ pc[t] = "off" /\ t \in Appenders /\ Len(file) <= MaxLog
  /\ lock' = t
  /\ pc' = [pc EXCEPT ![t] = "load"]
  /\ exited' = "none"
  /\ UNCHANGED <<file, mode, stamps, logVars, inputVars, msg, writeVars>>

\* log_open: open and flock LOG.
OpenLog(t) ==
  /\ pc[t] = "off" /\ t \in Appenders /\ Len(file) <= MaxLog
  /\ lock = NoTracker
  /\ lock' = t
  /\ pc' = [pc EXCEPT ![t] = "load"]
  /\ exited' = "none"
  /\ UNCHANGED <<file, mode, stamps, logVars, inputVars, msg, writeVars>>

\* open fails, or another tracker holds the lock: exit(EXIT_TROUBLE).
OpenLogFails(t) ==
  /\ pc[t] = "off" /\ t \in Appenders
  /\ Ends(t, "trouble")

\* log_open: the last line of LOG is an open entry, which becomes ours.
Resume(t) ==
  /\ pc[t] = "load"
  /\ \E b \in 0..Len(file), now \in Instants :
       /\ OpenEntryAt(file, b)
       /\ LET start == ParseStamp(file[b + 1].x, now)
          IN start.r = 0 /\ stamps' = [stamps EXCEPT ![t] = <<start.out>>]
       /\ base' = [base EXCEPT ![t] = b]
  /\ msg' = [msg EXCEPT ![t] = "resumed"]
  /\ pc' = [pc EXCEPT ![t] = "render"]
  /\ UNCHANGED <<file, lock, mode, nl, wrote, logErr, inputVars, writeVars, exited>>

\* Mutant of LoadAtEnd: a missing final newline is not noticed.
LoadAtEndNoNewline(t) ==
  /\ pc[t] = "load"
  /\ \A b \in 0..Len(file) : ~OpenEntryAt(file, b)
  /\ base' = [base EXCEPT ![t] = Len(file)]
  /\ pc' = [pc EXCEPT ![t] = "render"]
  /\ UNCHANGED <<file, lock, mode, stamps, nl, wrote, logErr, inputVars, msg,
                 writeVars, exited>>

\* log_open: it is not, and this session's lines go to the end.
LoadAtEnd(t) ==
  /\ pc[t] = "load"
  /\ \E now \in Instants : \A b \in 0..Len(file) :
       OpenEntryAt(file, b) => ParseStamp(file[b + 1].x, now).r # 0
  /\ base' = [base EXCEPT ![t] = Len(file)]
  /\ nl' = [nl EXCEPT ![t] = file # <<>> /\ ~EndsLine(file[Len(file)])]
  /\ pc' = [pc EXCEPT ![t] = "render"]
  /\ UNCHANGED <<file, lock, mode, stamps, wrote, logErr, inputVars, msg,
                 writeVars, exited>>

\* log_open: fstat or pread fails.
LoadFails(t) == pc[t] = "load" /\ Ends(t, "trouble")

-----------------------------------------------------------------------------
(* The key loop.  A handler ends at pc "render", the head of the loop.     *)

\* render: show the screen and the status line, once, and wait for a key.
Render(t) ==
  /\ pc[t] = "render"
  /\ msg' = [msg EXCEPT ![t] = "none"]
  /\ pc' = [pc EXCEPT ![t] = "keys"]
  /\ UNCHANGED <<file, lock, mode, stamps, logVars, inputVars, writeVars, exited>>

\* key() returned -1: the main loop ends; edit_last gives up and returns to it.
NoKey(t) ==
  /\ pc' = [pc EXCEPT ![t] = IF mode[t] = "edit" THEN "render" ELSE "exit"]
  /\ mode' = [mode EXCEPT ![t] = "main"]

\* Mutant of CheckCaught: the flag is not looked at.
CheckNothing(t) ==
  /\ pc[t] = "keys"
  /\ pc' = [pc EXCEPT ![t] = "toread"]
  /\ UNCHANGED <<file, lock, mode, stamps, logVars, inputVars, msg, writeVars, exited>>

\* key: has a signal been caught?
CheckCaught(t) ==
  /\ pc[t] = "keys"
  /\ \/ caught[t] /\ NoKey(t)
     \/ ~caught[t] /\ pc' = [pc EXCEPT ![t] = "toread"] /\ UNCHANGED mode
  /\ UNCHANGED <<file, lock, stamps, logVars, inputVars, msg, writeVars, exited>>

\* key: the read begins, and blocks until a key, the end of input or a signal.
EnterRead(t) ==
  /\ pc[t] = "toread"
  /\ pc' = [pc EXCEPT ![t] = "read"]
  /\ UNCHANGED <<file, lock, mode, stamps, logVars, inputVars, msg, writeVars, exited>>

EndOfInput(t) ==
  /\ pc[t] = "read" /\ NoKey(t)
  /\ UNCHANGED <<file, lock, stamps, logVars, inputVars, msg, writeVars, exited>>

ReadFails(t) ==
  /\ pc[t] = "read" /\ NoKey(t)
  /\ readErr' = [readErr EXCEPT ![t] = TRUE]
  /\ UNCHANGED <<file, lock, stamps, logVars, caught, msg, writeVars, exited>>

\* on_signal, in a blocked read: no SA_RESTART, so the read gives EINTR and
\* key() loops.  Anywhere else in the key loop the flag alone is set.
Signal(t) ==
  /\ pc[t] \in Idle \union {"write"} /\ (~caught[t] \/ pc[t] = "read")
  /\ caught' = [caught EXCEPT ![t] = TRUE]
  /\ pc' = [pc EXCEPT ![t] = IF pc[t] = "read" THEN "keys" ELSE pc[t]]
  /\ UNCHANGED <<file, lock, mode, stamps, logVars, readErr, msg, writeVars, exited>>

MainKey(t) == pc[t] = "read" /\ mode[t] = "main"
EditKey(t) == pc[t] = "read" /\ mode[t] = "edit"

\* log_write is called: it returns at once when there is no LOG.
LogWrite(t) == pc' = [pc EXCEPT ![t] = IF t \in Appenders THEN "write" ELSE "render"]

\* A handler that leaves the stamps alone, with a message.
Says(t, m) ==
  /\ msg' = [msg EXCEPT ![t] = m]
  /\ pc' = [pc EXCEPT ![t] = "render"]
  /\ UNCHANGED stamps

-----------------------------------------------------------------------------
(* Handlers.                                                               *)

LastStamp(t) == stamps[t][Len(stamps[t])]

\* Mutant of StampNow: the clock is believed.
StampClock(t, now) == now

\* stamp: an END is never before its START.
StampNow(t, now) ==
  IF Len(stamps[t]) % 2 = 1 /\ now < LastStamp(t) THEN LastStamp(t) ELSE now

Stamp(t) ==
  /\ MainKey(t) /\ Len(stamps[t]) < MaxStamps
  /\ \E now \in Instants :
       LET s   == StampNow(t, now)
           new == Append(stamps[t], s)
       IN \/ /\ FitsTotal(new)
             /\ stamps' = [stamps EXCEPT ![t] = new]
             /\ msg' = [msg EXCEPT ![t] = IF s # now THEN "future" ELSE msg[t]]
             /\ LogWrite(t)
          \/ ~FitsTotal(new) /\ Says(t, "range")
  /\ UNCHANGED <<file, lock, mode, logVars, inputVars, writeVars, exited>>

Remove(t) ==
  /\ MainKey(t) /\ stamps[t] # <<>>
  /\ stamps' = [stamps EXCEPT ![t] = SubSeq(stamps[t], 1, Len(stamps[t]) - 1)]
  /\ LogWrite(t)
  /\ UNCHANGED <<file, lock, mode, logVars, inputVars, msg, writeVars, exited>>

Save(t) ==
  /\ MainKey(t)
  /\ \/ /\ t \in Appenders
        /\ saving' = [saving EXCEPT ![t] = TRUE]
        /\ LogWrite(t) /\ UNCHANGED <<msg, stamps>>
     \/ t \notin Appenders /\ Says(t, "nolog") /\ UNCHANGED saving
  /\ UNCHANGED <<file, lock, mode, logVars, inputVars, done, exited>>

\* q, ^C and ^D.
Quit(t) ==
  /\ MainKey(t)
  /\ pc' = [pc EXCEPT ![t] = "exit"]
  /\ UNCHANGED <<file, lock, mode, stamps, logVars, inputVars, msg, writeVars, exited>>

\* Any other key, and x and e with no stamp.
OtherKey(t) ==
  /\ MainKey(t)
  /\ pc' = [pc EXCEPT ![t] = "render"]
  /\ UNCHANGED <<file, lock, mode, stamps, logVars, inputVars, msg, writeVars, exited>>

\* edit_last: the edit line, which key() fills.
Edit(t) ==
  /\ MainKey(t) /\ stamps[t] # <<>>
  /\ mode' = [mode EXCEPT ![t] = "edit"]
  /\ pc' = [pc EXCEPT ![t] = "keys"]
  /\ UNCHANGED <<file, lock, stamps, logVars, inputVars, msg, writeVars, exited>>

EditType(t) ==
  /\ EditKey(t)
  /\ pc' = [pc EXCEPT ![t] = "keys"]
  /\ UNCHANGED <<file, lock, mode, stamps, logVars, inputVars, msg, writeVars, exited>>

EditCancel(t) ==
  /\ EditKey(t) /\ Says(t, "cancelled")
  /\ mode' = [mode EXCEPT ![t] = "main"]
  /\ UNCHANGED <<file, lock, logVars, inputVars, writeVars, exited>>

\* What edit_last reads the line as: a stamp, or an END of the stamp above it.
EditedTo(t, x, now) ==
  IF Len(stamps[t]) = 1 THEN ParseStamp(x, now)
  ELSE ParseEnd(x, stamps[t][Len(stamps[t]) - 1])

\* Enter in the edit line, which was prefilled with the stamp as printed.
EditEnter(t) ==
  /\ EditKey(t)
  /\ \E x \in Typed \union {FmtStamp(LastStamp(t))}, now \in Instants :
       LET v   == EditedTo(t, x, now)
           new == [stamps[t] EXCEPT ![Len(stamps[t])] = v.out]
       IN \/ /\ v.r = 0 /\ FitsTotal(new)
             /\ stamps' = [stamps EXCEPT ![t] = new]
             /\ LogWrite(t) /\ UNCHANGED msg
          \/ v.r = 0 /\ ~FitsTotal(new) /\ Says(t, "range")
          \/ v.r = -2 /\ Says(t, "before")
          \/ v.r = -1 /\ Says(t, "invalid")
  /\ mode' = [mode EXCEPT ![t] = "main"]
  /\ UNCHANGED <<file, lock, logVars, inputVars, writeVars, exited>>

-----------------------------------------------------------------------------
(* log_write: one pwrite after another, then ftruncate.                    *)

\* What the log_write in progress writes.
Wanted(t) == LogText(stamps[t], nl[t])

\* Mutant of WriteSome: the old lines are dropped before the new are written.
WriteAfterTruncate(t) ==
  /\ pc[t] = "write"
  /\ \E k \in (done[t] + 1)..Len(Wanted(t)) :
       /\ file' = Overlay(SubSeq(file, 1, base[t] + done[t]), base[t], Wanted(t), done[t], k)
       /\ done' = [done EXCEPT ![t] = k]
  /\ UNCHANGED <<lock, pc, mode, stamps, logVars, inputVars, msg, saving, exited>>

\* write_all: a pwrite of the next cells; of all that are left unless short.
WriteSome(t) ==
  /\ pc[t] = "write"
  /\ \E k \in (done[t] + 1)..Len(Wanted(t)) :
       /\ ShortWrites \/ k = Len(Wanted(t))
       /\ file' = Overlay(file, base[t], Wanted(t), done[t], k)
       /\ done' = [done EXCEPT ![t] = k]
  /\ UNCHANGED <<lock, pc, mode, stamps, logVars, inputVars, msg, saving, exited>>

\* write_all: a pwrite that stops inside a stamp, one that differs from what
\* is there; the next pwrite completes it.
WriteTorn(t) ==
  /\ pc[t] = "write" /\ ShortWrites
  /\ \E k \in (done[t] + 1)..Len(Wanted(t)), x \in Garbled :
       /\ Wanted(t)[k].k = "stamp"
       /\ base[t] + k <= Len(file) => file[base[t] + k] # Wanted(t)[k]
       /\ file' = Overlay(file, base[t], [Wanted(t) EXCEPT ![k] = Stamped(x)], done[t], k)
       /\ done' = [done EXCEPT ![t] = k - 1]
  /\ UNCHANGED <<lock, pc, mode, stamps, logVars, inputVars, msg, saving, exited>>

\* Mutant of WriteEnds: a failure is shown once and forgotten.
WriteEndsForgetting(t, failed) ==
  /\ msg' = [msg EXCEPT ![t] = IF failed THEN "cannot_write" ELSE msg[t]]
  /\ pc' = [pc EXCEPT ![t] = "render"]
  /\ saving' = [saving EXCEPT ![t] = FALSE]
  /\ done' = [done EXCEPT ![t] = 0]
  /\ UNCHANGED logErr

\* Mutant of WriteEnds: save() does not look at log_errno.
WriteEndsSaved(t, failed) ==
  /\ logErr' = [logErr EXCEPT ![t] = failed]
  /\ msg' = [msg EXCEPT ![t] = IF saving[t] THEN "saved"
                               ELSE IF failed THEN "cannot_write" ELSE msg[t]]
  /\ pc' = [pc EXCEPT ![t] = "render"]
  /\ saving' = [saving EXCEPT ![t] = FALSE]
  /\ done' = [done EXCEPT ![t] = 0]

\* log_write ends, and save() reports.
WriteEnds(t, failed) ==
  /\ logErr' = [logErr EXCEPT ![t] = failed]
  /\ msg' = [msg EXCEPT ![t] = IF failed THEN "cannot_write"
                               ELSE IF saving[t] THEN "saved" ELSE msg[t]]
  /\ pc' = [pc EXCEPT ![t] = "render"]
  /\ saving' = [saving EXCEPT ![t] = FALSE]
  /\ done' = [done EXCEPT ![t] = 0]

\* Mutant of Truncate: the ftruncate is forgotten.
TruncateNothing(t) ==
  /\ pc[t] = "write" /\ done[t] = Len(Wanted(t))
  /\ wrote' = [wrote EXCEPT ![t] = TRUE]
  /\ WriteEnds(t, FALSE)
  /\ UNCHANGED <<file, lock, mode, stamps, base, nl, inputVars, exited>>

\* Mutant of Truncate: LOG is cut to the session's own length.
TruncateToLines(t) ==
  /\ pc[t] = "write" /\ done[t] = Len(Wanted(t))
  /\ file' = SubSeq(file, 1, done[t])
  /\ wrote' = [wrote EXCEPT ![t] = TRUE]
  /\ WriteEnds(t, FALSE)
  /\ UNCHANGED <<lock, mode, stamps, base, nl, inputVars, exited>>

\* log_write: everything is written; ftruncate drops what was there after it.
Truncate(t) ==
  /\ pc[t] = "write" /\ done[t] = Len(Wanted(t))
  /\ file' = SubSeq(file, 1, base[t] + done[t])
  /\ wrote' = [wrote EXCEPT ![t] = TRUE]
  /\ WriteEnds(t, FALSE)
  /\ UNCHANGED <<lock, mode, stamps, base, nl, inputVars, exited>>

\* A pwrite fails, or the ftruncate does.
WriteFails(t) ==
  /\ pc[t] = "write" /\ WriteEnds(t, TRUE)
  /\ UNCHANGED <<file, lock, mode, stamps, base, nl, wrote, inputVars, exited>>

\* push or log_write gets no memory: die, before anything is written.
OutOfMemory(t) == pc[t] = "write" /\ done[t] = 0 /\ Ends(t, "trouble")

-----------------------------------------------------------------------------
(* Leaving.                                                                *)

\* Mutant of Exit: log_errno is left out of the status.
ExitWithoutLogErr(t) ==
  /\ pc[t] = "exit"
  /\ \E closed \in BOOLEAN :
       /\ t \notin Appenders => closed
       /\ Ends(t, IF caught[t] THEN "signal"
                  ELSE IF readErr[t] \/ ~closed THEN "trouble" ELSE "ok")

\* track, after the key loop: close(log_fd) may fail; a caught signal is
\* raised again, with its default action, whatever the status was.
Exit(t) ==
  /\ pc[t] = "exit"
  /\ \E closed \in BOOLEAN :
       /\ t \notin Appenders => closed
       /\ Ends(t, IF caught[t] THEN "signal"
                  ELSE IF readErr[t] \/ logErr[t] \/ ~closed THEN "trouble" ELSE "ok")

\* The process is killed, or the machine stops; also any signal before
\* catch_signals.
Crash(t) == pc[t] # "off" /\ Ends(t, "killed")

\* Another program appends to LOG, between sessions.
AppendForeign ==
  /\ lock = NoTracker /\ Len(file) <= MaxLog
  /\ \E l \in ForeignLines : file' = file \o l
  /\ UNCHANGED <<lock, pc, mode, stamps, logVars, inputVars, msg, writeVars, exited>>

Handler(t) == Stamp(t) \/ Remove(t) \/ Save(t) \/ Quit(t) \/ OtherKey(t) \/ Edit(t)
              \/ EditType(t) \/ EditCancel(t) \/ EditEnter(t)
KeyArrives(t) == Handler(t) \/ EndOfInput(t) \/ ReadFails(t)

\* What the process does without waiting for anything.
Runs(t) == Resume(t) \/ LoadAtEnd(t) \/ LoadFails(t) \/ Render(t) \/ CheckCaught(t)
           \/ EnterRead(t) \/ WriteSome(t) \/ WriteTorn(t) \/ Truncate(t)
           \/ WriteFails(t) \/ OutOfMemory(t) \/ Exit(t)

Next ==
  \/ \E t \in Trackers : \/ StartPlain(t) \/ OpenLog(t) \/ OpenLogFails(t)
                         \/ Runs(t) \/ KeyArrives(t) \/ Signal(t) \/ Crash(t)
  \/ AppendForeign

Spec == Init /\ [][Next]_vars

-----------------------------------------------------------------------------
(* Properties.                                                             *)

TypeOK ==
  /\ file \in Seq(Cell)
  /\ lock \in Trackers \union {NoTracker}
  /\ pc \in [Trackers -> Pcs]
  /\ mode \in [Trackers -> {"main", "edit"}]
  /\ stamps \in [Trackers -> Seq(Secs)]
  /\ base \in [Trackers -> Nat]
  /\ nl \in [Trackers -> BOOLEAN]
  /\ wrote \in [Trackers -> BOOLEAN]
  /\ logErr \in [Trackers -> BOOLEAN]
  /\ readErr \in [Trackers -> BOOLEAN]
  /\ caught \in [Trackers -> BOOLEAN]
  /\ msg \in [Trackers -> Msgs]
  /\ saving \in [Trackers -> BOOLEAN]
  /\ done \in [Trackers -> Nat]
  /\ exited \in {"none", "ok", "trouble", "signal", "killed"}

InSession(t) == t \in Appenders /\ pc[t] \in Idle \union {"write"}

\* This session's part of LOG.
OwnCells(t) == SubSeq(file, base[t] + 1, Len(file))

\* LOG holds this session's stamps: as the last log_write wrote them, or, before
\* the first one, as the open entry that was resumed.
Current(t) ==
  IF wrote[t] THEN OwnCells(t) = Wanted(t)
  ELSE \/ stamps[t] = <<>> /\ OwnCells(t) = <<>>
       \/ Len(stamps[t]) = 1 /\ OpenEntryAt(file, base[t])

\* One tracker at a time works on LOG: whoever has it open for its session
\* holds the lock, and no one else is past log_open (flock in log_open).
OneOwner == \A t \in Appenders : pc[t] # "off" <=> lock = t

\* Between keys LOG is up to date, unless the last write failed: whatever was
\* stamped, removed and edited before, nothing of it is missing from LOG and
\* nothing that was removed is left (log_write after every change).
LogCurrent ==
  \A t \in Appenders : pc[t] \in Idle /\ ~logErr[t] => Current(t)

\* This session's first n entries are in LOG in full and as they are in memory.
HoldsEntries(t, n) ==
  LET own == base[t] + (IF nl[t] THEN 1 ELSE 0)
  IN \A p \in 1..(4 * n) : own + p <= Len(file) /\ file[own + p] = Lines(stamps[t])[p]

\* As long as the last write has not failed, LOG has the entries before the last
\* one at every moment, in the middle of a write and after a crash there too.
EarlierEntriesKept ==
  \A t \in Appenders :
    InSession(t) /\ ~logErr[t] => HoldsEntries(t, (Len(stamps[t]) - 1) \div 2)

\* No step of a session damages an entry that LOG has before the last one, not even
\* a write that fails half way, or the retry of one that did: log_write overwrites
\* its lines with what they are, and truncates after them (write_all, log_write).
EarlierEntriesStay ==
  [][\A t \in Appenders : InSession(t) /\ InSession(t)' =>
       \A n \in 1..MaxStamps :
         2 * n < Len(stamps[t]) /\ 2 * n < Len(stamps'[t]) /\ HoldsEntries(t, n)
           => HoldsEntries(t, n)']_vars

\* This session's first line never continues a line of someone else's: it is
\* at the start of LOG, after a newline, or after the one log_nl adds.
OwnLinesStartALine ==
  \A t \in Appenders :
    InSession(t) /\ base[t] > 0 => nl[t] \/ EndsLine(file[base[t]])

\* "older lines are never touched" (track.c:24-25): no step of a session, and
\* no crash, changes a cell before log_base or shortens LOG below it.
OlderLinesKept ==
  [][\A t \in Appenders : InSession(t) =>
       /\ Len(file') >= base[t]
       /\ \A i \in 1..base[t] : file'[i] = file[i]]_vars

\* An END is not before its START, whatever the clock does and whatever is edited
\* (a START edited into the future, a clock set back), save that a time of day
\* typed for END may, on the next date, lie before START by less than the zone's
\* offsets differ.  Up to that "no entry ends before it starts"
\* (doc/daykeep.texi:450-452; stamp, edit_last, dk_parse_end).
EndNotBeforeStart ==
  \A t \in Trackers : \A i \in 1..Len(stamps[t]) :
    i % 2 = 0 => IsEndOf(stamps[t][i], stamps[t][i - 1])

\* The sums render makes, which it does not check, do not overflow.
RenderTotalsFit ==
  \A t \in Trackers :
    LET total[k \in 0..Len(stamps[t])] ==
          IF k = 0 THEN 0
          ELSE IF k % 2 = 1 THEN total[k - 1]
          ELSE total[k - 1] + stamps[t][k] - stamps[t][k - 1]
    IN \A k \in 1..Len(stamps[t]) :
         /\ total[k] \in Secs
         /\ k % 2 = 0 => stamps[t][k] - stamps[t][k - 1] \in Secs

\* The tracker says "saved" only when LOG is up to date, and reports every
\* failed write at the next screen (save, log_write).
SavedMeansCurrent ==
  \A t \in Appenders :
    /\ msg[t] = "saved" => Current(t)
    /\ pc[t] = "render" /\ msg[t] = "cannot_write" => logErr[t]

\* A session that ends with success leaves LOG up to date, and so does one that a
\* signal ends, unless its last write failed: then what the log lacks shows in no
\* exit status (track: log_errno, and "the log is already current", track.c:444).
OkMeansCurrent ==
  [][\A t \in Appenders : pc[t] = "exit" /\ pc'[t] = "off" =>
       /\ exited' = "ok" => Current(t)
       /\ exited' = "signal" => Current(t) \/ logErr[t]]_vars

\* "the file is rewritten after every change, so it is always up to date: a
\* signal or a crash loses nothing" (track.c:22-23): were the tracker killed
\* now, its lines of LOG would read as ranges and at most one open entry, last.
CrashLosesNothing ==
  \A t \in Appenders : InSession(t) /\ ~logErr[t] /\ wrote[t] =>
    \/ OwnCells(t) = <<>>
    \/ \E n \in 1..MaxStamps :
         LET like == LogText([i \in 1..n |-> 0], nl[t])
         IN /\ Len(OwnCells(t)) = Len(like)
            /\ \A p \in 1..Len(like) : OwnCells(t)[p].k = like[p].k

-----------------------------------------------------------------------------
(* Liveness.  The process keeps running when it can; keys come as they     *)
(* please, or (with KeysFair) a blocked read gets some key in the end.     *)

Fairness == \A t \in Trackers : WF_vars(Runs(t))
KeysFair == \A t \in Trackers : WF_vars(KeyArrives(t))

FairSpec     == Spec /\ Fairness
FairKeysSpec == Spec /\ Fairness /\ KeysFair

\* "a signal interrupts the blocking read, and the key loop then leaves by the
\* normal path" (track.c:106-107): a caught signal ends the session and frees
\* LOG for the next tracker.
SignalEndsSession ==
  \A t \in Trackers : caught[t] ~> (pc[t] = "off" /\ lock # t)

=============================================================================
