---------------------------- MODULE TrackerProofs ----------------------------
(***************************************************************************)
(* Proofs about Tracker, for any number of trackers, any clock, any texts  *)
(* and any bounds.                                                         *)
(***************************************************************************)
EXTENDS Tracker, DkTimeProofs, Recursion

\* What the type invariant, the lock and OlderLinesKept rest on: only trackers
\* with a log load or write; a write stays within LOG, next to what it has
\* written, and within the text it writes; and no write is left half counted.
WritesInLog ==
  \A t \in Trackers :
    /\ pc[t] \in {"load", "write"} => t \in Appenders
    /\ pc[t] # "write" => done[t] = 0
    /\ InSession(t) => base[t] + done[t] <= Len(file)
    /\ pc[t] = "write" => done[t] <= Len(Wanted(t))

IInv == TypeOK /\ OneOwner /\ WritesInLog

-----------------------------------------------------------------------------
(* The text of a session's lines.                                          *)

LEMMA MarkIsCell == ASSUME NEW kind \in Kinds PROVE Mark(kind) \in Cell
PROOF BY DEF Mark, Cell, Junk, Text, Kinds

LEMMA StampedIsCell ==
  ASSUME NEW s \in Secs PROVE Stamped(FmtStamp(s)) \in Cell
PROOF BY FmtStampType, SecsAreInts DEF Stamped, Cell, Kinds

LEMMA GarbledIsCell ==
  ASSUME NEW x \in Garbled PROVE Stamped(x) \in Cell
PROOF BY InputsAssumption DEF Stamped, Cell, Kinds

\* n stamps print as START dash END newline, n \div 2 times, and START open when
\* n is odd: every stamp a line shows exists.
LEMMA LinesLenFits ==
  ASSUME NEW n \in Nat
  PROVE  /\ LinesLen(n) \in Nat
         /\ \A p \in 1..LinesLen(n) :
              LET first == 2 * ((p - 1) \div 4) + 1
              IN /\ p % 4 \in 0..3 /\ first \in 1..n
                 /\ p % 4 = 3 => first + 1 \in 1..n
PROOF BY SMTT(30) DEF LinesLen

LEMMA LinesType ==
  ASSUME NEW st \in Seq(Secs)
  PROVE  /\ Lines(st) \in Seq(Cell)
         /\ Len(Lines(st)) = LinesLen(Len(st))
PROOF
<1> DEFINE n == Len(st)
           first(p) == 2 * ((p - 1) \div 4) + 1
           cell(p) == CASE p % 4 = 1 -> Stamped(FmtStamp(st[first(p)]))
                        [] p % 4 = 2 -> Mark(IF first(p) < Len(st) THEN "dash" ELSE "open")
                        [] p % 4 = 3 -> Stamped(FmtStamp(st[first(p) + 1]))
                        [] p % 4 = 0 -> Mark("nl")
<1>1. n \in Nat /\ LinesLen(n) \in Nat
  BY LinesLenFits
<1>2. Lines(st) = [p \in 1..LinesLen(n) |-> cell(p)]
  BY DEF Lines
<1>3. ASSUME NEW p \in 1..LinesLen(n) PROVE cell(p) \in Cell
  <2>1. /\ p % 4 \in 0..3 /\ first(p) \in 1..n
        /\ p % 4 = 3 => first(p) + 1 \in 1..n
    BY <1>1, LinesLenFits
  <2>2. CASE p % 4 = 1
    <3>1. st[first(p)] \in Secs
      BY <2>1
    <3> QED BY <2>2, <3>1, StampedIsCell
  <2>3. CASE p % 4 = 2
    <3>1. /\ Mark("dash") \in Cell /\ Mark("open") \in Cell
      BY MarkIsCell DEF Kinds
    <3> QED BY <2>3, <3>1
  <2>4. CASE p % 4 = 3
    <3>1. st[first(p) + 1] \in Secs
      BY <2>1, <2>4
    <3> QED BY <2>4, <3>1, StampedIsCell
  <2>5. CASE p % 4 = 0
    BY <2>5, MarkIsCell DEF Kinds
  <2> QED BY <2>1, <2>2, <2>3, <2>4, <2>5
<1> HIDE DEF cell, n
<1>4. [p \in 1..LinesLen(n) |-> cell(p)] \in Seq(Cell)
  BY <1>1, <1>3
<1> QED BY <1>1, <1>2, <1>4 DEF n

LEMMA LogTextType ==
  ASSUME NEW st \in Seq(Secs), NEW newline \in BOOLEAN
  PROVE  LogText(st, newline) \in Seq(Cell)
PROOF
<1>1. Lines(st) \in Seq(Cell)
  BY LinesType
<1>2. <<Mark("nl")>> \in Seq(Cell)
  BY MarkIsCell DEF Kinds
<1> QED BY <1>1, <1>2 DEF LogText

\* A write next to what is there already leaves no hole in LOG, keeps what is
\* before off, and never shortens it.
LEMMA OverlayType ==
  ASSUME NEW f \in Seq(Cell), NEW text \in Seq(Cell),
         NEW off \in Nat, NEW a \in Nat, NEW b \in Nat,
         a <= b, b <= Len(text), off + a <= Len(f)
  PROVE  /\ Overlay(f, off, text, a, b) \in Seq(Cell)
         /\ Len(Overlay(f, off, text, a, b)) >= Len(f)
         /\ Len(Overlay(f, off, text, a, b)) >= off + b
         /\ \A i \in 1..off : Overlay(f, off, text, a, b)[i] = f[i]
PROOF
<1> DEFINE n == IF off + b > Len(f) THEN off + b ELSE Len(f)
           at(i) == IF i - off \in (a + 1)..b THEN text[i - off] ELSE f[i]
           g == Overlay(f, off, text, a, b)
<1>1. n \in Nat /\ n >= Len(f) /\ n >= off + b
  OBVIOUS
<1>2. g = [i \in 1..n |-> at(i)]
  BY DEF Overlay
<1>3. ASSUME NEW i \in 1..n PROVE at(i) \in Cell
  <2>1. CASE i - off \in (a + 1)..b
    BY <2>1
  <2>2. CASE i - off \notin (a + 1)..b
    <3>1. i \in 1..Len(f)
      BY <2>2
    <3> QED BY <2>2, <3>1
  <2> QED BY <2>1, <2>2
<1>4. ASSUME NEW i \in 1..off PROVE i \in 1..n /\ at(i) = f[i]
  BY <1>1
<1> HIDE DEF n, at
<1>5. g \in Seq(Cell) /\ Len(g) = n
  BY <1>1, <1>2, <1>3
<1>6. \A i \in 1..off : g[i] = f[i]
  BY <1>2, <1>4
<1> QED BY <1>1, <1>5, <1>6
-----------------------------------------------------------------------------
(* Type correctness.                                                       *)

LEMMA InitType == Init => TypeOK
PROOF BY LogsAssumption, TrackersAssumption DEF Init, TypeOK, Pcs, Idle, Msgs

LEMMA EndsType ==
  ASSUME TypeOK, NEW t \in Trackers, NEW how \in {"ok", "trouble", "signal", "killed"},
         Ends(t, how)
  PROVE  TypeOK'
PROOF BY DEF TypeOK, Ends, Pcs, Idle, Msgs

LEMMA WantedType ==
  ASSUME TypeOK, NEW t \in Trackers
  PROVE  Wanted(t) \in Seq(Cell)
PROOF BY LogTextType DEF TypeOK, Wanted

LEMMA StartType ==
  ASSUME TypeOK, NEW t \in Trackers,
         StartPlain(t) \/ OpenLog(t) \/ OpenLogFails(t) \/ Crash(t) \/ Exit(t)
           \/ LoadFails(t) \/ OutOfMemory(t)
  PROVE  TypeOK'
PROOF
<1>1. CASE StartPlain(t)
  BY <1>1 DEF TypeOK, StartPlain, logVars, inputVars, writeVars, Pcs, Idle
<1>2. CASE OpenLog(t)
  BY <1>2 DEF TypeOK, OpenLog, logVars, inputVars, writeVars, Pcs
<1>3. CASE OpenLogFails(t) \/ Crash(t) \/ LoadFails(t) \/ OutOfMemory(t)
  BY <1>3, EndsType DEF OpenLogFails, Crash, LoadFails, OutOfMemory
<1>4. CASE Exit(t)
  BY <1>4, EndsType DEF Exit
<1> QED BY <1>1, <1>2, <1>3, <1>4

LEMMA LoadType ==
  ASSUME TypeOK, NEW t \in Trackers, Resume(t) \/ LoadAtEnd(t)
  PROVE  TypeOK'
PROOF
<1>1. CASE Resume(t)
  <2>1. PICK b \in 0..Len(file), now \in Instants :
          /\ ParseStamp(file[b + 1].x, now).r = 0
          /\ stamps' = [stamps EXCEPT ![t] = <<ParseStamp(file[b + 1].x, now).out>>]
          /\ base' = [base EXCEPT ![t] = b]
    BY <1>1 DEF Resume
  <2>2. ParseStamp(file[b + 1].x, now).out \in Secs
    BY <2>1, ParseStampInRange
  <2>3. stamps' \in [Trackers -> Seq(Secs)]
    BY <2>1, <2>2 DEF TypeOK
  <2>4. base' \in [Trackers -> Nat]
    BY <2>1 DEF TypeOK
  <2> QED
    BY <1>1, <2>3, <2>4 DEF TypeOK, Resume, inputVars, writeVars, Pcs, Idle, Msgs
<1>2. CASE LoadAtEnd(t)
  BY <1>2 DEF TypeOK, LoadAtEnd, inputVars, writeVars, Pcs, Idle
<1> QED BY <1>1, <1>2

LEMMA KeyLoopType ==
  ASSUME TypeOK, NEW t \in Trackers,
         Render(t) \/ CheckCaught(t) \/ EnterRead(t) \/ EndOfInput(t) \/ ReadFails(t)
           \/ Signal(t)
  PROVE  TypeOK'
PROOF
<1> USE DEF TypeOK, logVars, inputVars, writeVars, Pcs, Idle, Msgs, NoKey
<1>1. CASE Render(t)
  BY <1>1 DEF Render
<1>2. CASE CheckCaught(t)
  BY <1>2 DEF CheckCaught
<1>3. CASE EnterRead(t)
  BY <1>3 DEF EnterRead
<1>4. CASE EndOfInput(t)
  BY <1>4 DEF EndOfInput
<1>5. CASE ReadFails(t)
  BY <1>5 DEF ReadFails
<1>6. CASE Signal(t)
  BY <1>6 DEF Signal
<1> QED BY <1>1, <1>2, <1>3, <1>4, <1>5, <1>6

LEMMA OddIsPositive == \A n \in Nat : n % 2 = 1 => n \in 1..n
PROOF
<1>1. \A n \in Nat : n = 0 \/ n \in 1..n
  OBVIOUS
<1>2. 0 % 2 = 0
  OBVIOUS
<1> QED BY <1>1, <1>2

LEMMA LastStampType ==
  ASSUME TypeOK, NEW t \in Trackers, Len(stamps[t]) % 2 = 1
  PROVE  LastStamp(t) \in Secs
PROOF
<1>1. stamps[t] \in Seq(Secs)
  BY DEF TypeOK
<1>2. Len(stamps[t]) \in Nat
  BY <1>1
<1>3. Len(stamps[t]) \in 1..Len(stamps[t])
  BY <1>2, OddIsPositive, Zenon
<1> QED BY <1>1, <1>3 DEF LastStamp

LEMMA ReplaceType ==
  ASSUME NEW st \in Seq(Secs), NEW i, NEW v \in Secs
  PROVE  [st EXCEPT ![i] = v] \in Seq(Secs) /\ Len([st EXCEPT ![i] = v]) = Len(st)
PROOF
<1>1. Len(st) \in Nat /\ st \in [1..Len(st) -> Secs]
  OBVIOUS
<1>2. [st EXCEPT ![i] = v] \in [1..Len(st) -> Secs]
  BY <1>1
<1> QED BY <1>1, <1>2

\* What edit_last accepts is in range, and as an END not before its START.
LEMMA EditedToInRange ==
  ASSUME TypeOK, NEW t \in Trackers, NEW x, NEW now,
         EditedTo(t, x, now).r = 0
  PROVE  EditedTo(t, x, now).out \in Secs
PROOF
<1>1. CASE Len(stamps[t]) = 1
  BY <1>1, ParseStampInRange DEF EditedTo
<1>2. CASE Len(stamps[t]) # 1
  BY <1>2, ParseEndInRange DEF EditedTo
<1> QED BY <1>1, <1>2

LEMMA HandlerType ==
  ASSUME TypeOK, NEW t \in Trackers, Handler(t)
  PROVE  TypeOK'
PROOF
<1> USE DEF TypeOK, logVars, inputVars, writeVars, Pcs, Idle, Msgs
<1>1. CASE Stamp(t)
  <2>1. PICK now \in Instants :
          \/ /\ stamps' = [stamps EXCEPT ![t] = Append(stamps[t], StampNow(t, now))]
             /\ msg' = [msg EXCEPT ![t] =
                          IF StampNow(t, now) # now THEN "future" ELSE msg[t]]
             /\ LogWrite(t)
          \/ Says(t, "range")
    BY <1>1 DEF Stamp
  <2>2. StampNow(t, now) \in Secs
    BY InputsAssumption, LastStampType DEF StampNow
  <2>3. CASE Says(t, "range")
    BY <1>1, <2>3 DEF Stamp, Says
  <2>4. CASE /\ stamps' = [stamps EXCEPT ![t] = Append(stamps[t], StampNow(t, now))]
             /\ msg' = [msg EXCEPT ![t] =
                          IF StampNow(t, now) # now THEN "future" ELSE msg[t]]
             /\ LogWrite(t)
    <3>1. stamps' \in [Trackers -> Seq(Secs)]
      BY <2>2, <2>4
    <3>2. msg' \in [Trackers -> Msgs]
      BY <2>4
    <3> QED BY <1>1, <2>4, <3>1, <3>2 DEF Stamp, LogWrite
  <2> QED BY <2>1, <2>3, <2>4
<1>2. CASE Remove(t)
  BY <1>2 DEF Remove, LogWrite
<1>3. CASE Save(t)
  BY <1>3 DEF Save, Says, LogWrite
<1>4. CASE Quit(t)
  BY <1>4 DEF Quit
<1>5. CASE OtherKey(t)
  BY <1>5 DEF OtherKey
<1>6. CASE Edit(t)
  BY <1>6 DEF Edit
<1>7. CASE EditType(t)
  BY <1>7 DEF EditType
<1>8. CASE EditCancel(t)
  BY <1>8 DEF EditCancel, Says
<1>9. CASE EditEnter(t)
  <2>1. PICK x \in Typed \union {FmtStamp(LastStamp(t))}, now \in Instants :
          \/ /\ EditedTo(t, x, now).r = 0
             /\ stamps' = [stamps EXCEPT ![t] =
                  [stamps[t] EXCEPT ![Len(stamps[t])] = EditedTo(t, x, now).out]]
             /\ LogWrite(t) /\ UNCHANGED msg
          \/ Says(t, "range") \/ Says(t, "before") \/ Says(t, "invalid")
    BY <1>9 DEF EditEnter
  <2>2. CASE Says(t, "range") \/ Says(t, "before") \/ Says(t, "invalid")
    BY <1>9, <2>2 DEF EditEnter, Says
  <2>3. CASE /\ EditedTo(t, x, now).r = 0
             /\ stamps' = [stamps EXCEPT ![t] =
                  [stamps[t] EXCEPT ![Len(stamps[t])] = EditedTo(t, x, now).out]]
             /\ LogWrite(t) /\ UNCHANGED msg
    <3>1. EditedTo(t, x, now).out \in Secs
      BY <2>3, EditedToInRange
    <3>2. stamps[t] \in Seq(Secs)
      OBVIOUS
    <3>3. stamps' \in [Trackers -> Seq(Secs)]
      BY <2>3, <3>1, <3>2, ReplaceType
    <3> QED BY <1>9, <2>3, <3>3 DEF EditEnter, LogWrite
  <2> QED BY <2>1, <2>2, <2>3
<1> QED BY <1>1, <1>2, <1>3, <1>4, <1>5, <1>6, <1>7, <1>8, <1>9 DEF Handler

\* What a log_write step does to LOG: it stays a sequence of cells, keeps all
\* before base, and grows to hold what is counted as written.
LEMMA WriteStep ==
  ASSUME IInv, NEW t \in Trackers, WriteSome(t) \/ WriteTorn(t)
  PROVE  /\ file' \in Seq(Cell)
         /\ Len(file') >= Len(file)
         /\ \A i \in 1..base[t] : file'[i] = file[i]
         /\ \E k \in 0..Len(Wanted(t)) :
              done' = [done EXCEPT ![t] = k] /\ base[t] + k <= Len(file')
PROOF
<1>1. /\ file \in Seq(Cell) /\ base[t] \in Nat /\ done[t] \in Nat
      /\ Wanted(t) \in Seq(Cell)
  BY WantedType DEF IInv, TypeOK
<1>2. pc[t] = "write" /\ t \in Appenders
  BY DEF WriteSome, WriteTorn, IInv, WritesInLog
<1>3. base[t] + done[t] <= Len(file)
  BY <1>2 DEF IInv, WritesInLog, InSession
<1>4. CASE WriteSome(t)
  <2>1. PICK k \in (done[t] + 1)..Len(Wanted(t)) :
          /\ file' = Overlay(file, base[t], Wanted(t), done[t], k)
          /\ done' = [done EXCEPT ![t] = k]
    BY <1>4 DEF WriteSome
  <2>2. k \in Nat /\ done[t] <= k /\ k <= Len(Wanted(t))
    BY <1>1, <2>1
  <2>3. /\ file' \in Seq(Cell)
        /\ Len(file') >= Len(file)
        /\ Len(file') >= base[t] + k
        /\ \A i \in 1..base[t] : file'[i] = file[i]
    BY <1>1, <1>3, <2>1, <2>2, OverlayType
  <2>4. k \in 0..Len(Wanted(t)) /\ base[t] + k <= Len(file')
    BY <1>1, <2>2, <2>3
  <2> QED BY <2>1, <2>3, <2>4
<1>5. CASE WriteTorn(t)
  <2>1. PICK k \in (done[t] + 1)..Len(Wanted(t)), x \in Garbled :
          /\ file' = Overlay(file, base[t], [Wanted(t) EXCEPT ![k] = Stamped(x)],
                             done[t], k)
          /\ done' = [done EXCEPT ![t] = k - 1]
    BY <1>5 DEF WriteTorn
  <2> DEFINE torn == [Wanted(t) EXCEPT ![k] = Stamped(x)]
  <2>2. k \in Nat /\ done[t] <= k /\ k <= Len(Wanted(t))
    BY <1>1, <2>1
  <2>3. torn \in Seq(Cell) /\ Len(torn) = Len(Wanted(t))
    BY <1>1, GarbledIsCell
  <2>3a. file' = Overlay(file, base[t], torn, done[t], k)
    BY <2>1
  <2> HIDE DEF torn
  <2>4. /\ file' \in Seq(Cell)
        /\ Len(file') >= Len(file) /\ Len(file') >= base[t] + k
        /\ \A i \in 1..base[t] : file'[i] = file[i]
    BY <1>1, <1>3, <2>2, <2>3, <2>3a, OverlayType
  <2>5. k - 1 \in 0..Len(Wanted(t)) /\ base[t] + (k - 1) <= Len(file')
    BY <1>1, <2>1, <2>2, <2>4
  <2> QED BY <2>1, <2>4, <2>5
<1> QED BY <1>4, <1>5

LEMMA WriteType ==
  ASSUME IInv, NEW t \in Trackers,
         WriteSome(t) \/ WriteTorn(t) \/ Truncate(t) \/ WriteFails(t)
  PROVE  TypeOK'
PROOF
<1> USE DEF IInv, TypeOK, logVars, inputVars, Pcs, Idle, Msgs
<1>1. CASE WriteSome(t) \/ WriteTorn(t)
  <2>1. file' \in Seq(Cell)
    BY <1>1, WriteStep
  <2>2. PICK k \in 0..Len(Wanted(t)) : done' = [done EXCEPT ![t] = k]
    BY <1>1, WriteStep
  <2>3. k \in Nat
    OBVIOUS
  <2>4. done' \in [Trackers -> Nat]
    BY <2>2, <2>3
  <2> QED BY <1>1, <2>1, <2>4 DEF WriteSome, WriteTorn
<1>2. CASE Truncate(t)
  <2>1. /\ base[t] + done[t] \in Nat /\ base[t] + done[t] <= Len(file)
    BY <1>2 DEF Truncate, WritesInLog, InSession
  <2>2. file' \in Seq(Cell)
    BY <1>2, <2>1 DEF Truncate
  <2> QED BY <1>2, <2>2 DEF Truncate, WriteEnds
<1>3. CASE WriteFails(t)
  BY <1>3 DEF WriteFails, WriteEnds
<1> QED BY <1>1, <1>2, <1>3

LEMMA TypeStep ==
  ASSUME IInv, [Next]_vars
  PROVE  TypeOK'
PROOF
<1>1. CASE UNCHANGED vars
  BY <1>1 DEF IInv, TypeOK, vars, logVars, inputVars, writeVars
<1>2. CASE AppendForeign
  <2>1. file' \in Seq(Cell)
    BY <1>2, LogsAssumption DEF AppendForeign, IInv, TypeOK
  <2> QED
    BY <1>2, <2>1 DEF AppendForeign, IInv, TypeOK, logVars, inputVars, writeVars
<1>3. ASSUME NEW t \in Trackers,
             \/ StartPlain(t) \/ OpenLog(t) \/ OpenLogFails(t)
             \/ Runs(t) \/ KeyArrives(t) \/ Signal(t) \/ Crash(t)
      PROVE  TypeOK'
  BY <1>3, StartType, LoadType, KeyLoopType, HandlerType, WriteType
     DEF IInv, Runs, KeyArrives
<1> QED BY <1>1, <1>2, <1>3 DEF Next

-----------------------------------------------------------------------------
(* The lock, and where writes go.                                          *)

\* A step of tracker t leaves every other tracker's process alone.
OthersAlone(t) ==
  \A u \in Trackers \ {t} :
    /\ pc'[u] = pc[u] /\ stamps'[u] = stamps[u]
    /\ base'[u] = base[u] /\ nl'[u] = nl[u] /\ done'[u] = done[u]

\* The steps of the key loop that neither start, end nor write.
Loops(t) == Render(t) \/ CheckCaught(t) \/ EnterRead(t) \/ EndOfInput(t) \/ ReadFails(t)
            \/ Handler(t)

LEMMA LoopsStep ==
  ASSUME TypeOK, NEW t \in Trackers, Loops(t)
  PROVE  /\ UNCHANGED <<file, lock, base, nl, done>>
         /\ pc[t] \in Idle
         /\ \/ pc' = [pc EXCEPT ![t] = "write"] /\ t \in Appenders
            \/ \E p \in Idle : pc' = [pc EXCEPT ![t] = p]
         /\ \A u \in Trackers \ {t} : stamps'[u] = stamps[u]
PROOF
<1> USE DEF TypeOK, logVars, inputVars, writeVars, Idle, NoKey, MainKey, EditKey, Says,
            LogWrite
<1>1. CASE Render(t)
  BY <1>1 DEF Render
<1>2. CASE CheckCaught(t)
  BY <1>2 DEF CheckCaught
<1>3. CASE EnterRead(t)
  BY <1>3 DEF EnterRead
<1>4. CASE EndOfInput(t)
  BY <1>4 DEF EndOfInput
<1>5. CASE ReadFails(t)
  BY <1>5 DEF ReadFails
<1>6. CASE Stamp(t)
  BY <1>6 DEF Stamp
<1>7. CASE Remove(t)
  BY <1>7 DEF Remove
<1>8. CASE Save(t)
  BY <1>8 DEF Save
<1>9. CASE Quit(t)
  BY <1>9 DEF Quit
<1>10. CASE OtherKey(t)
  BY <1>10 DEF OtherKey
<1>11. CASE Edit(t)
  BY <1>11 DEF Edit
<1>12. CASE EditType(t)
  BY <1>12 DEF EditType
<1>13. CASE EditCancel(t)
  BY <1>13 DEF EditCancel
<1>14. CASE EditEnter(t)
  BY <1>14 DEF EditEnter
<1> QED BY <1>1, <1>2, <1>3, <1>4, <1>5, <1>6, <1>7, <1>8, <1>9, <1>10, <1>11, <1>12,
           <1>13, <1>14 DEF Loops, Handler

\* The steps with which a tracker's process ends.
Stops(t) == \E how \in {"ok", "trouble", "signal", "killed"} : Ends(t, how)

LEMMA StopsStep ==
  ASSUME NEW t \in Trackers,
         OpenLogFails(t) \/ LoadFails(t) \/ OutOfMemory(t) \/ Exit(t) \/ Crash(t)
  PROVE  Stops(t)
PROOF BY DEF OpenLogFails, LoadFails, OutOfMemory, Exit, Crash, Stops

LEMMA StepKinds ==
  ASSUME NEW t \in Trackers,
         \/ StartPlain(t) \/ OpenLog(t) \/ OpenLogFails(t)
         \/ Runs(t) \/ KeyArrives(t) \/ Signal(t) \/ Crash(t)
  PROVE  \/ StartPlain(t) \/ OpenLog(t) \/ Resume(t) \/ LoadAtEnd(t)
         \/ Loops(t) \/ Stops(t) \/ Signal(t)
         \/ WriteSome(t) \/ WriteTorn(t) \/ Truncate(t) \/ WriteFails(t)
PROOF BY StopsStep DEF Runs, KeyArrives, Loops

LEMMA OwnerStep ==
  ASSUME IInv, [Next]_vars
  PROVE  OneOwner'
PROOF
<1> USE DEF IInv, OneOwner
<1>1. CASE UNCHANGED vars
  BY <1>1 DEF vars
<1>2. CASE AppendForeign
  BY <1>2 DEF AppendForeign
<1>3. ASSUME NEW t \in Trackers,
             \/ StartPlain(t) \/ OpenLog(t) \/ OpenLogFails(t)
             \/ Runs(t) \/ KeyArrives(t) \/ Signal(t) \/ Crash(t)
      PROVE  OneOwner'
  <2> USE TrackersAssumption DEF TypeOK
  <2>1. CASE StartPlain(t)
    BY <2>1 DEF StartPlain
  <2>2. CASE OpenLog(t)
    BY <2>2 DEF OpenLog
  <2>3. CASE Stops(t)
    BY <2>3 DEF Stops, Ends
  <2>4. CASE Resume(t) \/ LoadAtEnd(t)
    BY <2>4 DEF Resume, LoadAtEnd
  <2>5. CASE Loops(t)
    BY <2>5, LoopsStep DEF Idle
  <2>6. CASE Signal(t)
    BY <2>6 DEF Signal, Idle
  <2>7. CASE WriteSome(t) \/ WriteTorn(t)
    BY <2>7 DEF WriteSome, WriteTorn
  <2>8. CASE Truncate(t) \/ WriteFails(t)
    BY <2>8 DEF Truncate, WriteFails, WriteEnds
  <2> QED BY <1>3, <2>1, <2>2, <2>3, <2>4, <2>5, <2>6, <2>7, <2>8, StepKinds
<1> QED BY <1>1, <1>2, <1>3 DEF Next

\* The steps of t, as StepKinds sorts them, leave the others alone, and change
\* LOG only when t has it.
LEMMA FrameStep ==
  ASSUME IInv, NEW t \in Trackers,
         \/ StartPlain(t) \/ OpenLog(t) \/ Resume(t) \/ LoadAtEnd(t)
         \/ Loops(t) \/ Stops(t) \/ Signal(t)
         \/ WriteSome(t) \/ WriteTorn(t) \/ Truncate(t) \/ WriteFails(t)
  PROVE  /\ OthersAlone(t)
         /\ file' # file => t \in Appenders /\ lock = t
PROOF
<1> USE DEF OthersAlone, IInv, TypeOK
<1>1. CASE StartPlain(t)
  BY <1>1 DEF StartPlain, logVars, writeVars
<1>2. CASE OpenLog(t)
  BY <1>2 DEF OpenLog, logVars, writeVars
<1>3. CASE Resume(t)
  BY <1>3 DEF Resume, writeVars
<1>4. CASE LoadAtEnd(t)
  BY <1>4 DEF LoadAtEnd, writeVars
<1>5. CASE Loops(t)
  BY <1>5, LoopsStep
<1>6. CASE Stops(t)
  BY <1>6 DEF Stops, Ends
<1>7. CASE Signal(t)
  BY <1>7 DEF Signal, logVars, writeVars
<1>8. CASE WriteSome(t) \/ WriteTorn(t)
  <2>1. t \in Appenders /\ lock = t
    BY <1>8 DEF WriteSome, WriteTorn, WritesInLog, OneOwner
  <2>2. OthersAlone(t)
    BY <1>8 DEF WriteSome, WriteTorn, logVars
  <2> QED BY <2>1, <2>2
<1>9. CASE Truncate(t) \/ WriteFails(t)
  <2>1. t \in Appenders /\ lock = t
    BY <1>9 DEF Truncate, WriteFails, WritesInLog, OneOwner
  <2>2. OthersAlone(t)
    BY <1>9 DEF Truncate, WriteFails, WriteEnds
  <2> QED BY <2>1, <2>2
<1> QED BY <1>1, <1>2, <1>3, <1>4, <1>5, <1>6, <1>7, <1>8, <1>9

\* WritesInLog, of one tracker.
WritesInLogOf(t) ==
  /\ pc[t] \in {"load", "write"} => t \in Appenders
  /\ pc[t] # "write" => done[t] = 0
  /\ InSession(t) => base[t] + done[t] <= Len(file)
  /\ pc[t] = "write" => done[t] <= Len(Wanted(t))

\* A tracker that does not move keeps it: LOG changes under the lock only.
LEMMA OthersWrites ==
  ASSUME IInv, NEW t \in Trackers, NEW u \in Trackers \ {t}, OthersAlone(t),
         file' # file => t \in Appenders /\ lock = t
  PROVE  WritesInLogOf(u)'
PROOF
<1>1. WritesInLogOf(u)
  BY DEF IInv, WritesInLog, WritesInLogOf
<1>2. /\ pc'[u] = pc[u] /\ base'[u] = base[u] /\ done'[u] = done[u]
      /\ Wanted(u)' = Wanted(u)
  BY DEF OthersAlone, Wanted
<1>3. CASE file' = file
  BY <1>1, <1>2, <1>3 DEF WritesInLogOf, InSession
<1>4. CASE file' # file
  <2>1. u \in Appenders => pc[u] = "off"
    BY <1>4 DEF IInv, OneOwner
  <2> QED BY <1>1, <1>2, <2>1 DEF WritesInLogOf, InSession, Idle
<1> QED BY <1>3, <1>4

LEMMA OwnWrites ==
  ASSUME IInv, TypeOK', NEW t \in Trackers,
         \/ StartPlain(t) \/ OpenLog(t) \/ Resume(t) \/ LoadAtEnd(t)
         \/ Loops(t) \/ Stops(t) \/ Signal(t)
         \/ WriteSome(t) \/ WriteTorn(t) \/ Truncate(t) \/ WriteFails(t)
  PROVE  WritesInLogOf(t)'
PROOF
<1>1. WritesInLogOf(t) /\ TypeOK
  BY DEF IInv, WritesInLog, WritesInLogOf
<1>2. CASE StartPlain(t)
  BY <1>1, <1>2 DEF StartPlain, logVars, writeVars, WritesInLogOf, InSession, TypeOK
<1>3. CASE OpenLog(t)
  BY <1>1, <1>3 DEF OpenLog, logVars, writeVars, WritesInLogOf, InSession, TypeOK, Idle
<1>4. CASE Resume(t)
  BY <1>1, <1>4 DEF Resume, writeVars, WritesInLogOf, InSession, TypeOK, Idle
<1>5. CASE LoadAtEnd(t)
  BY <1>1, <1>5 DEF LoadAtEnd, writeVars, WritesInLogOf, InSession, TypeOK, Idle
<1>6. CASE Loops(t)
  <2>1. /\ done[t] = 0 /\ (t \in Appenders => base[t] + 0 <= Len(file))
    BY <1>1, <1>6, LoopsStep DEF WritesInLogOf, InSession, Idle
  <2>2. Wanted(t)' \in Seq(Cell)
    BY LogTextType DEF TypeOK, Wanted
  <2>3. Len(Wanted(t)') \in Nat
    BY <2>2
  <2>4. done'[t] = 0 /\ base'[t] = base[t] /\ file' = file
    BY <1>1, <1>6, <2>1, LoopsStep
  <2>5. \/ pc'[t] = "write" /\ t \in Appenders
        \/ pc'[t] \in Idle
    BY <1>1, <1>6, LoopsStep DEF TypeOK
  <2>6. (pc[t] = "write")' => (done[t] <= Len(Wanted(t)))'
    BY <2>3, <2>4
  <2> QED BY <2>1, <2>4, <2>5, <2>6 DEF WritesInLogOf, InSession, Idle
<1>7. CASE Stops(t)
  BY <1>1, <1>7 DEF Stops, Ends, WritesInLogOf, InSession, TypeOK, Idle
<1>8. CASE Signal(t)
  BY <1>1, <1>8 DEF Signal, logVars, writeVars, WritesInLogOf, InSession, Wanted, TypeOK, Idle
<1>9. CASE WriteSome(t) \/ WriteTorn(t)
  <2>1. PICK k \in 0..Len(Wanted(t)) :
          done' = [done EXCEPT ![t] = k] /\ base[t] + k <= Len(file')
    BY <1>9, WriteStep
  <2>2. pc' = pc /\ base' = base /\ Wanted(t)' = Wanted(t) /\ pc[t] = "write"
    BY <1>9 DEF WriteSome, WriteTorn, logVars, Wanted
  <2>3. Len(Wanted(t)) \in Nat
    BY <1>1, WantedType
  <2> QED BY <1>1, <2>1, <2>2, <2>3 DEF WritesInLogOf, TypeOK
<1>10. CASE Truncate(t)
  <2>1. base[t] + done[t] <= Len(file)
    BY <1>1, <1>10 DEF WritesInLogOf, InSession, Truncate
  <2>2. Len(file') = base[t] + done[t]
    BY <1>1, <1>10, <2>1 DEF Truncate, TypeOK
  <2> QED BY <1>1, <1>10, <2>2
             DEF Truncate, WriteEnds, WritesInLogOf, InSession, TypeOK, Idle
<1>11. CASE WriteFails(t)
  BY <1>1, <1>11 DEF WriteFails, WriteEnds, WritesInLogOf, InSession, TypeOK, Idle
<1> QED BY <1>2, <1>3, <1>4, <1>5, <1>6, <1>7, <1>8, <1>9, <1>10, <1>11

LEMMA WritesStep ==
  ASSUME IInv, TypeOK', [Next]_vars
  PROVE  WritesInLog'
PROOF
<1>1. CASE UNCHANGED vars
  BY <1>1 DEF vars, logVars, writeVars, IInv, WritesInLog, InSession, Wanted
<1>2. CASE AppendForeign
  <2>1. /\ \A t \in Appenders : pc[t] = "off"
        /\ UNCHANGED <<pc, base, nl, done, stamps>>
    BY <1>2, TrackersAssumption DEF AppendForeign, logVars, writeVars, IInv, OneOwner
  <2> QED BY <2>1 DEF IInv, WritesInLog, InSession, Wanted, Idle
<1>3. ASSUME NEW t \in Trackers,
             \/ StartPlain(t) \/ OpenLog(t) \/ OpenLogFails(t)
             \/ Runs(t) \/ KeyArrives(t) \/ Signal(t) \/ Crash(t)
      PROVE  WritesInLog'
  <2>1. WritesInLogOf(t)'
    BY <1>3, StepKinds, OwnWrites
  <2>2. OthersAlone(t) /\ (file' # file => t \in Appenders /\ lock = t)
    BY <1>3, StepKinds, FrameStep
  <2>3. \A u \in Trackers \ {t} : WritesInLogOf(u)'
    BY <2>2, OthersWrites
  <2> QED BY <2>1, <2>3 DEF WritesInLog, WritesInLogOf
<1> QED BY <1>1, <1>2, <1>3 DEF Next

-----------------------------------------------------------------------------
(* What follows.                                                           *)

LEMMA InitIInv == Init => IInv
PROOF
<1> SUFFICES ASSUME Init PROVE OneOwner /\ WritesInLog
  BY InitType DEF IInv
<1>1. OneOwner
  BY TrackersAssumption DEF Init, OneOwner
<1>2. WritesInLog
  BY DEF Init, WritesInLog, InSession, Idle
<1> QED BY <1>1, <1>2

LEMMA NextIInv == IInv /\ [Next]_vars => IInv'
PROOF BY TypeStep, OwnerStep, WritesStep DEF IInv

\* The strengthened invariant holds in every reachable state.
THEOREM Invariance == Spec => []IInv
PROOF BY InitIInv, NextIInv, PTL DEF Spec

\* Every variable keeps its type: in particular no stamp of a session ever leaves
\* the range of dk_secs, and a write never leaves a hole in LOG.
THEOREM TypeCorrect == Spec => []TypeOK
PROOF BY Invariance, PTL DEF IInv

\* Of any number of trackers started on LOG, one at a time is past the lock.
THEOREM OneOwnerAlways == Spec => []OneOwner
PROOF BY Invariance, PTL DEF IInv

\* No step, whoever takes it, touches what was in LOG before a session's own
\* lines: short and torn writes, failures, a truncation, a crash, other trackers.
THEOREM OlderLinesAreKept == Spec => OlderLinesKept
PROOF
<1>1. ASSUME IInv, [Next]_vars, NEW t \in Appenders, InSession(t)
      PROVE  /\ Len(file') >= base[t]
             /\ \A i \in 1..base[t] : file'[i] = file[i]
  <2>1. /\ t \in Trackers /\ lock = t /\ pc[t] # "off"
        /\ base[t] \in Nat /\ done[t] \in Nat /\ base[t] + done[t] <= Len(file)
        /\ file \in Seq(Cell)
    BY <1>1, TrackersAssumption
       DEF IInv, OneOwner, WritesInLog, TypeOK, InSession, Idle
  <2>2. CASE file' = file
    BY <2>1, <2>2
  <2>3. CASE file' # file
    <3>1. ~AppendForeign
      BY <2>1, TrackersAssumption DEF AppendForeign
    <3>2. PICK u \in Trackers :
            \/ StartPlain(u) \/ OpenLog(u) \/ OpenLogFails(u)
            \/ Runs(u) \/ KeyArrives(u) \/ Signal(u) \/ Crash(u)
      BY <1>1, <2>3, <3>1 DEF Next, vars
    <3>3. u = t
      BY <1>1, <2>1, <2>3, <3>2, StepKinds, FrameStep
    <3>4. WriteSome(t) \/ WriteTorn(t) \/ Truncate(t)
      BY <1>1, <2>3, <3>2, <3>3, StepKinds, LoopsStep
         DEF IInv, StartPlain, OpenLog, Resume, LoadAtEnd, Stops, Ends, Signal, WriteFails
    <3>5. CASE WriteSome(t) \/ WriteTorn(t)
      <4>1. IInv /\ t \in Trackers
        BY <1>1, <2>1
      <4>2. /\ file' \in Seq(Cell) /\ Len(file') >= Len(file)
            /\ \A i \in 1..base[t] : file'[i] = file[i]
        BY <3>5, <4>1, WriteStep, Zenon
      <4>3. Len(file) \in Nat /\ Len(file') \in Nat
        BY <2>1, <4>2
      <4> QED BY <2>1, <4>2, <4>3
    <3>6. CASE Truncate(t)
      BY <2>1, <3>6 DEF Truncate
    <3> QED BY <3>4, <3>5, <3>6
  <2> QED BY <2>2, <2>3
<1>2. IInv /\ [Next]_vars
      => [\A t \in Appenders : InSession(t) =>
            /\ Len(file') >= base[t]
            /\ \A i \in 1..base[t] : file'[i] = file[i]]_vars
  BY <1>1
<1> QED BY <1>2, Invariance, PTL DEF Spec, OlderLinesKept

-----------------------------------------------------------------------------
(* Every END is one of its START.                                          *)

Ordered(st) == \A i \in 1..Len(st) : i % 2 = 0 => IsEndOf(st[i], st[i - 1])

LEMMA StampOrdered ==
  ASSUME TypeOK, NEW t \in Trackers, NEW now \in Instants, Ordered(stamps[t])
  PROVE  Ordered(Append(stamps[t], StampNow(t, now)))
PROOF
<1> DEFINE st == stamps[t]
           n  == Len(st)
<1>1. st \in Seq(Secs) /\ n \in Nat /\ now \in Int
  BY InputsAssumption, SecsAreInts DEF TypeOK
<1>2. ASSUME n % 2 = 1 PROVE n \in 1..n /\ st[n] \in Int /\ StampNow(t, now) >= st[n]
  <2>1. n \in 1..n
    BY <1>1, <1>2, OddIsPositive
  <2>2. st[n] \in Secs
    BY <1>1, <2>1
  <2>3. st[n] \in Int
    BY <2>2, SecsAreInts
  <2> QED BY <1>1, <1>2, <2>1, <2>3 DEF StampNow, LastStamp
<1> HIDE DEF n, st
<1> DEFINE s   == StampNow(t, now)
           new == Append(st, s)
<1>3. s \in Secs
  BY InputsAssumption, LastStampType DEF StampNow, n, st
<1> HIDE DEF s
<1>4. /\ Len(new) = n + 1 /\ new[n + 1] = s
      /\ \A i \in 1..n : new[i] = st[i]
  BY <1>1, <1>3 DEF n
<1>5. ASSUME NEW i \in 1..(n + 1), i % 2 = 0 PROVE IsEndOf(new[i], new[i - 1])
  <2>1. CASE i = n + 1
    <3>1. n % 2 = 1
      BY <1>1, <1>5, <2>1
    <3>2. n \in 1..n /\ s >= st[n] /\ st[n] \in Int /\ s \in Int
      BY <1>2, <1>3, <3>1, SecsAreInts DEF s
    <3>3. new[n] = st[n] /\ i - 1 = n
      BY <1>1, <1>4, <2>1, <3>2
    <3>4. IsEndOf(s, st[n])
      BY <3>2 DEF IsEndOf
    <3> QED BY <1>4, <2>1, <3>3, <3>4
  <2>2. CASE i # n + 1
    <3>1. i \in 1..n /\ i - 1 \in 1..n
      BY <1>1, <1>5, <2>2
    <3>2. IsEndOf(st[i], st[i - 1])
      BY <1>5, <3>1 DEF Ordered, st, n
    <3> QED BY <1>4, <3>1, <3>2
  <2> QED BY <2>1, <2>2
<1>6. \A i \in 1..Len(new) : i % 2 = 0 => IsEndOf(new[i], new[i - 1])
  BY <1>4, <1>5
<1> QED BY <1>6 DEF Ordered, s, st

LEMMA RemoveOrdered ==
  ASSUME NEW st \in Seq(Secs), st # <<>>, Ordered(st)
  PROVE  Ordered(SubSeq(st, 1, Len(st) - 1))
PROOF
<1> DEFINE n   == Len(st)
           new == SubSeq(st, 1, n - 1)
<1>1. n \in Nat /\ n >= 1
  OBVIOUS
<1>2. /\ Len(new) = n - 1
      /\ \A i \in 1..(n - 1) : new[i] = st[i]
  BY <1>1
<1>3. ASSUME NEW i \in 1..(n - 1), i % 2 = 0 PROVE IsEndOf(new[i], new[i - 1])
  <2>1. i - 1 \in 1..(n - 1) /\ i \in 1..n
    BY <1>1, <1>3
  <2>2. IsEndOf(st[i], st[i - 1])
    BY <1>3, <2>1 DEF Ordered
  <2> QED BY <1>2, <2>1, <2>2
<1> HIDE DEF new
<1>4. \A i \in 1..Len(new) : i % 2 = 0 => IsEndOf(new[i], new[i - 1])
  BY <1>2, <1>3
<1> QED BY <1>4 DEF Ordered, new

\* edit_last reads an END against the stamp above it: what dk_parse_end
\* returns is an END of it.
LEMMA EditOrdered ==
  ASSUME TypeOK, NEW t \in Trackers, Ordered(stamps[t]),
         NEW x \in Typed \union {FmtStamp(LastStamp(t))}, NEW now,
         EditedTo(t, x, now).r = 0
  PROVE  Ordered([stamps[t] EXCEPT ![Len(stamps[t])] = EditedTo(t, x, now).out])
PROOF
<1> DEFINE st  == stamps[t]
           n   == Len(st)
           v   == EditedTo(t, x, now).out
           new == [st EXCEPT ![n] = v]
<1>1. st \in Seq(Secs) /\ n \in Nat
  BY DEF TypeOK
<1>2. v \in Secs
  BY EditedToInRange
<1>3. ASSUME n \in 1..n, n # 1 PROVE IsEndOf(v, st[n - 1])
  <2>0. n - 1 \in 1..n
    <3>1. n \in Nat /\ n >= 1 /\ n # 1
      BY <1>1, <1>3
    <3> HIDE DEF n
    <3> QED BY <3>1
  <2>1. LastStamp(t) \in Secs /\ st[n - 1] \in Secs
    <3>1. \A i \in 1..n : st[i] \in Secs
      BY <1>1
    <3> QED BY <1>3, <2>0, <3>1 DEF LastStamp
  <2>2. x \in Text
    BY <2>1, FmtStampType, SecsAreInts, InputsAssumption
  <2>3. EditedTo(t, x, now) = ParseEnd(x, st[n - 1])
    BY <1>3 DEF EditedTo
  <2> QED BY <2>1, <2>2, <2>3, ParseEndNotBefore
<1> HIDE DEF v, n, st
<1>4. /\ Len(new) = n
      /\ n \in 1..n => new[n] = v
      /\ \A i \in 1..n : i # n => new[i] = st[i]
  BY <1>1, <1>2, ReplaceType DEF n
<1>5. ASSUME NEW i \in 1..n, i % 2 = 0 PROVE IsEndOf(new[i], new[i - 1])
  <2>1. i \in Int /\ i # 1
    BY <1>1, <1>5
  <2>2. i - 1 \in 1..n /\ i - 1 # n
    BY <1>1, <2>1
  <2>3. CASE i = n
    <3>1. n \in 1..n /\ n # 1
      BY <2>1, <2>3
    <3>2. IsEndOf(v, st[n - 1])
      BY <1>3, <3>1
    <3> QED BY <1>4, <2>2, <2>3, <3>1, <3>2
  <2>4. CASE i # n
    <3>1. IsEndOf(st[i], st[i - 1])
      BY <1>5 DEF Ordered, st, n
    <3> QED BY <1>4, <2>2, <2>4, <3>1
  <2> QED BY <2>3, <2>4
<1> HIDE DEF new
<1>6. \A i \in 1..Len(new) : i % 2 = 0 => IsEndOf(new[i], new[i - 1])
  BY <1>4, <1>5
<1> QED BY <1>6 DEF Ordered, new, v, n, st

LEMMA OneIsOrdered == \A v : Ordered(<<v>>)
PROOF BY DEF Ordered

LEMMA HandlerOrdered ==
  ASSUME TypeOK, NEW t \in Trackers, Handler(t), Ordered(stamps[t])
  PROVE  Ordered(stamps'[t])
PROOF
<1> USE DEF Says
<1>0. stamps \in [Trackers -> Seq(Secs)]
  BY DEF TypeOK
<1>1. CASE Stamp(t)
  <2>1. PICK now \in Instants :
          \/ stamps' = [stamps EXCEPT ![t] = Append(stamps[t], StampNow(t, now))]
          \/ UNCHANGED stamps
    BY <1>1 DEF Stamp
  <2> HIDE DEF Says
  <2>2. Ordered(Append(stamps[t], StampNow(t, now)))
    BY StampOrdered
  <2>3. \/ stamps'[t] = Append(stamps[t], StampNow(t, now))
        \/ stamps'[t] = stamps[t]
    BY <1>0, <2>1
  <2> QED BY <2>2, <2>3, Zenon
<1>2. CASE Remove(t)
  BY <1>0, <1>2, RemoveOrdered DEF Remove
<1>3. CASE EditEnter(t)
  <2>1. PICK x \in Typed \union {FmtStamp(LastStamp(t))}, now \in Instants :
          \/ /\ EditedTo(t, x, now).r = 0
             /\ stamps' = [stamps EXCEPT ![t] =
                  [stamps[t] EXCEPT ![Len(stamps[t])] = EditedTo(t, x, now).out]]
          \/ UNCHANGED stamps
    BY <1>3 DEF EditEnter
  <2> DEFINE edited == [stamps[t] EXCEPT ![Len(stamps[t])] = EditedTo(t, x, now).out]
  <2>2. EditedTo(t, x, now).r = 0 => Ordered(edited)
    BY EditOrdered
  <2>3. \/ EditedTo(t, x, now).r = 0 /\ stamps'[t] = edited
        \/ stamps'[t] = stamps[t]
    BY <1>0, <2>1
  <2> HIDE DEF edited
  <2> QED BY <2>2, <2>3, Zenon
<1>4. CASE Save(t) \/ Quit(t) \/ OtherKey(t) \/ Edit(t) \/ EditType(t) \/ EditCancel(t)
  BY <1>4 DEF Save, Quit, OtherKey, Edit, EditType, EditCancel
<1> QED BY <1>1, <1>2, <1>3, <1>4 DEF Handler

LEMMA OrderedStep ==
  ASSUME IInv, EndNotBeforeStart, [Next]_vars
  PROVE  EndNotBeforeStart'
PROOF
<1> USE DEF EndNotBeforeStart, Ordered
<1>1. CASE UNCHANGED vars
  BY <1>1 DEF vars
<1>2. CASE AppendForeign
  BY <1>2 DEF AppendForeign
<1>3. ASSUME NEW t \in Trackers,
             \/ StartPlain(t) \/ OpenLog(t) \/ OpenLogFails(t)
             \/ Runs(t) \/ KeyArrives(t) \/ Signal(t) \/ Crash(t)
      PROVE  EndNotBeforeStart'
  <2>1. stamps \in [Trackers -> Seq(Secs)] /\ Ordered(stamps[t])
    BY DEF IInv, TypeOK
  <2>2. \A u \in Trackers \ {t} : stamps'[u] = stamps[u]
    BY <1>3, StepKinds, FrameStep DEF OthersAlone
  <2>3. Ordered(stamps'[t])
    <3> HIDE DEF Ordered, EndNotBeforeStart
    <3>1. CASE Handler(t)
      BY <2>1, <3>1, HandlerOrdered DEF IInv
    <3>2. CASE Stops(t)
      <4>1. stamps'[t] = <<>>
        BY <2>1, <3>2 DEF Stops, Ends
      <4> QED BY <4>1 DEF Ordered
    <3>3. CASE Resume(t)
      BY <2>1, <3>3, OneIsOrdered DEF Resume
    <3>4. CASE /\ ~Handler(t) /\ ~Stops(t) /\ ~Resume(t)
      <4>1. stamps' = stamps
        BY <1>3, <3>4, StepKinds
           DEF Loops, StartPlain, OpenLog, LoadAtEnd, Render, CheckCaught, EnterRead,
               EndOfInput, ReadFails, Signal, WriteSome, WriteTorn, Truncate, WriteFails
      <4> QED BY <2>1, <4>1
    <3> QED BY <3>1, <3>2, <3>3, <3>4
  <2>4. \A u \in Trackers : Ordered(stamps'[u])
    <3> HIDE DEF Ordered
    <3>1. \A u \in Trackers : Ordered(stamps[u])
      BY DEF Ordered
    <3> QED BY <2>2, <2>3, <3>1
  <2> QED BY <2>4
<1> QED BY <1>1, <1>2, <1>3 DEF Next

\* No END is before its START in any tracker's list, save by less than two of the
\* zone's offsets differ, whatever the clock and the zone do, whatever is typed in
\* the edit line and whatever an open entry says.
THEOREM StoredEndsAreEnds == Spec => []EndNotBeforeStart
PROOF
<1>1. Init => EndNotBeforeStart
  BY DEF Init, EndNotBeforeStart
<1>2. EndNotBeforeStart /\ IInv /\ [Next]_vars => EndNotBeforeStart'
  BY OrderedStep
<1> QED BY <1>1, <1>2, Invariance, PTL DEF Spec

-----------------------------------------------------------------------------
(* The sums that render makes.  fits_total has added them up, checked, before *)
(* each change of the stamps, and what is left after a removal fits as well.  *)

Fits == \A t \in Trackers : FitsTotal(stamps[t])

Results == {Bad} \union {Good(v) : v \in Secs}

\* One stamp more in the checked total, and in render's.
CheckStep(st, sum, k) ==
  IF k % 2 = 1 \/ sum.r # 0 THEN sum
  ELSE IF Sub(st[k], st[k - 1]).r # 0 THEN Bad
  ELSE Add(sum.out, Sub(st[k], st[k - 1]).out)
RenderStep(st, total, k) == IF k % 2 = 1 THEN total ELSE total + st[k] - st[k - 1]

RenderSums(st) ==
  LET total[k \in 0..Len(st)] ==
        IF k = 0 THEN 0
        ELSE IF k % 2 = 1 THEN total[k - 1]
        ELSE total[k - 1] + st[k] - st[k - 1]
  IN total

LEMMA NarrowIsResult == \A v : Narrow(v) \in Results
PROOF BY DEF Narrow, Results

LEMMA ResultIs ==
  ASSUME NEW q \in Results, q.r = 0
  PROVE  q.out \in Secs
PROOF BY DEF Results, Good, Bad

LEMMA CheckedIs ==
  ASSUME NEW st \in Seq(Secs)
  PROVE  \E f \in [0..Len(st) -> Results] :
           /\ f[0] = Good(0) /\ \A k \in 1..Len(st) : f[k] = CheckStep(st, f[k - 1], k)
           /\ CheckedTotal(st) = f[Len(st)]
PROOF
<1> DEFINE N == Len(st)
           Step(q, k) == CheckStep(st, q, k)
           Is(f) == f = [k \in 0..N |-> IF k = 0 THEN Good(0) ELSE Step(f[k - 1], k)]
           g == CHOOSE g0 : Is(g0)
           first == Good(0)
           h == [p \in (1..N) \X Results |-> Step(p[2], p[1])]
<1>1. N \in Nat
  OBVIOUS
<1>2. \A q \in Results, k \in 1..N : Step(q, k) \in Results
  <2>1. Bad \in Results /\ \A a, b : Add(a, b) \in Results
    BY NarrowIsResult DEF Add, Results
  <2> QED BY <2>1 DEF CheckStep
<1>3. first \in Results
  BY SecsAssumption DEF Results, Secs
<1>4. CheckedTotal(st) = g[N]
  BY DEF CheckedTotal, CheckStep
<1> SUFFICES \E f \in [0..N -> Results] :
               /\ f[0] = first /\ \A k \in 1..N : f[k] = Step(f[k - 1], k)
               /\ g[N] = f[N]
  BY <1>4
<1>5. \A f : Is(f) <=> f = [k \in 0..N |-> IF k = 0 THEN first ELSE Step(f[k - 1], k)]
  OBVIOUS
<1> HIDE DEF N, Step, Is, first
<1>6. h \in [(1..N) \X Results -> Results] /\ \A k \in 1..N, q \in Results : h[<<k, q>>] = Step(q, k)
  BY <1>2
<1> HIDE DEF h
<1>7. PICK f \in [0..N -> Results] : f[0] = first /\ \A k \in 1..N : f[k] = h[<<k, f[k - 1]>>]
  <2> SUFFICES HasFunction(0, 1, N, Results, first, h)
    BY Zenon DEF HasFunction
  <2>1. 0 < 1 /\ 1 <= 0 + 1 /\ 0 \in Int /\ 1 \in Int /\ N \in Int /\ 0 <= N
    BY <1>1
  <2> QED BY <1>3, <1>6, <2>1, RecursiveFunction
<1>8. /\ \A k \in 1..N : k \in 0..N /\ k - 1 \in 0..N /\ k # 0
      /\ \A k \in 0..N : k # 0 => k \in 1..N
      /\ 0 \in 0..N /\ N \in 0..N
  BY <1>1
<1>9. \A k \in 1..N : f[k] = Step(f[k - 1], k)
  BY <1>6, <1>7, <1>8
<1>10. Is(f)
  BY <1>5, <1>7, <1>8, <1>9
<1>11. Is(g)
  BY <1>10, Zenon
<1> HIDE DEF g
<1>12. g[0] = first /\ \A k \in 1..N : g[k] = Step(g[k - 1], k)
  BY <1>5, <1>8, <1>11
<1>13. Alike(f, g, 0, N)
  <2>1. GoAlike(f, g, 1, N)
    BY <1>9, <1>12 DEF GoAlike
  <2>2. f[0] = g[0] /\ 0 < 1 /\ 1 <= 0 + 1 /\ 0 \in Int /\ 1 \in Int /\ N \in Int
    BY <1>1, <1>7, <1>12
  <2> QED BY <2>1, <2>2, SameRecursion
<1> QED BY <1>7, <1>8, <1>9, <1>13 DEF Alike

LEMMA RenderIs ==
  ASSUME NEW st \in Seq(Secs)
  PROVE  /\ RenderSums(st)[0] = 0
         /\ \A k \in 1..Len(st) : RenderSums(st)[k] = RenderStep(st, RenderSums(st)[k - 1], k)
PROOF
<1> DEFINE N == Len(st)
           Step(q, k) == RenderStep(st, q, k)
           Is(f) == f = [k \in 0..N |-> IF k = 0 THEN 0 ELSE Step(f[k - 1], k)]
           g == CHOOSE g0 : Is(g0)
           h == [p \in (1..N) \X Int |-> Step(p[2], p[1])]
<1>1. N \in Nat /\ \A k \in 1..N : st[k] \in Int
  <2> HIDE DEF N
  <2>1. N \in Nat /\ \A k \in 1..N : st[k] \in Secs
    BY DEF N
  <2>2. \A k \in 1..N : st[k] \in Int
    BY <2>1, SecsAreInts
  <2> QED BY <2>1, <2>2
<1>2. \A q \in Int, k \in 1..N : Step(q, k) \in Int
  <2>1. ASSUME NEW k \in 1..N, k % 2 # 1 PROVE k - 1 \in 1..N
    BY <1>1, <2>1
  <2> QED BY <1>1, <2>1 DEF RenderStep
<1>3. RenderSums(st) = g
  BY DEF RenderSums, RenderStep
<1> SUFFICES g[0] = 0 /\ \A k \in 1..N : g[k] = Step(g[k - 1], k)
  BY <1>3
<1>4. \A f : Is(f) <=> f = [k \in 0..N |-> IF k = 0 THEN 0 ELSE Step(f[k - 1], k)]
  OBVIOUS
<1> HIDE DEF N, Step, Is
<1>5. h \in [(1..N) \X Int -> Int] /\ \A k \in 1..N, q \in Int : h[<<k, q>>] = Step(q, k)
  BY <1>2
<1> HIDE DEF h
<1>6. PICK f \in [0..N -> Int] : f[0] = 0 /\ \A k \in 1..N : f[k] = h[<<k, f[k - 1]>>]
  <2> SUFFICES HasFunction(0, 1, N, Int, 0, h)
    BY Zenon DEF HasFunction
  <2>1. 0 < 1 /\ 1 <= 0 + 1 /\ 0 \in Int /\ 1 \in Int /\ N \in Int /\ 0 <= N
    BY <1>1
  <2> QED BY <1>5, <2>1, RecursiveFunction
<1>7. /\ \A k \in 1..N : k \in 0..N /\ k - 1 \in 0..N /\ k # 0
      /\ \A k \in 0..N : k # 0 => k \in 1..N
      /\ 0 \in 0..N
  BY <1>1
<1>8. \A k \in 1..N : f[k] = Step(f[k - 1], k)
  BY <1>5, <1>6, <1>7
<1>9. Is(f)
  BY <1>4, <1>6, <1>7, <1>8
<1>10. Is(g)
  BY <1>9, Zenon
<1> HIDE DEF g
<1> QED BY <1>4, <1>7, <1>10

\* An error in the checked total stays: all the partial sums of one that fits do.
LEMMA FitsThroughout ==
  ASSUME NEW st \in Seq(Secs), NEW f \in [0..Len(st) -> Results],
         \A k \in 1..Len(st) : f[k] = CheckStep(st, f[k - 1], k), f[Len(st)].r = 0
  PROVE  \A k \in 0..Len(st) : f[k].r = 0
PROOF
<1> DEFINE N == Len(st)
           T == {m \in 0..N : f[N - m].r = 0}
<1>1. N \in Nat /\ N - 0 = N
  OBVIOUS
<1> HIDE DEF N
<1>2. 0 \in T
  BY <1>1 DEF N
<1>3. ASSUME NEW m \in (0 + 1)..N, m - 1 \in T PROVE m \in T
  <2> DEFINE k == N - (m - 1)
  <2>1. k \in 1..N /\ k - 1 = N - m /\ m \in 0..N /\ f[k].r = 0
    BY <1>1, <1>3
  <2> HIDE DEF k
  <2>2. f[k] = CheckStep(st, f[k - 1], k)
    BY <2>1 DEF N
  <2>3. f[k - 1].r = 0
    BY <2>1, <2>2 DEF CheckStep
  <2> QED BY <2>1, <2>3
<1> HIDE DEF T
<1>4. \A m \in 0..N : m \in T
  <2>1. 0 \in Int /\ N \in Int
    BY <1>1
  <2> QED BY <1>2, <1>3, <2>1, IntervalInduction
<1>5. ASSUME NEW k \in 0..N PROVE f[k].r = 0
  <2>1. N - k \in 0..N /\ N - (N - k) = k
    BY <1>1
  <2> QED BY <1>4, <2>1 DEF T
<1> QED BY <1>5 DEF N

LEMMA OneFits == FitsTotal(<<>>) /\ \A v \in Secs : FitsTotal(<<v>>)
PROOF
<1>1. Good(0).r = 0
  BY DEF Good
<1>2. FitsTotal(<<>>)
  <2>1. <<>> \in Seq(Secs) /\ Len(<<>>) = 0
    OBVIOUS
  <2> QED BY <1>1, <2>1, CheckedIs DEF FitsTotal
<1>3. ASSUME NEW v \in Secs PROVE FitsTotal(<<v>>)
  <2> DEFINE st == <<v>>
  <2>1. st \in Seq(Secs) /\ Len(st) = 1
    OBVIOUS
  <2> HIDE DEF st
  <2>2. PICK f \in [0..Len(st) -> Results] :
          /\ f[0] = Good(0) /\ \A k \in 1..Len(st) : f[k] = CheckStep(st, f[k - 1], k)
          /\ CheckedTotal(st) = f[Len(st)]
    BY <2>1, CheckedIs
  <2>3. f[1] = CheckStep(st, f[1 - 1], 1)
    BY <2>1, <2>2
  <2>4. f[1] = f[0]
    BY <2>3 DEF CheckStep
  <2> QED BY <1>1, <2>1, <2>2, <2>4 DEF FitsTotal, st
<1> QED BY <1>2, <1>3

LEMMA RemoveFits ==
  ASSUME NEW st \in Seq(Secs), st # <<>>, FitsTotal(st)
  PROVE  FitsTotal(SubSeq(st, 1, Len(st) - 1))
PROOF
<1> DEFINE n   == Len(st) - 1
           new == SubSeq(st, 1, n)
<1>1. /\ n \in Nat /\ Len(st) = n + 1 /\ new \in Seq(Secs) /\ Len(new) = n
      /\ \A i \in 1..n : new[i] = st[i]
  <2>1. n \in Nat /\ Len(st) = n + 1
    OBVIOUS
  <2> HIDE DEF n
  <2>2. \A i \in 1..n : st[i] \in Secs
    BY <2>1
  <2>3. new \in Seq(Secs) /\ Len(new) = n /\ \A i \in 1..n : new[i] = st[i]
    BY <2>1, <2>2
  <2> QED BY <2>1, <2>3
<1> HIDE DEF new
<1>2. PICK f \in [0..Len(st) -> Results] :
        /\ f[0] = Good(0) /\ \A k \in 1..Len(st) : f[k] = CheckStep(st, f[k - 1], k)
        /\ CheckedTotal(st) = f[Len(st)]
  BY CheckedIs
<1>3. PICK g \in [0..Len(new) -> Results] :
        /\ g[0] = Good(0) /\ \A k \in 1..Len(new) : g[k] = CheckStep(new, g[k - 1], k)
        /\ CheckedTotal(new) = g[Len(new)]
  BY <1>1, CheckedIs
<1>4. \A k \in 0..Len(st) : f[k].r = 0
  BY <1>2, FitsThroughout DEF FitsTotal
<1>5. GoAlike(f, g, 1, n)
  <2>1. ASSUME NEW k \in 1..n, f[k - 1] = g[k - 1] PROVE f[k] = g[k]
    <3>1. k \in 1..Len(st) /\ k \in 1..Len(new) /\ new[k] = st[k]
      BY <1>1
    <3>2. k % 2 = 1 \/ k - 1 \in 1..n
      <4>1. CASE k = 1
        BY <4>1
      <4>2. CASE k # 1
        BY <1>1, <4>2
      <4> QED BY <4>1, <4>2
    <3>3. f[k] = CheckStep(st, f[k - 1], k) /\ g[k] = CheckStep(new, f[k - 1], k)
      BY <1>2, <1>3, <2>1, <3>1
    <3>4. k % 2 = 1 \/ new[k - 1] = st[k - 1]
      BY <1>1, <3>2
    <3> QED BY <3>1, <3>3, <3>4 DEF CheckStep
  <2> QED BY <2>1 DEF GoAlike
<1>6. Alike(f, g, 0, n)
  <2>1. f[0] = g[0] /\ 0 < 1 /\ 1 <= 0 + 1 /\ 0 \in Int /\ 1 \in Int /\ n \in Int
    BY <1>1, <1>2, <1>3
  <2> HIDE DEF n
  <2> QED BY <1>5, <2>1, SameRecursion
<1>7. n \in 0..n /\ n \in 0..Len(st)
  BY <1>1
<1>8. CheckedTotal(new).r = 0
  BY <1>1, <1>3, <1>4, <1>6, <1>7 DEF Alike
<1> QED BY <1>8 DEF FitsTotal, new

\* Where the checked total fits, so does every sum that render makes unchecked.
LEMMA RenderFits ==
  ASSUME NEW st \in Seq(Secs), FitsTotal(st)
  PROVE  \A k \in 1..Len(st) :
           /\ RenderSums(st)[k] \in Secs
           /\ k % 2 = 0 => st[k] - st[k - 1] \in Secs
PROOF
<1> DEFINE N == Len(st)
           g == RenderSums(st)
<1>1. PICK f \in [0..N -> Results] :
        /\ f[0] = Good(0) /\ \A k \in 1..N : f[k] = CheckStep(st, f[k - 1], k)
        /\ CheckedTotal(st) = f[N]
  BY CheckedIs
<1>2. \A k \in 0..N : f[k].r = 0
  BY <1>1, FitsThroughout DEF FitsTotal
<1>3. g[0] = 0 /\ \A k \in 1..N : g[k] = RenderStep(st, g[k - 1], k)
  BY RenderIs
<1> HIDE DEF g
<1>4. N \in Nat /\ \A k \in 1..N : k \in 0..N /\ k - 1 \in 0..N
  OBVIOUS
<1>5. ASSUME NEW k \in 1..N, k % 2 # 1
      PROVE  LET d == st[k] - st[k - 1]
             IN d \in Secs /\ Add(f[k - 1].out, d).r = 0 /\ f[k] = Add(f[k - 1].out, d)
  <2> DEFINE d == st[k] - st[k - 1]
  <2>1. f[k] = CheckStep(st, f[k - 1], k) /\ f[k].r = 0 /\ f[k - 1].r = 0
    BY <1>1, <1>2, <1>4
  <2>2. Bad.r # 0
    BY DEF Bad
  <2>3. Sub(st[k], st[k - 1]).r = 0 /\ f[k] = Add(f[k - 1].out, Sub(st[k], st[k - 1]).out)
    BY <1>5, <2>1, <2>2 DEF CheckStep
  <2>4. Sub(st[k], st[k - 1]).out = d /\ d \in Secs
    BY <2>3, NarrowGood DEF Sub
  <2> QED BY <2>1, <2>3, <2>4
<1> DEFINE T == {k \in 0..N : g[k] = f[k].out}
<1>6. 0 \in T
  BY <1>1, <1>3, <1>4 DEF Good
<1>7. ASSUME NEW k \in (0 + 1)..N, k - 1 \in T PROVE k \in T
  <2>1. k \in 1..N /\ k \in 0..N /\ k - 1 \in 0..N /\ g[k - 1] = f[k - 1].out
    BY <1>4, <1>7
  <2>2. g[k] = RenderStep(st, g[k - 1], k) /\ f[k] = CheckStep(st, f[k - 1], k)
    BY <1>1, <1>3, <2>1
  <2>3. CASE k % 2 = 1
    BY <2>1, <2>2, <2>3 DEF RenderStep, CheckStep
  <2>4. CASE k % 2 # 1
    <3> DEFINE d == st[k] - st[k - 1]
    <3>1. Add(f[k - 1].out, d).r = 0 /\ f[k] = Add(f[k - 1].out, d)
      BY <1>5, <2>1, <2>4
    <3>2. f[k].out = f[k - 1].out + d
      BY <3>1, NarrowGood DEF Add
    <3>3. g[k] = g[k - 1] + d
      BY <2>2, <2>4 DEF RenderStep
    <3> QED BY <2>1, <3>2, <3>3
  <2> QED BY <2>3, <2>4
<1> HIDE DEF T, N
<1>8. \A k \in 0..N : k \in T
  <2>1. 0 \in Int /\ N \in Int
    BY <1>4
  <2> QED BY <1>6, <1>7, <2>1, IntervalInduction
<1>9. ASSUME NEW k \in 1..N PROVE g[k] \in Secs /\ (k % 2 = 0 => st[k] - st[k - 1] \in Secs)
  <2>1. k \in 0..N /\ k \in T
    BY <1>4, <1>8
  <2>2. f[k] \in Results /\ f[k].r = 0 /\ g[k] = f[k].out
    BY <1>2, <2>1 DEF T
  <2>3. g[k] \in Secs
    BY <2>2, ResultIs
  <2>4. k % 2 = 0 => k % 2 # 1
    OBVIOUS
  <2> QED BY <1>5, <2>3, <2>4
<1> QED BY <1>9 DEF N, g

LEMMA HandlerFits ==
  ASSUME TypeOK, NEW t \in Trackers, Handler(t), FitsTotal(stamps[t])
  PROVE  FitsTotal(stamps'[t])
PROOF
<1> USE DEF Says
<1>1. stamps \in [Trackers -> Seq(Secs)] /\ stamps[t] \in Seq(Secs)
  BY DEF TypeOK
<1>2. CASE Stamp(t)
  <2>1. PICK now \in Instants :
          \/ /\ FitsTotal(Append(stamps[t], StampNow(t, now)))
             /\ stamps' = [stamps EXCEPT ![t] = Append(stamps[t], StampNow(t, now))]
          \/ UNCHANGED stamps
    BY <1>2 DEF Stamp
  <2> QED BY <1>1, <2>1
<1>3. CASE Remove(t)
  BY <1>1, <1>3, RemoveFits DEF Remove
<1>4. CASE EditEnter(t)
  <2>1. PICK x \in Typed \union {FmtStamp(LastStamp(t))}, now \in Instants :
          \/ /\ FitsTotal([stamps[t] EXCEPT ![Len(stamps[t])] = EditedTo(t, x, now).out])
             /\ stamps' = [stamps EXCEPT ![t] =
                  [stamps[t] EXCEPT ![Len(stamps[t])] = EditedTo(t, x, now).out]]
          \/ UNCHANGED stamps
    BY <1>4 DEF EditEnter
  <2> QED BY <1>1, <2>1
<1>5. CASE Save(t) \/ Quit(t) \/ OtherKey(t) \/ Edit(t) \/ EditType(t) \/ EditCancel(t)
  BY <1>5 DEF Save, Quit, OtherKey, Edit, EditType, EditCancel
<1> QED BY <1>2, <1>3, <1>4, <1>5 DEF Handler

LEMMA FitsStep ==
  ASSUME IInv, Fits, [Next]_vars
  PROVE  Fits'
PROOF
<1>1. CASE UNCHANGED vars
  BY <1>1 DEF vars, Fits
<1>2. CASE AppendForeign
  BY <1>2 DEF AppendForeign, Fits
<1>3. ASSUME NEW t \in Trackers,
             \/ StartPlain(t) \/ OpenLog(t) \/ OpenLogFails(t)
             \/ Runs(t) \/ KeyArrives(t) \/ Signal(t) \/ Crash(t)
      PROVE  Fits'
  <2>1. stamps \in [Trackers -> Seq(Secs)] /\ FitsTotal(stamps[t])
    BY DEF IInv, TypeOK, Fits
  <2>2. \A u \in Trackers \ {t} : stamps'[u] = stamps[u]
    BY <1>3, StepKinds, FrameStep DEF OthersAlone
  <2>3. FitsTotal(stamps'[t])
    <3>1. CASE Handler(t)
      BY <2>1, <3>1, HandlerFits DEF IInv
    <3>2. CASE Stops(t)
      <4>1. stamps'[t] = <<>>
        BY <2>1, <3>2 DEF Stops, Ends
      <4> QED BY <4>1, OneFits
    <3>3. CASE Resume(t)
      <4>1. PICK b \in 0..Len(file), now \in Instants :
              /\ ParseStamp(file[b + 1].x, now).r = 0
              /\ stamps' = [stamps EXCEPT ![t] = <<ParseStamp(file[b + 1].x, now).out>>]
        BY <3>3 DEF Resume
      <4>2. ParseStamp(file[b + 1].x, now).out \in Secs
        BY <4>1, ParseStampInRange
      <4> QED BY <2>1, <4>1, <4>2, OneFits
    <3>4. CASE /\ ~Handler(t) /\ ~Stops(t) /\ ~Resume(t)
      <4>1. stamps' = stamps
        BY <1>3, <3>4, StepKinds
           DEF Loops, StartPlain, OpenLog, LoadAtEnd, Render, CheckCaught, EnterRead,
               EndOfInput, ReadFails, Signal, WriteSome, WriteTorn, Truncate, WriteFails
      <4> QED BY <2>1, <4>1
    <3> QED BY <3>1, <3>2, <3>3, <3>4
  <2> QED BY <2>2, <2>3 DEF Fits
<1> QED BY <1>1, <1>2, <1>3 DEF Next

\* The total and the durations on the screen, which render adds up with no check,
\* never leave dk_secs, however many entries there are and whatever was stamped,
\* resumed, removed and edited: push and edit_last ask fits_total first.
THEOREM RenderNeverOverflows == Spec => []RenderTotalsFit
PROOF
<1>1. Init => Fits
  BY OneFits DEF Init, Fits
<1>2. Fits /\ IInv /\ [Next]_vars => Fits'
  BY FitsStep
<1>3. Fits /\ IInv => RenderTotalsFit
  <2>1. ASSUME Fits, IInv, NEW t \in Trackers
        PROVE  \A k \in 1..Len(stamps[t]) :
                 /\ RenderSums(stamps[t])[k] \in Secs
                 /\ k % 2 = 0 => stamps[t][k] - stamps[t][k - 1] \in Secs
    <3>1. stamps[t] \in Seq(Secs) /\ FitsTotal(stamps[t])
      BY <2>1 DEF Fits, IInv, TypeOK
    <3> QED BY <3>1, RenderFits
  <2> QED BY <2>1 DEF RenderTotalsFit, RenderSums
<1> QED BY <1>1, <1>2, <1>3, Invariance, PTL DEF Spec

=============================================================================
