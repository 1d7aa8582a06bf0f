-------------------------- MODULE TrackerLogProofs --------------------------
(***************************************************************************)
(* What is in LOG, proved for any number of trackers: that it is current   *)
(* between keys, what is in it during a write, what the tracker says of    *)
(* it, and that the trackers implement LogFile.                            *)
(***************************************************************************)
EXTENDS TrackerLog, TrackerProofs

\* Cell p of a text that starts after the first off cells of f is there.
Stands(f, off, text, p) == off + p <= Len(f) /\ f[off + p] = text[p]

\* Of one tracker with a log: nothing is left from an earlier session before
\* log_open is over; log_nl tells exactly whether the session's lines follow a
\* newline; a write that has counted cells has written them; between keys LOG is
\* current unless the last write failed; and msg tells of the last write.
LogStateOf(t) ==
  /\ pc[t] \in {"off", "load"} => stamps[t] = <<>> /\ ~nl[t] /\ ~wrote[t] /\ ~logErr[t]
  /\ InSession(t) => (nl[t] <=> base[t] > 0 /\ ~EndsLine(file[base[t]]))
  /\ pc[t] = "write" => \A p \in 1..done[t] : Stands(file, base[t], Wanted(t), p)
  /\ pc[t] \in Idle /\ ~logErr[t] => Current(t)

MsgTells(t) ==
  /\ msg[t] = "saved" => pc[t] = "render" /\ ~logErr[t]
  /\ msg[t] = "cannot_write" => pc[t] = "render" /\ logErr[t]

LogState == \A t \in Appenders : LogStateOf(t) /\ MsgTells(t)

\* The invariant that all the theorems of this module rest on.
LogInv == IInv /\ LogState

-----------------------------------------------------------------------------
(* Steps of another tracker.                                               *)

\* What OthersAlone leaves out: the other trackers' flags and messages.
OthersTell(t) ==
  \A u \in Trackers \ {t} :
    wrote'[u] = wrote[u] /\ logErr'[u] = logErr[u] /\ msg'[u] = msg[u]

LEMMA TellStep ==
  ASSUME TypeOK, NEW t \in Trackers,
         \/ StartPlain(t) \/ OpenLog(t) \/ Resume(t) \/ LoadAtEnd(t)
         \/ Loops(t) \/ Stops(t) \/ Signal(t)
         \/ WriteSome(t) \/ WriteTorn(t) \/ Truncate(t) \/ WriteFails(t)
  PROVE  OthersTell(t)
PROOF
<1> USE DEF OthersTell, TypeOK, logVars
<1>1. CASE StartPlain(t) \/ OpenLog(t) \/ Signal(t)
  BY <1>1 DEF StartPlain, OpenLog, Signal
<1>2. CASE Resume(t) \/ LoadAtEnd(t)
  BY <1>2 DEF Resume, LoadAtEnd
<1>3. CASE Render(t) \/ CheckCaught(t) \/ EnterRead(t) \/ EndOfInput(t) \/ ReadFails(t)
  BY <1>3 DEF Render, CheckCaught, EnterRead, EndOfInput, ReadFails
<1>4. CASE Stamp(t)
  BY <1>4 DEF Stamp, Says
<1>5. CASE Remove(t) \/ Save(t) \/ Quit(t) \/ OtherKey(t)
  BY <1>5 DEF Remove, Save, Quit, OtherKey, Says
<1>6. CASE Edit(t) \/ EditType(t) \/ EditCancel(t)
  BY <1>6 DEF Edit, EditType, EditCancel, Says
<1>7. CASE EditEnter(t)
  BY <1>7 DEF EditEnter, Says
<1>8. CASE Stops(t)
  BY <1>8 DEF Stops, Ends
<1>9. CASE WriteSome(t) \/ WriteTorn(t)
  BY <1>9 DEF WriteSome, WriteTorn
<1>10. CASE Truncate(t) \/ WriteFails(t)
  BY <1>10 DEF Truncate, WriteFails, WriteEnds
<1> QED BY <1>1, <1>2, <1>3, <1>4, <1>5, <1>6, <1>7, <1>8, <1>9, <1>10 DEF Loops, Handler

\* A tracker that does not move keeps its part: LOG changes under the lock only.
LEMMA OthersLogState ==
  ASSUME IInv, NEW t \in Trackers, NEW u \in Appenders, u # t, LogStateOf(u), MsgTells(u),
         OthersAlone(t), OthersTell(t), file' # file => t \in Appenders /\ lock = t
  PROVE  LogStateOf(u)' /\ MsgTells(u)'
PROOF
<1>1. u \in Trackers \ {t}
  BY TrackersAssumption
<1>2. /\ pc'[u] = pc[u] /\ stamps'[u] = stamps[u] /\ base'[u] = base[u]
      /\ nl'[u] = nl[u] /\ done'[u] = done[u]
      /\ wrote'[u] = wrote[u] /\ logErr'[u] = logErr[u] /\ msg'[u] = msg[u]
  BY <1>1 DEF OthersAlone, OthersTell
<1>3. CASE file' = file
  BY <1>2, <1>3 DEF LogStateOf, MsgTells, InSession, Current, OwnCells, Wanted
<1>4. CASE file' # file
  <2>1. pc[u] = "off"
    BY <1>4 DEF IInv, OneOwner
  <2> QED BY <1>2, <2>1 DEF LogStateOf, MsgTells, InSession, Idle
<1> QED BY <1>3, <1>4

-----------------------------------------------------------------------------
(* The steps of a tracker with a log.                                      *)

\* A step of the key loop writes nothing: it goes on with the same stamps, or
\* calls log_write; a write reported before is no longer reported after it.
LEMMA LoopsLog ==
  ASSUME TypeOK, NEW t \in Appenders, Loops(t), MsgTells(t)
  PROVE  /\ UNCHANGED <<wrote, logErr>>
         /\ \/ pc'[t] = "write"
            \/ pc'[t] \in Idle /\ stamps'[t] = stamps[t]
         /\ msg'[t] \notin {"saved", "cannot_write"}
PROOF
<1>0. t \in Trackers
  BY TrackersAssumption
<1> USE <1>0 DEF TypeOK, logVars, Idle, NoKey, Says, LogWrite, MsgTells, MainKey, EditKey
<1>1. CASE Render(t)
  BY <1>1 DEF Render
<1>2. CASE CheckCaught(t)
  BY <1>2 DEF CheckCaught
<1>3. CASE EnterRead(t) \/ EndOfInput(t) \/ ReadFails(t)
  BY <1>3 DEF EnterRead, EndOfInput, ReadFails
<1>4. CASE Stamp(t)
  BY <1>4 DEF Stamp
<1>5. CASE Remove(t)
  BY <1>5 DEF Remove
<1>6. CASE Save(t)
  BY <1>6 DEF Save
<1>7. CASE Quit(t) \/ OtherKey(t) \/ Edit(t) \/ EditType(t)
  BY <1>7 DEF Quit, OtherKey, Edit, EditType
<1>8. CASE EditCancel(t)
  BY <1>8 DEF EditCancel
<1>9. CASE EditEnter(t)
  BY <1>9 DEF EditEnter
<1> QED BY <1>1, <1>2, <1>3, <1>4, <1>5, <1>6, <1>7, <1>8, <1>9 DEF Loops, Handler

\* After a write, a cell stands if it did, or if it is one of those written and
\* text has it as wanted.
LEMMA OverlayStands ==
  ASSUME NEW f \in Seq(Cell), NEW text \in Seq(Cell), NEW want \in Seq(Cell),
         NEW off \in Nat, NEW a \in Nat, NEW b \in Nat,
         a <= b, b <= Len(text), off + a <= Len(f),
         \A p \in 1..a : Stands(f, off, want, p)
  PROVE  \A p \in 1..Len(want) :
           text[p] = want[p] /\ (p \in 1..b \/ Stands(f, off, want, p))
             => Stands(Overlay(f, off, text, a, b), off, want, p)
PROOF
<1> DEFINE n == IF off + b > Len(f) THEN off + b ELSE Len(f)
           at(j) == IF j - off \in (a + 1)..b THEN text[j - off] ELSE f[j]
           g == Overlay(f, off, text, a, b)
<1>0. n \in Nat /\ g = [j \in 1..n |-> at(j)]
  BY DEF Overlay
<1>1. \A j \in 1..n : at(j) \in Cell
  <2> TAKE j \in 1..n
  <2>1. CASE j - off \in (a + 1)..b
    BY <2>1
  <2>2. CASE j - off \notin (a + 1)..b
    <3>1. j \in 1..Len(f)
      BY <2>2
    <3> QED BY <2>2, <3>1
  <2> QED BY <2>1, <2>2
<1>2. ASSUME NEW p \in 1..Len(want), text[p] = want[p], p \in 1..b \/ Stands(f, off, want, p)
      PROVE  off + p \in 1..n /\ at(off + p) = want[p]
  <2>1. p \in Nat \ {0} /\ (off + p) - off = p
    OBVIOUS
  <2>2. CASE p \in (a + 1)..b
    BY <1>2, <2>1, <2>2
  <2>3. CASE p \notin (a + 1)..b
    <3>1. p \in 1..b => p \in 1..a
      BY <2>1, <2>3
    <3>2. off + p <= Len(f) /\ f[off + p] = want[p]
      BY <1>2, <3>1 DEF Stands
    <3> QED BY <2>1, <2>3, <3>2
  <2> QED BY <2>2, <2>3
<1> HIDE DEF n, at
<1>3. Len(g) = n
  BY <1>0, <1>1
<1> HIDE DEF g
<1>4. ASSUME NEW p \in 1..Len(want), text[p] = want[p], p \in 1..b \/ Stands(f, off, want, p)
      PROVE  Stands(g, off, want, p)
  <2>1. off + p \in 1..n /\ at(off + p) = want[p]
    BY <1>2, <1>4
  <2>2. off + p <= n
    BY <1>0, <2>1
  <2>3. g[off + p] = want[p]
    BY <1>0, <2>1 DEF g
  <2> QED BY <1>3, <2>2, <2>3 DEF Stands
<1> QED BY <1>4 DEF g

\* A pwrite, short, torn or neither: what it counts as written stands, and what
\* stood still does.
LEMMA WrittenStep ==
  ASSUME IInv, NEW t \in Trackers, WriteSome(t) \/ WriteTorn(t),
         \A p \in 1..done[t] : Stands(file, base[t], Wanted(t), p)
  PROVE  /\ \A p \in 1..done'[t] : Stands(file', base[t], Wanted(t), p)
         /\ \A p \in 1..Len(Wanted(t)) : Stands(file, base[t], Wanted(t), p)
              => Stands(file', base[t], Wanted(t), p)
PROOF
<1>1. /\ file \in Seq(Cell) /\ base[t] \in Nat /\ done[t] \in Nat
      /\ Wanted(t) \in Seq(Cell) /\ Len(Wanted(t)) \in Nat
      /\ done \in [Trackers -> Nat]
  BY WantedType DEF IInv, TypeOK
<1>2. pc[t] = "write" /\ t \in Appenders
  BY DEF WriteSome, WriteTorn, IInv, WritesInLog
<1>3. base[t] + done[t] <= Len(file)
  BY <1>2 DEF IInv, WritesInLog, InSession
<1>4. CASE WriteSome(t)
  <2>1. PICK k \in (done[t] + 1)..Len(Wanted(t)) :
          /\ file' = Overlay(file, base[t], Wanted(t), done[t], k)
          /\ done' = [done EXCEPT ![t] = k]
    BY <1>4 DEF WriteSome
  <2>2. k \in Nat /\ done[t] <= k /\ k <= Len(Wanted(t)) /\ done'[t] = k
    BY <1>1, <2>1
  <2>3. \A p \in 1..Len(Wanted(t)) :
          p \in 1..k \/ Stands(file, base[t], Wanted(t), p)
            => Stands(file', base[t], Wanted(t), p)
    BY <1>1, <1>3, <2>1, <2>2, OverlayStands
  <2>4. \A p \in 1..k : p \in 1..Len(Wanted(t))
    BY <1>1, <2>2
  <2> QED BY <2>2, <2>3, <2>4
<1>5. CASE WriteTorn(t)
  <2>1. PICK k \in (done[t] + 1)..Len(Wanted(t)), x \in Garbled :
          /\ base[t] + k <= Len(file) => file[base[t] + k] # Wanted(t)[k]
          /\ file' = Overlay(file, base[t], [Wanted(t) EXCEPT ![k] = Stamped(x)],
                             done[t], k)
          /\ done' = [done EXCEPT ![t] = k - 1]
    BY <1>5 DEF WriteTorn
  <2> DEFINE torn == [Wanted(t) EXCEPT ![k] = Stamped(x)]
  <2>2. /\ k \in Nat \ {0} /\ done[t] <= k - 1 /\ k <= Len(Wanted(t)) /\ done'[t] = k - 1
        /\ k \in Nat /\ done[t] <= k
    BY <1>1, <2>1
  <2>3. /\ torn \in Seq(Cell) /\ Len(torn) = Len(Wanted(t))
        /\ \A p \in 1..Len(Wanted(t)) : p # k => torn[p] = Wanted(t)[p]
    BY <1>1, GarbledIsCell
  <2>4. file' = Overlay(file, base[t], torn, done[t], k)
    BY <2>1
  <2> HIDE DEF torn
  <2>5. \A p \in 1..Len(Wanted(t)) :
          torn[p] = Wanted(t)[p] /\ (p \in 1..k \/ Stands(file, base[t], Wanted(t), p))
            => Stands(file', base[t], Wanted(t), p)
    BY <1>1, <1>3, <2>2, <2>3, <2>4, OverlayStands
  <2>6. \A p \in 1..(k - 1) : p \in 1..Len(Wanted(t)) /\ p \in 1..k /\ p # k
    BY <1>1, <2>2
  <2>7. \A p \in 1..Len(Wanted(t)) : Stands(file, base[t], Wanted(t), p) => p # k
    BY <2>1 DEF Stands
  <2> QED BY <2>2, <2>3, <2>5, <2>6, <2>7
<1> QED BY <1>4, <1>5

LEMMA LoadLogState ==
  ASSUME IInv, NEW t \in Appenders, LogStateOf(t), MsgTells(t), Resume(t) \/ LoadAtEnd(t)
  PROVE  LogStateOf(t)' /\ MsgTells(t)'
PROOF
<1>0. /\ t \in Trackers /\ TypeOK /\ pc[t] = "load"
      /\ file \in Seq(Cell) /\ stamps[t] = <<>> /\ ~nl[t] /\ ~wrote[t] /\ ~logErr[t]
  BY TrackersAssumption DEF IInv, TypeOK, Resume, LoadAtEnd, LogStateOf
<1>1. CASE Resume(t)
  <2>1. PICK b \in 0..Len(file), v \in Secs :
          /\ OpenEntryAt(file, b)
          /\ stamps' = [stamps EXCEPT ![t] = <<v>>]
          /\ base' = [base EXCEPT ![t] = b]
    BY <1>1, ParseStampInRange DEF Resume
  <2>2. /\ base'[t] = b /\ stamps'[t] = <<v>> /\ pc'[t] = "render" /\ msg'[t] = "resumed"
        /\ nl' = nl /\ wrote' = wrote /\ logErr' = logErr /\ file' = file
    BY <1>0, <1>1, <2>1 DEF Resume, TypeOK
  <2>3. b > 0 => EndsLine(file[b])
    BY <2>1 DEF OpenEntryAt
  <2>4. Current(t)'
    BY <1>0, <2>1, <2>2 DEF Current
  <2> QED BY <1>0, <2>2, <2>3, <2>4 DEF LogStateOf, MsgTells, InSession, Idle
<1>2. CASE LoadAtEnd(t)
  <2>1. /\ base'[t] = Len(file) /\ pc'[t] = "render" /\ msg' = msg
        /\ (nl'[t] <=> file # <<>> /\ ~EndsLine(file[Len(file)]))
        /\ stamps' = stamps /\ wrote' = wrote /\ logErr' = logErr /\ file' = file
    BY <1>0, <1>2 DEF LoadAtEnd, TypeOK
  <2>2. SubSeq(file, Len(file) + 1, Len(file)) = <<>> /\ (file # <<>> <=> Len(file) > 0)
    BY <1>0
  <2>3. Current(t)'
    BY <1>0, <2>1, <2>2 DEF Current, OwnCells
  <2>4. nl'[t] <=> base'[t] > 0 /\ ~EndsLine(file'[base'[t]])
    BY <2>1, <2>2
  <2> QED BY <1>0, <2>1, <2>3, <2>4 DEF LogStateOf, MsgTells, InSession, Idle
<1> QED BY <1>1, <1>2

\* A log_write that ends well leaves its lines in LOG, and nothing behind them.
LEMMA TruncateCurrent ==
  ASSUME IInv, NEW t \in Appenders, LogStateOf(t), Truncate(t)
  PROVE  OwnCells(t)' = Wanted(t)'
PROOF
<1> DEFINE b == base[t]
           n == done[t]
           w == Wanted(t)
           new == SubSeq(file, 1, b + n)
<1>1. /\ t \in Trackers /\ file \in Seq(Cell) /\ b \in Nat /\ n \in Nat
      /\ w \in Seq(Cell) /\ n = Len(w)
  BY TrackersAssumption, WantedType DEF IInv, TypeOK, Truncate
<1>2. b + n <= Len(file) /\ \A p \in 1..n : Stands(file, b, w, p)
  <2>1. pc[t] = "write" /\ InSession(t)
    BY DEF Truncate, InSession
  <2> QED BY <1>1, <2>1 DEF IInv, WritesInLog, LogStateOf
<1>3. /\ file' = new /\ base'[t] = b /\ Wanted(t)' = w
  BY DEF Truncate, Wanted
<1> HIDE DEF b, n, w
<1>4. Len(new) = b + n /\ \A i \in 1..(b + n) : new[i] = file[i]
  BY <1>1, <1>2
<1> HIDE DEF new
<1>4a. new \in Seq(Cell)
  BY <1>1, <1>2 DEF new
<1>5. \A p \in 1..n : new[b + p] = w[p]
  <2> TAKE p \in 1..n
  <2>1. b + p \in 1..(b + n)
    BY <1>1
  <2> QED BY <1>2, <1>4, <2>1 DEF Stands
<1>6. SubSeq(new, b + 1, b + n) = [p \in 1..n |-> new[b + p]]
  <2>1. SubSeq(new, b + 1, b + n) = [i \in 1..(1 + (b + n) - (b + 1)) |-> new[i + (b + 1) - 1]]
    BY <1>1
  <2>2. 1 + (b + n) - (b + 1) = n /\ \A p \in 1..n : p + (b + 1) - 1 = b + p
    BY <1>1
  <2> QED BY <2>1, <2>2
<1>7. w = [p \in 1..n |-> w[p]]
  BY <1>1
<1>8. SubSeq(new, b + 1, b + n) = w
  BY <1>5, <1>6, <1>7
<1> QED BY <1>3, <1>4, <1>8 DEF OwnCells

LEMMA OwnLogState ==
  ASSUME IInv, NEW t \in Appenders, LogStateOf(t), MsgTells(t),
         \/ StartPlain(t) \/ OpenLog(t) \/ Resume(t) \/ LoadAtEnd(t)
         \/ Loops(t) \/ Stops(t) \/ Signal(t)
         \/ WriteSome(t) \/ WriteTorn(t) \/ Truncate(t) \/ WriteFails(t)
  PROVE  LogStateOf(t)' /\ MsgTells(t)'
PROOF
<1>0. /\ t \in Trackers /\ TypeOK /\ file \in Seq(Cell) /\ base[t] \in Nat /\ done[t] \in Nat
      /\ pc[t] # "write" => done[t] = 0
      /\ InSession(t) => base[t] + done[t] <= Len(file)
  BY TrackersAssumption DEF IInv, WritesInLog, TypeOK
<1>1. CASE StartPlain(t)
  BY <1>1 DEF StartPlain
<1>2. CASE OpenLog(t)
  BY <1>0, <1>2 DEF OpenLog, logVars, LogStateOf, MsgTells, InSession, Idle, TypeOK
<1>3. CASE Resume(t) \/ LoadAtEnd(t)
  BY <1>3, LoadLogState
<1>4. CASE Loops(t)
  <2>1. /\ file' = file /\ base' = base /\ nl' = nl /\ done' = done /\ pc[t] \in Idle
        /\ wrote' = wrote /\ logErr' = logErr /\ msg'[t] \notin {"saved", "cannot_write"}
        /\ pc'[t] = "write" \/ (pc'[t] \in Idle /\ stamps'[t] = stamps[t])
    BY <1>0, <1>4, LoopsStep, LoopsLog
  <2>2. done'[t] = 0
    BY <1>0, <2>1 DEF Idle
  <2> QED BY <2>1, <2>2
             DEF LogStateOf, MsgTells, InSession, Idle, Current, OwnCells, Wanted
<1>5. CASE Stops(t)
  BY <1>0, <1>5 DEF Stops, Ends, LogStateOf, MsgTells, InSession, Idle, TypeOK
<1>6. CASE Signal(t)
  <2>1. /\ pc[t] = "write" \/ pc[t] \in Idle
        /\ pc'[t] = IF pc[t] = "read" THEN "keys" ELSE pc[t]
        /\ UNCHANGED <<file, base, nl, wrote, logErr, stamps, done, msg>>
    BY <1>0, <1>6 DEF Signal, logVars, writeVars, TypeOK
  <2> QED BY <2>1 DEF LogStateOf, MsgTells, InSession, Idle, Current, OwnCells, Wanted
<1>7. CASE WriteSome(t) \/ WriteTorn(t)
  <2>1. /\ pc[t] = "write"
        /\ UNCHANGED <<pc, base, nl, wrote, logErr, stamps, msg>>
    BY <1>7 DEF WriteSome, WriteTorn, logVars
  <2>2. Wanted(t)' = Wanted(t)
    BY <2>1 DEF Wanted
  <2>3. \A p \in 1..done'[t] : Stands(file', base[t], Wanted(t), p)
    BY <1>0, <1>7, <2>1, WrittenStep DEF LogStateOf
  <2>4. base[t] > 0 => file'[base[t]] = file[base[t]]
    BY <1>0, <1>7, WriteStep
  <2> QED BY <2>1, <2>2, <2>3, <2>4 DEF LogStateOf, MsgTells, InSession, Idle
<1>8. CASE Truncate(t)
  <2>1. /\ pc[t] = "write" /\ pc'[t] = "render" /\ wrote'[t] /\ ~logErr'[t]
        /\ msg'[t] = IF saving[t] THEN "saved" ELSE msg[t]
        /\ file' = SubSeq(file, 1, base[t] + done[t])
        /\ UNCHANGED <<base, nl, stamps>>
    BY <1>0, <1>8 DEF Truncate, WriteEnds, TypeOK
  <2>2. base[t] + done[t] <= Len(file)
    BY <1>0, <2>1 DEF InSession
  <2>3. base[t] > 0 => file'[base[t]] = file[base[t]]
    BY <1>0, <2>1, <2>2
  <2>4. Current(t)'
    BY <1>8, <2>1, TruncateCurrent DEF Current
  <2> QED BY <2>1, <2>3, <2>4 DEF LogStateOf, MsgTells, InSession, Idle
<1>9. CASE WriteFails(t)
  BY <1>0, <1>9 DEF WriteFails, WriteEnds, LogStateOf, MsgTells, InSession, Idle, TypeOK
<1> QED BY <1>1, <1>2, <1>3, <1>4, <1>5, <1>6, <1>7, <1>8, <1>9

LEMMA LogStateStep ==
  ASSUME IInv, LogState, [Next]_vars
  PROVE  LogState'
PROOF
<1>1. CASE UNCHANGED vars
  BY <1>1 DEF vars, logVars, writeVars, LogState, LogStateOf, MsgTells, InSession, Current,
              OwnCells, Wanted
<1>2. CASE AppendForeign
  <2>1. /\ \A t \in Appenders : pc[t] = "off"
        /\ UNCHANGED <<pc, stamps, nl, wrote, logErr, msg>>
    BY <1>2, TrackersAssumption DEF AppendForeign, logVars, IInv, OneOwner
  <2> QED BY <2>1 DEF LogState, LogStateOf, MsgTells, InSession, Idle
<1>3. ASSUME NEW t \in Trackers,
             \/ StartPlain(t) \/ OpenLog(t) \/ OpenLogFails(t)
             \/ Runs(t) \/ KeyArrives(t) \/ Signal(t) \/ Crash(t)
      PROVE  LogState'
  <2>1. OthersAlone(t) /\ OthersTell(t) /\ (file' # file => t \in Appenders /\ lock = t)
    BY <1>3, StepKinds, FrameStep, TellStep DEF IInv
  <2>2. ASSUME NEW u \in Appenders PROVE LogStateOf(u)' /\ MsgTells(u)'
    <3>1. LogStateOf(u) /\ MsgTells(u)
      BY DEF LogState
    <3>2. CASE u = t
      BY <1>3, <3>1, <3>2, StepKinds, OwnLogState
    <3>3. CASE u # t
      BY <2>1, <3>1, <3>3, OthersLogState
    <3> QED BY <3>2, <3>3
  <2> QED BY <2>2 DEF LogState
<1> QED BY <1>1, <1>2, <1>3 DEF Next

LEMMA InitLogState == Init => LogState
PROOF BY TrackersAssumption DEF Init, LogState, LogStateOf, MsgTells, InSession, Idle

LEMMA LogInvariance == Spec => []LogInv
PROOF
<1>1. Init => LogInv
  BY InitIInv, InitLogState DEF LogInv
<1>2. LogInv /\ [Next]_vars => LogInv'
  BY NextIInv, LogStateStep DEF LogInv
<1> QED BY <1>1, <1>2, PTL DEF Spec

-----------------------------------------------------------------------------
(* What follows.                                                           *)

\* Between keys LOG is up to date unless the last write failed, for any number
\* of trackers, any log, any keys and any failures: whatever was stamped,
\* removed and edited stands in LOG, and nothing else behind the older lines.
THEOREM LogIsCurrent == Spec => []LogCurrent
PROOF
<1>1. LogInv => LogCurrent
  BY DEF LogInv, LogState, LogStateOf, LogCurrent
<1> QED BY <1>1, LogInvariance, PTL

\* A session's first line never continues a line of someone else's.
THEOREM OwnLinesAreLines == Spec => []OwnLinesStartALine
PROOF
<1>1. LogInv => OwnLinesStartALine
  BY DEF LogInv, LogState, LogStateOf, OwnLinesStartALine
<1> QED BY <1>1, LogInvariance, PTL

\* The tracker says "saved" only when LOG is up to date, and "cannot write" only
\* when the last write failed.
THEOREM SavedIsTrue == Spec => []SavedMeansCurrent
PROOF
<1>1. LogInv => SavedMeansCurrent
  BY DEF LogInv, LogState, LogStateOf, MsgTells, SavedMeansCurrent, Idle
<1> QED BY <1>1, LogInvariance, PTL

\* A session that reports success leaves LOG up to date, and so does one that a
\* signal ends, unless its last write failed (track, log_errno).
THEOREM OkIsTrue == Spec => OkMeansCurrent
PROOF
<1> DEFINE EndsCurrent(t) == /\ exited' = "ok" => Current(t)
                             /\ exited' = "signal" => Current(t) \/ logErr[t]
<1>1. ASSUME LogInv, [Next]_vars, NEW t \in Appenders, pc[t] = "exit", pc'[t] = "off",
             exited' \in {"ok", "signal"}
      PROVE  EndsCurrent(t)
  <2>1. t \in Trackers /\ TypeOK
    BY <1>1, TrackersAssumption DEF LogInv, IInv
  <2>2. PICK u \in Trackers :
          \/ StartPlain(u) \/ OpenLog(u) \/ OpenLogFails(u)
          \/ Runs(u) \/ KeyArrives(u) \/ Signal(u) \/ Crash(u)
    BY <1>1 DEF Next, vars, AppendForeign
  <2>3. u = t
    BY <1>1, <2>1, <2>2, StepKinds, FrameStep DEF OthersAlone, LogInv
  <2>4. Exit(t)
    BY <1>1, <2>1, <2>2, <2>3, StepKinds, LoopsStep
       DEF TypeOK, StartPlain, OpenLog, OpenLogFails, Resume, LoadAtEnd, LoadFails, Signal,
           WriteSome, WriteTorn, Truncate, WriteFails, WriteEnds, OutOfMemory, Crash, Ends,
           Runs, KeyArrives, Loops, Idle
  <2>5. exited' = "ok" => ~logErr[t]
    BY <1>1, <2>4 DEF Exit, Ends
  <2>6. ~logErr[t] => Current(t)
    BY <1>1 DEF LogInv, LogState, LogStateOf, Idle
  <2> QED BY <2>5, <2>6, Zenon
<1>2. LogInv /\ [Next]_vars
      => [\A t \in Appenders : pc[t] = "exit" /\ pc'[t] = "off" =>
            /\ exited' = "ok" => Current(t)
            /\ exited' = "signal" => Current(t) \/ logErr[t]]_vars
  BY <1>1
<1> QED BY <1>2, LogInvariance, PTL DEF Spec, OkMeansCurrent

-----------------------------------------------------------------------------
(* The entries before the last one, in the middle of a write too.          *)

\* Lists that agree up to an even position print the same cells up to there.
LEMMA LinesPrefix ==
  ASSUME NEW st \in Seq(Secs), NEW new \in Seq(Secs), NEW m \in Nat, m % 2 = 0,
         m <= Len(st), m <= Len(new), \A i \in 1..m : new[i] = st[i]
  PROVE  \A p \in 1..(2 * m) :
           /\ p \in 1..LinesLen(Len(st)) /\ p \in 1..LinesLen(Len(new))
           /\ Lines(new)[p] = Lines(st)[p]
PROOF
<1> DEFINE first(p) == 2 * ((p - 1) \div 4) + 1
           cell(s, p) == CASE p % 4 = 1 -> Stamped(FmtStamp(s[first(p)]))
                           [] p % 4 = 2 -> Mark(IF first(p) < Len(s) THEN "dash" ELSE "open")
                           [] p % 4 = 3 -> Stamped(FmtStamp(s[first(p) + 1]))
                           [] p % 4 = 0 -> Mark("nl")
<1>1. /\ Lines(st) = [p \in 1..LinesLen(Len(st)) |-> cell(st, p)]
      /\ Lines(new) = [p \in 1..LinesLen(Len(new)) |-> cell(new, p)]
  BY DEF Lines
<1>2. \A n \in Nat : m <= n => 2 * m <= LinesLen(n) /\ LinesLen(n) \in Nat
  <2> TAKE n \in Nat
  <2> HAVE m <= n
  <2>1. n % 2 \in 0..1 /\ n = 2 * (n \div 2) + (n % 2)
    OBVIOUS
  <2>2. m = 2 * (m \div 2)
    OBVIOUS
  <2>3. m \div 2 <= n \div 2
    <3> DEFINE a == m \div 2
               b == n \div 2
               r == n % 2
    <3>1. a \in Int /\ b \in Int /\ r \in 0..1 /\ n = 2 * b + r /\ m = 2 * a
      BY <2>1, <2>2
    <3> HIDE DEF a, b, r
    <3>2. a <= b
      BY <3>1
    <3> QED BY <3>2 DEF a, b
  <2> QED BY <2>1, <2>2, <2>3 DEF LinesLen
<1> TAKE p \in 1..(2 * m)
<1>3. p \in 1..LinesLen(Len(st)) /\ p \in 1..LinesLen(Len(new))
  <2> DEFINE a == LinesLen(Len(st))
             b == LinesLen(Len(new))
  <2>1. 2 * m <= a /\ a \in Nat /\ 2 * m <= b /\ b \in Nat
    BY <1>2
  <2> HIDE DEF a, b
  <2>2. p \in 1..a /\ p \in 1..b
    BY <2>1
  <2> QED BY <2>2 DEF a, b
<1>4. /\ first(p) \in 1..m /\ first(p) + 1 \in 1..m
      /\ first(p) < Len(st) /\ first(p) < Len(new)
  <2> DEFINE a == m \div 2
             e == (p - 1) \div 4
             n == Len(st)
             l == Len(new)
  <2>1. a \in Int /\ m = 2 * a /\ p \in Int /\ p <= 2 * m
    OBVIOUS
  <2>2. e \in Nat /\ 4 * e <= p - 1
    OBVIOUS
  <2>3. n \in Nat /\ l \in Nat /\ m <= n /\ m <= l /\ first(p) = 2 * e + 1
    OBVIOUS
  <2> HIDE DEF a, e, n, l, first
  <2>4. e < a
    BY <2>1, <2>2
  <2>5. 2 * e + 1 \in 1..m /\ 2 * e + 2 \in 1..m /\ 2 * e + 1 < n /\ 2 * e + 1 < l
    BY <2>1, <2>2, <2>3, <2>4
  <2>6. first(p) + 1 = 2 * e + 2
    BY <2>2, <2>3
  <2> QED BY <2>3, <2>5, <2>6 DEF n, l
<1>5. cell(new, p) = cell(st, p)
  <2>1. new[first(p)] = st[first(p)] /\ new[first(p) + 1] = st[first(p) + 1]
    BY <1>4
  <2> HIDE DEF first
  <2> QED BY <1>4, <2>1
<1> HIDE DEF cell
<1> QED BY <1>1, <1>3, <1>5

\* The cells of a session's lines in its text.
LEMMA LogTextLines ==
  ASSUME NEW st \in Seq(Secs), NEW newline \in BOOLEAN, st # <<>>, NEW o,
         o = IF newline THEN 1 ELSE 0, NEW p \in 1..LinesLen(Len(st))
  PROVE  /\ o + p \in 1..Len(LogText(st, newline))
         /\ LogText(st, newline)[o + p] = Lines(st)[p]
PROOF
<1>1. Lines(st) \in Seq(Cell) /\ Len(Lines(st)) = LinesLen(Len(st)) /\ Mark("nl") \in Cell
  BY LinesType, MarkIsCell DEF Kinds
<1> DEFINE l == Lines(st)
           c == Mark("nl")
<1>2. l \in Seq(Cell) /\ p \in 1..Len(l) /\ c \in Cell
  BY <1>1
<1>3. LogText(st, newline) = IF newline THEN <<c>> \o l ELSE l
  BY DEF LogText
<1> HIDE DEF l, c
<1>4. /\ 1 + p \in 1..Len(<<c>> \o l) /\ (<<c>> \o l)[1 + p] = l[p]
  BY <1>2
<1>5. 0 + p \in 1..Len(l) /\ l[0 + p] = l[p]
  BY <1>2
<1> QED BY <1>3, <1>4, <1>5 DEF l

\* A list that may follow another: nothing but its last stamp is new.
Follows(new, st) ==
  /\ new \in Seq(Secs) /\ Len(new) <= Len(st) + 1
  /\ \A i \in 1..(Len(new) - 1) : i <= Len(st) /\ new[i] = st[i]

LEMMA FollowingLists ==
  ASSUME NEW st \in Seq(Secs), NEW v \in Secs
  PROVE  /\ Follows(st, st) /\ Follows(Append(st, v), st)
         /\ st # <<>> => /\ Follows(SubSeq(st, 1, Len(st) - 1), st)
                         /\ Follows([st EXCEPT ![Len(st)] = v], st)
PROOF
<1> DEFINE n == Len(st)
<1>1. n \in Nat
  OBVIOUS
<1>2. Follows(st, st)
  BY DEF Follows
<1>3. Follows(Append(st, v), st)
  BY DEF Follows
<1>4. ASSUME st # <<>> PROVE Follows(SubSeq(st, 1, n - 1), st)
  BY <1>4 DEF Follows
<1>5. Follows([st EXCEPT ![n] = v], st)
  <2> DEFINE new == [st EXCEPT ![n] = v]
  <2>1. new \in Seq(Secs) /\ Len(new) = n
    BY ReplaceType
  <2>2. \A i \in 1..(n - 1) : i <= n /\ new[i] = st[i]
    BY <1>1
  <2> HIDE DEF new
  <2>3. Follows(new, st)
    BY <1>1, <2>1, <2>2 DEF Follows
  <2> QED BY <2>3 DEF new
<1> QED BY <1>2, <1>3, <1>4, <1>5

\* What a step of the key loop does to the list: at most one change, at its end.
Changes(new, st) ==
  \/ new = st
  \/ \E v \in Secs : new = Append(st, v)
  \/ st # <<>> /\ new = SubSeq(st, 1, Len(st) - 1)
  \/ st # <<>> /\ \E v \in Secs : new = [st EXCEPT ![Len(st)] = v]

LEMMA LoopsChanges ==
  ASSUME TypeOK, NEW t \in Trackers, Loops(t)
  PROVE  Changes(stamps'[t], stamps[t])
PROOF
<1>0. stamps \in [Trackers -> Seq(Secs)] /\ stamps[t] \in Seq(Secs)
  BY DEF TypeOK
<1> USE DEF Says
<1>1. CASE Stamp(t)
  <2>1. PICK now \in Instants :
          \/ stamps' = [stamps EXCEPT ![t] = Append(stamps[t], StampNow(t, now))]
          \/ UNCHANGED stamps
    BY <1>1 DEF Stamp
  <2>2. StampNow(t, now) \in Secs
    BY InputsAssumption, LastStampType DEF StampNow
  <2> QED BY <1>0, <2>1, <2>2 DEF Changes
<1>2. CASE Remove(t)
  BY <1>0, <1>2 DEF Remove, Changes
<1>3. CASE EditEnter(t)
  <2>1. PICK x \in Typed \union {FmtStamp(LastStamp(t))}, now \in Instants :
          \/ /\ EditedTo(t, x, now).r = 0
             /\ stamps' = [stamps EXCEPT ![t] =
                  [stamps[t] EXCEPT ![Len(stamps[t])] = EditedTo(t, x, now).out]]
          \/ UNCHANGED stamps
    BY <1>3 DEF EditEnter
  <2>2. CASE UNCHANGED stamps
    BY <2>2 DEF Changes
  <2>3. CASE /\ EditedTo(t, x, now).r = 0
             /\ stamps' = [stamps EXCEPT ![t] =
                  [stamps[t] EXCEPT ![Len(stamps[t])] = EditedTo(t, x, now).out]]
    <3> DEFINE v == EditedTo(t, x, now).out
               st == stamps[t]
    <3>1. v \in Secs
      BY <2>3, EditedToInRange
    <3>2. stamps'[t] = [st EXCEPT ![Len(st)] = v]
      BY <1>0, <2>3
    <3> HIDE DEF v, st
    <3>3. st = <<>> => [st EXCEPT ![Len(st)] = v] = st
      OBVIOUS
    <3> QED BY <3>1, <3>2, <3>3 DEF Changes, st
  <2> QED BY <2>1, <2>2, <2>3
<1>4. CASE ~Stamp(t) /\ ~Remove(t) /\ ~EditEnter(t)
  <2>1. stamps' = stamps
    BY <1>4 DEF Loops, Handler, Render, CheckCaught, EnterRead, EndOfInput, ReadFails, Save,
                Quit, OtherKey, Edit, EditType, EditCancel
  <2> QED BY <2>1 DEF Changes
<1> QED BY <1>1, <1>2, <1>3, <1>4

LEMMA LoopsFollows ==
  ASSUME TypeOK, NEW t \in Trackers, Loops(t)
  PROVE  Follows(stamps'[t], stamps[t])
PROOF
<1>1. stamps[t] \in Seq(Secs) /\ 0 \in Secs
  BY SecsAssumption DEF TypeOK, Secs
<1>2. Changes(stamps'[t], stamps[t])
  BY LoopsChanges
<1> QED BY <1>1, <1>2, FollowingLists DEF Changes

\* Where the session's first entry starts.
OwnStart(t) == base[t] + (IF nl[t] THEN 1 ELSE 0)

\* The first n cells of the session's lines are in LOG.
FirstStand(t, n) == \A p \in 1..n : Stands(file, OwnStart(t), Lines(stamps[t]), p)

EarlierOf(t) ==
  InSession(t) /\ ~logErr[t] => FirstStand(t, 4 * ((Len(stamps[t]) - 1) \div 2))

Earlier == \A t \in Appenders : EarlierOf(t)

\* Cells of the session's text, counted from base, are those of its lines.
LEMMA StandsInText ==
  ASSUME TypeOK, NEW t \in Trackers, NEW f, NEW p \in 1..LinesLen(Len(stamps[t])),
         NEW o, o = IF nl[t] THEN 1 ELSE 0
  PROVE  /\ o + p \in 1..Len(Wanted(t))
         /\ Stands(f, OwnStart(t), Lines(stamps[t]), p) <=> Stands(f, base[t], Wanted(t), o + p)
PROOF
<1> DEFINE st == stamps[t]
<1>1. st \in Seq(Secs) /\ nl[t] \in BOOLEAN /\ base[t] \in Nat /\ o \in Nat
  BY DEF TypeOK
<1>2. Len(st) \in Nat /\ LinesLen(Len(st)) \in Nat
  BY <1>1, LinesLenFits
<1>3. st # <<>>
  <2> SUFFICES ASSUME st = <<>> PROVE FALSE
    OBVIOUS
  <2>1. LinesLen(0) = 0
    BY DEF LinesLen
  <2> QED BY <2>1
<1>4. o + p \in 1..Len(Wanted(t)) /\ Wanted(t)[o + p] = Lines(st)[p]
  BY <1>1, <1>3, LogTextLines DEF Wanted
<1>5. OwnStart(t) = base[t] + o /\ p \in Nat
  BY <1>2 DEF OwnStart
<1>6. base[t] + (o + p) = (base[t] + o) + p
  BY <1>1, <1>5
<1> HIDE DEF st
<1> QED BY <1>4, <1>5, <1>6 DEF Stands, st

\* Between keys all the entries that are complete are in LOG.
LEMMA CompleteStand ==
  ASSUME LogInv, NEW t \in Appenders, EarlierOf(t), pc[t] \in Idle, ~logErr[t]
  PROVE  FirstStand(t, 4 * (Len(stamps[t]) \div 2))
PROOF
<1> DEFINE n == Len(stamps[t])
<1>1. /\ t \in Trackers /\ TypeOK /\ stamps[t] \in Seq(Secs) /\ n \in Nat
      /\ file \in Seq(Cell) /\ base[t] \in Nat /\ InSession(t) /\ Current(t)
      /\ base[t] <= Len(file)
  BY TrackersAssumption
     DEF LogInv, LogState, LogStateOf, IInv, TypeOK, InSession, WritesInLog, Idle
<1>2. (stamps[t] = <<>> => n = 0) /\ (Len(stamps[t]) = 1 => n = 1)
  OBVIOUS
<1>2a. /\ n % 2 = 1 => (n - 1) \div 2 = n \div 2
       /\ n % 2 # 1 => LinesLen(n) = 4 * (n \div 2) /\ n # 1
  <2> HIDE DEF n
  <2> QED BY <1>1, SMTT(30) DEF LinesLen
<1>2b. CASE n % 2 = 1
  <2>1. FirstStand(t, 4 * ((n - 1) \div 2))
    BY <1>1 DEF EarlierOf
  <2> QED BY <1>2a, <1>2b, <2>1
<1>3. CASE n = 0
  <2>1. 1..(4 * (n \div 2)) = {}
    BY <1>3
  <2> QED BY <2>1 DEF FirstStand
<1>4. CASE n % 2 # 1 /\ n # 0
  <2>1. wrote[t] /\ OwnCells(t) = Wanted(t)
    <3> HIDE DEF n
    <3> QED BY <1>1, <1>2, <1>2a, <1>4 DEF Current
  <2>2. LinesLen(n) = 4 * (n \div 2)
    BY <1>2a, <1>4
  <2> DEFINE w == Wanted(t)
             b == base[t]
  <2>3. w \in Seq(Cell) /\ w = SubSeq(file, b + 1, Len(file)) /\ b \in Nat /\ b <= Len(file)
    BY <1>1, <2>1, WantedType DEF OwnCells
  <2> HIDE DEF w, b
  <2>4. \A q \in 1..Len(w) : b + q <= Len(file) /\ file[b + q] = w[q]
    BY <1>1, <2>3
  <2>5. \A q \in 1..Len(w) : Stands(file, b, w, q)
    BY <2>4 DEF Stands
  <2>6. \A p \in 1..LinesLen(n) : Stands(file, OwnStart(t), Lines(stamps[t]), p)
    BY <1>1, <2>5, StandsInText DEF w, b
  <2> QED BY <2>2, <2>6 DEF FirstStand
<1> QED BY <1>2b, <1>3, <1>4

\* A key's handler that calls log_write changes the last entry only.
LEMMA LoopsEarlier ==
  ASSUME LogInv, NEW t \in Appenders, EarlierOf(t), Loops(t)
  PROVE  EarlierOf(t)'
PROOF
<1> DEFINE st  == stamps[t]
           new == stamps'[t]
           n   == Len(st)
           k   == Len(new)
           m   == 2 * ((k - 1) \div 2)
<1>1. /\ t \in Trackers /\ TypeOK /\ MsgTells(t) /\ pc[t] \in Idle /\ InSession(t)
  BY TrackersAssumption, LoopsStep DEF LogInv, IInv, LogState, InSession
<1>2. /\ UNCHANGED <<file, base, nl, logErr>> /\ OwnStart(t)' = OwnStart(t)
  BY <1>1, LoopsStep, LoopsLog DEF OwnStart
<1>3. Follows(new, st)
  BY <1>1, LoopsFollows
<1>4. st \in Seq(Secs) /\ new \in Seq(Secs) /\ n \in Nat /\ k \in Nat /\ k <= n + 1
      /\ \A i \in 1..(k - 1) : i <= n /\ new[i] = st[i]
  BY <1>1, <1>3 DEF TypeOK, Follows
<1> SUFFICES ASSUME ~logErr[t] PROVE FirstStand(t, 4 * ((Len(stamps[t]) - 1) \div 2))'
  BY <1>2 DEF EarlierOf
<1>5. FirstStand(t, 4 * (n \div 2))
  BY <1>1, CompleteStand
<1> HIDE DEF st, new, n, k
<1>6. CASE k = 0
  <2>1. 4 * ((k - 1) \div 2) < 1
    BY <1>6
  <2>2. (4 * ((Len(stamps[t]) - 1) \div 2))' = 4 * ((k - 1) \div 2)
    BY DEF k, new
  <2>3. 1..(4 * ((k - 1) \div 2)) = {}
    BY <1>6
  <2> QED BY <2>2, <2>3 DEF FirstStand
<1>7. CASE k # 0
  <2>1. /\ m \in Nat /\ m % 2 = 0 /\ m <= n /\ m <= k /\ m <= k - 1
        /\ 2 * m <= 4 * (n \div 2) /\ 2 * m = 4 * ((k - 1) \div 2)
    BY <1>4, <1>7, SMTT(30)
  <2> HIDE DEF m
  <2>2. \A i \in 1..m : new[i] = st[i]
    <3>1. \A i \in 1..m : i \in 1..(k - 1)
      BY <1>4, <2>1
    <3> QED BY <1>4, <3>1
  <2>3. \A p \in 1..(2 * m) : Lines(new)[p] = Lines(st)[p]
    BY <1>4, <2>1, <2>2, LinesPrefix DEF n, k
  <2>4. \A p \in 1..(2 * m) : Stands(file, OwnStart(t), Lines(st), p)
    <3>1. \A p \in 1..(2 * m) : p \in 1..(4 * (n \div 2))
      BY <1>4, <2>1
    <3> QED BY <1>5, <3>1 DEF FirstStand, st
  <2>5. \A p \in 1..(2 * m) : Stands(file, OwnStart(t), Lines(new), p)
    BY <2>3, <2>4 DEF Stands
  <2>6. (4 * ((Len(stamps[t]) - 1) \div 2))' = 2 * m
    BY <2>1 DEF k, new
  <2> QED BY <1>2, <2>5, <2>6 DEF FirstStand, new
<1> QED BY <1>6, <1>7

\* Writes keep what stands, and a truncation too: it is among what was written.
LEMMA WriteEarlier ==
  ASSUME LogInv, NEW t \in Appenders, EarlierOf(t),
         WriteSome(t) \/ WriteTorn(t) \/ Truncate(t)
  PROVE  EarlierOf(t)'
PROOF
<1> DEFINE m == 4 * ((Len(stamps[t]) - 1) \div 2)
           o == IF nl[t] THEN 1 ELSE 0
<1>1. /\ t \in Trackers /\ TypeOK /\ IInv /\ LogStateOf(t) /\ pc[t] = "write" /\ InSession(t)
      /\ stamps[t] \in Seq(Secs) /\ Len(stamps[t]) \in Nat
      /\ file \in Seq(Cell) /\ base[t] \in Nat /\ done[t] \in Nat
      /\ base[t] + done[t] <= Len(file)
  <2>1. t \in Trackers /\ TypeOK /\ IInv /\ LogStateOf(t) /\ WritesInLog
    BY TrackersAssumption DEF LogInv, LogState, IInv
  <2>2. pc[t] = "write" /\ InSession(t)
    BY DEF InSession, WriteSome, WriteTorn, Truncate
  <2>3. stamps[t] \in Seq(Secs) /\ file \in Seq(Cell) /\ base[t] \in Nat /\ done[t] \in Nat
    BY <2>1 DEF TypeOK
  <2>4. Len(stamps[t]) \in Nat
    BY <2>3
  <2> QED BY <2>1, <2>2, <2>3, <2>4 DEF WritesInLog
<1>2. UNCHANGED <<stamps, base, nl>> /\ OwnStart(t)' = OwnStart(t) /\ Wanted(t)' = Wanted(t)
  BY DEF WriteSome, WriteTorn, Truncate, logVars, OwnStart, Wanted
<1>3. \A q \in 1..done[t] : Stands(file, base[t], Wanted(t), q)
  BY <1>1 DEF LogStateOf
<1>4. \A p \in 1..m : p \in 1..LinesLen(Len(stamps[t]))
  <2> DEFINE n == Len(stamps[t])
  <2>1. n \in Nat
    BY <1>1
  <2> HIDE DEF n
  <2>2. 4 * ((n - 1) \div 2) <= LinesLen(n) /\ LinesLen(n) \in Int
    BY <2>1, SMTT(30) DEF LinesLen
  <2>3. \A p \in 1..(4 * ((n - 1) \div 2)) : p \in 1..LinesLen(n)
    BY <2>1, <2>2
  <2> QED BY <2>3 DEF n
<1> HIDE DEF m, o
<1>5. CASE WriteSome(t) \/ WriteTorn(t)
  <2>1. \A q \in 1..Len(Wanted(t)) : Stands(file, base[t], Wanted(t), q)
          => Stands(file', base[t], Wanted(t), q)
    BY <1>1, <1>3, <1>5, WrittenStep
  <2>2. ~logErr'[t] => ~logErr[t]
    BY <1>5 DEF WriteSome, WriteTorn, logVars
  <2>3. ASSUME FirstStand(t, m), NEW p \in 1..m
        PROVE  Stands(file', OwnStart(t), Lines(stamps[t]), p)
    <3>1. Stands(file, OwnStart(t), Lines(stamps[t]), p)
      BY <2>3 DEF FirstStand
    <3>2. o + p \in 1..Len(Wanted(t)) /\ Stands(file, base[t], Wanted(t), o + p)
      BY <1>1, <1>4, <3>1, StandsInText DEF o
    <3>3. Stands(file', base[t], Wanted(t), o + p)
      BY <2>1, <3>2
    <3> QED BY <1>1, <1>4, <3>3, StandsInText DEF o
  <2> QED BY <1>1, <1>2, <2>2, <2>3 DEF EarlierOf, FirstStand, m
<1>6. CASE Truncate(t)
  <2>1. file' = SubSeq(file, 1, base[t] + done[t]) /\ done[t] = Len(Wanted(t))
    BY <1>6 DEF Truncate
  <2>2. /\ Len(file') = base[t] + done[t]
        /\ \A i \in 1..(base[t] + done[t]) : file'[i] = file[i]
    BY <1>1, <2>1
  <2>3. ASSUME NEW q \in 1..done[t] PROVE Stands(file', base[t], Wanted(t), q)
    <3>1. base[t] + q \in 1..(base[t] + done[t]) /\ base[t] + q <= base[t] + done[t]
      BY <1>1
    <3>2. Stands(file, base[t], Wanted(t), q)
      BY <1>3
    <3> QED BY <2>2, <3>1, <3>2 DEF Stands
  <2>4. \A p \in 1..m : Stands(file', OwnStart(t), Lines(stamps[t]), p)
    <3> TAKE p \in 1..m
    <3>1. o + p \in 1..Len(Wanted(t))
      BY <1>1, <1>4, StandsInText DEF o
    <3>2. Stands(file', base[t], Wanted(t), o + p)
      BY <2>1, <2>3, <3>1
    <3> QED BY <1>1, <1>4, <3>2, StandsInText DEF o
  <2> QED BY <1>2, <2>4 DEF EarlierOf, FirstStand, m
<1> QED BY <1>5, <1>6

LEMMA OwnEarlier ==
  ASSUME LogInv, NEW t \in Appenders, EarlierOf(t),
         \/ StartPlain(t) \/ OpenLog(t) \/ Resume(t) \/ LoadAtEnd(t)
         \/ Loops(t) \/ Stops(t) \/ Signal(t)
         \/ WriteSome(t) \/ WriteTorn(t) \/ Truncate(t) \/ WriteFails(t)
  PROVE  EarlierOf(t)'
PROOF
<1>0. t \in Trackers /\ TypeOK
  BY TrackersAssumption DEF LogInv, IInv
<1>1. CASE StartPlain(t)
  BY <1>1 DEF StartPlain
<1>2. CASE OpenLog(t) \/ Stops(t)
  BY <1>0, <1>2 DEF OpenLog, Stops, Ends, EarlierOf, InSession, Idle, TypeOK
<1>3. CASE Resume(t) \/ LoadAtEnd(t)
  <2>1. stamps[t] = <<>>
    BY <1>3 DEF Resume, LoadAtEnd, LogInv, LogState, LogStateOf
  <2>2. stamps'[t] = <<>> \/ \E v : stamps'[t] = <<v>>
    BY <1>0, <1>3, <2>1 DEF Resume, LoadAtEnd, TypeOK
  <2> DEFINE n == Len(stamps'[t])
  <2>3. n = 0 \/ n = 1
    <3>1. \A v : Len(<<v>>) = 1
      OBVIOUS
    <3>2. Len(<<>>) = 0
      OBVIOUS
    <3> QED BY <2>2, <3>1, <3>2
  <2> HIDE DEF n
  <2>4. 1..(4 * ((n - 1) \div 2)) = {}
    BY <2>3
  <2> QED BY <2>4 DEF EarlierOf, FirstStand, n
<1>4. CASE Loops(t)
  BY <1>4, LoopsEarlier
<1>5. CASE Signal(t)
  BY <1>0, <1>5 DEF Signal, logVars, EarlierOf, FirstStand, OwnStart, InSession, Idle, TypeOK
<1>6. CASE WriteSome(t) \/ WriteTorn(t) \/ Truncate(t)
  BY <1>6, WriteEarlier
<1>7. CASE WriteFails(t)
  BY <1>0, <1>7 DEF WriteFails, WriteEnds, EarlierOf, TypeOK
<1> QED BY <1>1, <1>2, <1>3, <1>4, <1>5, <1>6, <1>7

LEMMA EarlierStep ==
  ASSUME LogInv, Earlier, [Next]_vars
  PROVE  Earlier'
PROOF
<1> USE DEF Earlier
<1>1. CASE UNCHANGED vars
  BY <1>1 DEF vars, logVars, EarlierOf, FirstStand, OwnStart, InSession
<1>2. CASE AppendForeign
  <2>1. \A t \in Appenders : pc'[t] = "off"
    BY <1>2, TrackersAssumption DEF AppendForeign, LogInv, IInv, OneOwner
  <2> QED BY <2>1 DEF EarlierOf, InSession, Idle
<1>3. ASSUME NEW t \in Trackers,
             \/ StartPlain(t) \/ OpenLog(t) \/ OpenLogFails(t)
             \/ Runs(t) \/ KeyArrives(t) \/ Signal(t) \/ Crash(t)
      PROVE  Earlier'
  <2>1. OthersAlone(t) /\ OthersTell(t) /\ (file' # file => t \in Appenders /\ lock = t)
    BY <1>3, StepKinds, FrameStep, TellStep DEF LogInv, IInv
  <2>2. ASSUME NEW u \in Appenders PROVE EarlierOf(u)'
    <3>1. CASE u = t
      BY <1>3, <3>1, StepKinds, OwnEarlier
    <3>2. CASE u # t
      <4>1. u \in Trackers \ {t}
        BY <3>2, TrackersAssumption
      <4>2. /\ pc'[u] = pc[u] /\ stamps'[u] = stamps[u] /\ base'[u] = base[u]
            /\ nl'[u] = nl[u] /\ logErr'[u] = logErr[u]
        BY <2>1, <4>1 DEF OthersAlone, OthersTell
      <4>3. CASE file' = file
        BY <4>2, <4>3 DEF EarlierOf, FirstStand, OwnStart, InSession
      <4>4. CASE file' # file
        <5>1. pc[u] = "off"
          BY <2>1, <3>2, <4>4 DEF LogInv, IInv, OneOwner
        <5> QED BY <4>2, <5>1 DEF EarlierOf, InSession, Idle
      <4> QED BY <4>3, <4>4
    <3> QED BY <3>1, <3>2
  <2> QED BY <2>2
<1> QED BY <1>1, <1>2, <1>3 DEF Next

\* As long as the last write has not failed, whatever a write has got done, the
\* entries before the last one stand in LOG in full and as they are in memory.
THEOREM EarlierAreKept == Spec => []EarlierEntriesKept
PROOF
<1>1. Init => Earlier
  BY TrackersAssumption DEF Init, Earlier, EarlierOf, InSession, Idle
<1>2. LogInv /\ Earlier /\ [Next]_vars => Earlier'
  BY EarlierStep
<1>3. Earlier => EarlierEntriesKept
  BY DEF Earlier, EarlierOf, FirstStand, Stands, OwnStart, EarlierEntriesKept, HoldsEntries
<1> QED BY <1>1, <1>2, <1>3, LogInvariance, PTL DEF Spec

\* What no step of t's session may do: damage its first n entries.
Stays(t, n) ==
  InSession(t) /\ InSession(t)' /\ 2 * n < Len(stamps[t]) /\ 2 * n < Len(stamps'[t])
    /\ HoldsEntries(t, n) => HoldsEntries(t, n)'

LEMMA HoldsIs ==
  ASSUME NEW t, NEW n
  PROVE  HoldsEntries(t, n) <=> FirstStand(t, 4 * n)
PROOF BY DEF HoldsEntries, FirstStand, Stands, OwnStart

\* The key loop changes the last entry only, and only in memory.
LEMMA LoopsStay ==
  ASSUME LogInv, NEW t \in Appenders, NEW n \in Nat, Loops(t)
  PROVE  Stays(t, n)
PROOF
<1> DEFINE st  == stamps[t]
           new == stamps'[t]
<1>1. t \in Trackers /\ TypeOK /\ MsgTells(t)
  BY TrackersAssumption DEF LogInv, IInv, LogState
<1>2. UNCHANGED <<file, base, nl>>
  BY <1>1, LoopsStep, LoopsLog
<1>3. /\ st \in Seq(Secs) /\ new \in Seq(Secs) /\ Len(st) \in Nat /\ Len(new) \in Nat
      /\ \A i \in 1..(Len(new) - 1) : i <= Len(st) /\ new[i] = st[i]
  BY <1>1, LoopsFollows DEF TypeOK, Follows
<1> SUFFICES ASSUME 2 * n < Len(st), 2 * n < Len(new), HoldsEntries(t, n)
             PROVE  HoldsEntries(t, n)'
  BY DEF Stays
<1> HIDE DEF st, new
<1> DEFINE m == 2 * n
<1>4. m \in Nat /\ m % 2 = 0 /\ m <= Len(st) /\ m <= Len(new) /\ 2 * m = 4 * n
  OBVIOUS
<1>5. \A i \in 1..m : new[i] = st[i]
  <2>1. \A i \in 1..m : i \in 1..(Len(new) - 1)
    BY <1>3
  <2> QED BY <1>3, <2>1
<1> HIDE DEF m
<1>6. \A p \in 1..(2 * m) : Lines(new)[p] = Lines(st)[p]
  BY <1>3, <1>4, <1>5, LinesPrefix
<1>7. \A p \in 1..(4 * n) : Lines(new)[p] = Lines(st)[p]
  BY <1>4, <1>6
<1> QED BY <1>2, <1>7 DEF HoldsEntries, st, new

\* What a write has not yet written stands where it stood, what it writes is the
\* same, and what it has written is not truncated.
LEMMA WriteStays ==
  ASSUME LogInv, NEW t \in Appenders, NEW n \in Nat,
         WriteSome(t) \/ WriteTorn(t) \/ Truncate(t)
  PROVE  Stays(t, n)
PROOF
<1> DEFINE o == IF nl[t] THEN 1 ELSE 0
<1>1. /\ t \in Trackers /\ TypeOK /\ IInv /\ LogStateOf(t) /\ pc[t] = "write" /\ InSession(t)
      /\ stamps[t] \in Seq(Secs) /\ Len(stamps[t]) \in Nat
      /\ file \in Seq(Cell) /\ base[t] \in Nat /\ done[t] \in Nat
      /\ base[t] + done[t] <= Len(file)
  <2>1. t \in Trackers /\ TypeOK /\ IInv /\ LogStateOf(t) /\ WritesInLog
    BY TrackersAssumption DEF LogInv, LogState, IInv
  <2>2. pc[t] = "write" /\ InSession(t)
    BY DEF InSession, WriteSome, WriteTorn, Truncate
  <2>3. stamps[t] \in Seq(Secs) /\ file \in Seq(Cell) /\ base[t] \in Nat /\ done[t] \in Nat
    BY <2>1 DEF TypeOK
  <2>4. Len(stamps[t]) \in Nat
    BY <2>3
  <2> QED BY <2>1, <2>2, <2>3, <2>4 DEF WritesInLog
<1>2. UNCHANGED <<stamps, base, nl>> /\ OwnStart(t)' = OwnStart(t)
  BY DEF WriteSome, WriteTorn, Truncate, logVars, OwnStart
<1> SUFFICES ASSUME 2 * n < Len(stamps[t]), FirstStand(t, 4 * n)
             PROVE  \A p \in 1..(4 * n) : Stands(file', OwnStart(t), Lines(stamps[t]), p)
  BY <1>2, HoldsIs DEF Stays, HoldsEntries, FirstStand, Stands, OwnStart
<1>3. \A p \in 1..(4 * n) : p \in 1..LinesLen(Len(stamps[t]))
  <2> DEFINE k == Len(stamps[t])
  <2>1. k \in Nat /\ 2 * n < k
    BY <1>1
  <2> HIDE DEF k
  <2>2. 4 * n <= LinesLen(k) /\ LinesLen(k) \in Int
    BY <2>1, SMTT(30) DEF LinesLen
  <2>3. \A p \in 1..(4 * n) : p \in 1..LinesLen(k)
    BY <2>1, <2>2
  <2> QED BY <2>3 DEF k
<1> HIDE DEF o
<1> TAKE p \in 1..(4 * n)
<1>4. Stands(file, OwnStart(t), Lines(stamps[t]), p)
  BY DEF FirstStand
<1>5. o + p \in 1..Len(Wanted(t)) /\ Stands(file, base[t], Wanted(t), o + p)
  BY <1>1, <1>3, <1>4, StandsInText DEF o
<1>6. CASE WriteSome(t) \/ WriteTorn(t)
  <2>1. \A q \in 1..done[t] : Stands(file, base[t], Wanted(t), q)
    BY <1>1 DEF LogStateOf
  <2>2. Stands(file', base[t], Wanted(t), o + p)
    BY <1>1, <1>5, <1>6, <2>1, WrittenStep
  <2> QED BY <1>1, <1>3, <2>2, StandsInText DEF o
<1>7. CASE Truncate(t)
  <2>1. file' = SubSeq(file, 1, base[t] + done[t]) /\ done[t] = Len(Wanted(t))
    BY <1>7 DEF Truncate
  <2>2. /\ Len(file') = base[t] + done[t]
        /\ \A i \in 1..(base[t] + done[t]) : file'[i] = file[i]
    BY <1>1, <2>1
  <2>3. base[t] + (o + p) \in 1..(base[t] + done[t]) /\ base[t] + (o + p) <= base[t] + done[t]
    BY <1>1, <1>5, <2>1
  <2>4. Stands(file', base[t], Wanted(t), o + p)
    BY <1>5, <2>2, <2>3 DEF Stands
  <2> QED BY <1>1, <1>3, <2>4, StandsInText DEF o
<1> QED BY <1>6, <1>7

LEMMA StayStep ==
  ASSUME LogInv, [Next]_vars, NEW t \in Appenders, NEW n \in Nat
  PROVE  Stays(t, n)
PROOF
<1>1. CASE UNCHANGED vars
  BY <1>1 DEF vars, logVars, Stays, HoldsEntries
<1>2. CASE AppendForeign
  <2>1. pc[t] = "off"
    BY <1>2, TrackersAssumption DEF AppendForeign, LogInv, IInv, OneOwner
  <2> QED BY <2>1 DEF Stays, InSession, Idle
<1>3. ASSUME NEW u \in Trackers,
             \/ StartPlain(u) \/ OpenLog(u) \/ OpenLogFails(u)
             \/ Runs(u) \/ KeyArrives(u) \/ Signal(u) \/ Crash(u)
      PROVE  Stays(t, n)
  <2>1. OthersAlone(u) /\ (file' # file => u \in Appenders /\ lock = u)
    BY <1>3, StepKinds, FrameStep DEF LogInv, IInv
  <2>2. CASE u = t
    <3>0. t \in Trackers /\ TypeOK
      BY TrackersAssumption DEF LogInv, IInv
    <3>1. \/ StartPlain(t) \/ OpenLog(t) \/ Resume(t) \/ LoadAtEnd(t)
          \/ Loops(t) \/ Stops(t) \/ Signal(t)
          \/ WriteSome(t) \/ WriteTorn(t) \/ Truncate(t) \/ WriteFails(t)
      BY <1>3, <2>2, StepKinds
    <3>2. CASE StartPlain(t) \/ OpenLog(t) \/ Resume(t) \/ LoadAtEnd(t)
      BY <3>2 DEF StartPlain, OpenLog, Resume, LoadAtEnd, Stays, InSession, Idle
    <3>3. CASE Stops(t)
      BY <3>0, <3>3 DEF Stops, Ends, Stays, InSession, Idle, TypeOK
    <3>4. CASE Loops(t)
      BY <3>4, LoopsStay
    <3>5. CASE Signal(t) \/ WriteFails(t)
      BY <3>5 DEF Signal, WriteFails, WriteEnds, logVars, Stays, HoldsEntries
    <3>6. CASE WriteSome(t) \/ WriteTorn(t) \/ Truncate(t)
      BY <3>6, WriteStays
    <3> QED BY <3>1, <3>2, <3>3, <3>4, <3>5, <3>6
  <2>3. CASE u # t
    <3>1. t \in Trackers \ {u}
      BY <2>3, TrackersAssumption
    <3>2. /\ pc'[t] = pc[t] /\ stamps'[t] = stamps[t] /\ base'[t] = base[t] /\ nl'[t] = nl[t]
      BY <2>1, <3>1 DEF OthersAlone
    <3>3. CASE file' = file
      BY <3>2, <3>3 DEF Stays, HoldsEntries
    <3>4. CASE file' # file
      <4>1. pc[t] = "off"
        BY <2>1, <2>3, <3>4 DEF LogInv, IInv, OneOwner
      <4> QED BY <4>1 DEF Stays, InSession, Idle
    <3> QED BY <3>3, <3>4
  <2> QED BY <2>2, <2>3
<1> QED BY <1>1, <1>2, <1>3 DEF Next

\* Failed writes and retries included: no step of a session damages an entry
\* before the last one that LOG has as it is in memory.
THEOREM EarlierStay == Spec => EarlierEntriesStay
PROOF
<1>1. LogInv /\ [Next]_vars
        => \A t \in Appenders : InSession(t) /\ InSession(t)' =>
             \A n \in 1..MaxStamps :
               2 * n < Len(stamps[t]) /\ 2 * n < Len(stamps'[t]) /\ HoldsEntries(t, n)
                 => HoldsEntries(t, n)'
  <2>1. \A n \in 1..MaxStamps : n \in Nat
    OBVIOUS
  <2> QED BY <2>1, StayStep DEF Stays
<1> QED BY <1>1, LogInvariance, PTL DEF Spec, EarlierEntriesStay

-----------------------------------------------------------------------------
(* The trackers implement LogFile.                                         *)

\* What the abstract variables are when t has the lock.
LEMMA OwnerIs ==
  ASSUME TypeOK, NEW t \in Appenders, lock = t
  PROVE  /\ InSession(t) => Owner = t /\ Kept = base[t] /\ List = stamps[t]
                            /\ Shown = (pc[t] # "write" /\ ~logErr[t])
         /\ ~InSession(t) => Owner = NoTracker /\ Kept = 0 /\ List = <<>> /\ Shown = TRUE
PROOF
<1>1. t # NoTracker
  BY TrackersAssumption
<1> QED BY <1>1 DEF Owner, Kept, List, Shown

LEMMA PromiseInit == Init => Promise!Init
PROOF BY DEF Init, Promise!Init, Owner, Kept, List, Shown

\* A step of a tracker that does not have LOG changes nothing of this.
LEMMA PromiseOthers ==
  ASSUME LogInv, NEW t \in Trackers, t \notin Appenders \/ lock # t,
         \/ StartPlain(t) \/ OpenLog(t) \/ Resume(t) \/ LoadAtEnd(t)
         \/ Loops(t) \/ Stops(t) \/ Signal(t)
         \/ WriteSome(t) \/ WriteTorn(t) \/ Truncate(t) \/ WriteFails(t)
  PROVE  UNCHANGED Promise!vars
PROOF
<1>1. TypeOK /\ OthersAlone(t) /\ OthersTell(t) /\ file' = file
  BY FrameStep, TellStep DEF LogInv, IInv
<1>2. CASE OpenLog(t)
  <2>1. lock = NoTracker /\ lock' = t /\ pc'[t] = "load"
    BY <1>1, <1>2 DEF OpenLog, TypeOK
  <2>2. Owner = NoTracker /\ Kept = 0 /\ List = <<>> /\ Shown = TRUE
    BY <2>1 DEF Owner, Kept, List, Shown
  <2>3. Owner' = NoTracker
    BY <2>1 DEF Owner, InSession, Idle
  <2>4. Kept' = 0 /\ List' = <<>> /\ Shown' = TRUE
    BY <2>3 DEF Kept, List, Shown
  <2> QED BY <1>1, <2>2, <2>3, <2>4 DEF Promise!vars
<1>3. CASE lock' = lock
  <2>1. CASE lock \in Appenders
    <3>1. lock \in Trackers \ {t} /\ lock # NoTracker
      BY <2>1, TrackersAssumption
    <3>2. /\ pc'[lock] = pc[lock] /\ base'[lock] = base[lock] /\ stamps'[lock] = stamps[lock]
          /\ logErr'[lock] = logErr[lock]
      BY <1>1, <3>1 DEF OthersAlone, OthersTell
    <3> QED BY <1>1, <1>3, <3>1, <3>2 DEF Promise!vars, Owner, Kept, List, Shown, InSession
  <2>2. CASE lock \notin Appenders
    BY <1>1, <1>3, <2>2 DEF Promise!vars, Owner, Kept, List, Shown, InSession
  <2> QED BY <2>1, <2>2
<1>4. CASE lock' # lock /\ ~OpenLog(t)
  <2>1. Stops(t)
    BY <1>1, <1>4, LoopsStep
       DEF StartPlain, Resume, LoadAtEnd, Signal, WriteSome, WriteTorn, Truncate, WriteFails
  <2>2. lock = t /\ lock' = NoTracker /\ t \notin Appenders
    BY <1>4, <2>1 DEF Stops, Ends
  <2> QED BY <1>1, <2>2 DEF Promise!vars, Owner, Kept, List, Shown, InSession
<1> QED BY <1>2, <1>3, <1>4

LEMMA PromiseLoad ==
  ASSUME LogInv, NEW t \in Appenders, lock = t, Resume(t) \/ LoadAtEnd(t)
  PROVE  Promise!Begin
PROOF
<1>1. /\ t \in Trackers /\ TypeOK /\ pc[t] = "load" /\ t # NoTracker
      /\ stamps[t] = <<>> /\ ~logErr[t] /\ LogStateOf(t)
  BY TrackersAssumption DEF LogInv, IInv, LogState, LogStateOf, Resume, LoadAtEnd
<1>2. pc'[t] = "render" /\ lock' = t /\ file' = file /\ logErr' = logErr
  BY <1>1 DEF Resume, LoadAtEnd, TypeOK
<1>3. Owner = NoTracker
  BY <1>1, OwnerIs DEF InSession, Idle
<1>4. Owner' = t /\ Kept' = base'[t] /\ List' = stamps'[t] /\ Shown' = TRUE
  BY <1>1, <1>2 DEF Owner, Kept, List, Shown, InSession, Idle
<1>5. \/ Kept' = Len(file) /\ List' = <<>>
      \/ Kept' \in 0..Len(file) /\ OpenEntryAt(file, Kept') /\ \E s \in Secs : List' = <<s>>
  <2>1. CASE Resume(t)
    <3>1. PICK b \in 0..Len(file), v \in Secs :
            /\ OpenEntryAt(file, b)
            /\ stamps' = [stamps EXCEPT ![t] = <<v>>]
            /\ base' = [base EXCEPT ![t] = b]
      BY <2>1, ParseStampInRange DEF Resume
    <3>2. base'[t] = b /\ stamps'[t] = <<v>>
      BY <1>1, <3>1 DEF TypeOK
    <3> QED BY <1>4, <3>1, <3>2
  <2>2. CASE LoadAtEnd(t)
    BY <1>1, <1>4, <2>2 DEF LoadAtEnd, TypeOK
  <2> QED BY <2>1, <2>2
<1> QED BY <1>1, <1>2, <1>3, <1>4, <1>5 DEF Promise!Begin

LEMMA PromiseLoops ==
  ASSUME LogInv, EndNotBeforeStart', NEW t \in Appenders, lock = t, Loops(t)
  PROVE  Promise!Change \/ UNCHANGED Promise!vars
PROOF
<1>1. t \in Trackers /\ TypeOK /\ MsgTells(t) /\ t # NoTracker
  BY TrackersAssumption DEF LogInv, IInv, LogState
<1>2. /\ file' = file /\ lock' = t /\ base' = base /\ logErr' = logErr /\ pc[t] \in Idle
      /\ pc'[t] = "write" \/ (pc'[t] \in Idle /\ stamps'[t] = stamps[t])
  BY <1>1, LoopsStep, LoopsLog
<1>3. /\ Owner = t /\ Kept = base[t] /\ List = stamps[t] /\ Shown = ~logErr[t]
  BY <1>1, <1>2, OwnerIs DEF InSession, Idle
<1>4. /\ Owner' = t /\ Kept' = base[t] /\ List' = stamps'[t]
      /\ Shown' = (pc'[t] # "write" /\ ~logErr[t])
  BY <1>1, <1>2 DEF Owner, Kept, List, Shown, InSession
<1>5. CASE pc'[t] = "write"
  <2>1. Changes(stamps'[t], stamps[t])
    BY <1>1, LoopsChanges
  <2>2. Promise!Push \/ Promise!Pop \/ Promise!Replace \/ UNCHANGED List
    BY <1>3, <1>4, <2>1 DEF Changes, Promise!Push, Promise!Pop, Promise!Replace
  <2>3. \A i \in 1..Len(List') : i % 2 = 0 => IsEndOf(List'[i], List'[i - 1])
    BY <1>1, <1>4 DEF EndNotBeforeStart
  <2> QED BY <1>1, <1>2, <1>3, <1>4, <1>5, <2>2, <2>3 DEF Promise!Change
<1>6. CASE pc'[t] # "write"
  BY <1>2, <1>3, <1>4, <1>6 DEF Promise!vars, Idle
<1> QED BY <1>5, <1>6

LEMMA PromiseWrite ==
  ASSUME LogInv, NEW t \in Appenders, lock = t, WriteSome(t) \/ WriteTorn(t)
  PROVE  Promise!Write
PROOF
<1>1. t \in Trackers /\ TypeOK /\ IInv /\ t # NoTracker /\ base[t] \in Nat /\ InSession(t)
  BY TrackersAssumption DEF LogInv, IInv, TypeOK, InSession, WriteSome, WriteTorn
<1>2. UNCHANGED <<lock, pc, stamps, base, logErr>> /\ pc[t] = "write"
  BY DEF WriteSome, WriteTorn, logVars
<1>3. /\ file \in Seq(Cell) /\ file' \in Seq(Cell)
      /\ base[t] <= Len(file) /\ Len(file') >= base[t]
      /\ \A i \in 1..base[t] : file'[i] = file[i]
  <2>1. base[t] + done[t] <= Len(file) /\ done[t] \in Nat /\ file \in Seq(Cell)
    BY <1>1 DEF IInv, WritesInLog, TypeOK
  <2>2. /\ file' \in Seq(Cell) /\ Len(file') >= Len(file)
        /\ \A i \in 1..base[t] : file'[i] = file[i]
    BY <1>1, WriteStep
  <2> QED BY <1>1, <2>1, <2>2
<1>4. SubSeq(file', 1, base[t]) = SubSeq(file, 1, base[t])
  <2> DEFINE b == base[t]
             new == file'
  <2>1. /\ b \in Nat /\ new \in Seq(Cell) /\ b <= Len(file) /\ b <= Len(new)
        /\ \A i \in 1..b : new[i] = file[i]
    BY <1>1, <1>3
  <2> HIDE DEF b, new
  <2> QED BY <1>3, <2>1 DEF b, new
<1>5. Owner = t /\ Kept = base[t] /\ List = stamps[t] /\ Shown = FALSE
  BY <1>1, <1>2, OwnerIs
<1>6. UNCHANGED <<Owner, Kept, List, Shown>>
  BY <1>2 DEF Owner, Kept, List, Shown, InSession
<1> QED BY <1>1, <1>3, <1>4, <1>5, <1>6 DEF Promise!Write

\* A write that ends well settles: what it has written is the text of the list,
\* after a newline where the older lines need one.
LEMMA PromiseSettle ==
  ASSUME LogInv, NEW t \in Appenders, lock = t, Truncate(t)
  PROVE  Promise!Settle
PROOF
<1> DEFINE b == base[t]
           w == Wanted(t)
<1>1. /\ t \in Trackers /\ TypeOK /\ IInv /\ LogStateOf(t) /\ t # NoTracker /\ InSession(t)
      /\ b \in Nat /\ w \in Seq(Cell) /\ file \in Seq(Cell)
  BY TrackersAssumption, WantedType DEF LogInv, LogState, IInv, TypeOK, InSession, Truncate
<1>2. /\ UNCHANGED <<lock, stamps, base>> /\ pc[t] = "write" /\ pc'[t] = "render" /\ ~logErr'[t]
      /\ file' = SubSeq(file, 1, b + Len(w)) /\ done[t] = Len(w)
  BY <1>1 DEF Truncate, WriteEnds, TypeOK
<1>3. Owner = t /\ Kept = b /\ List = stamps[t] /\ Shown = FALSE
  BY <1>1, <1>2, OwnerIs
<1>4. Owner' = t /\ Kept' = b /\ List' = stamps[t] /\ Shown' = TRUE
  BY <1>1, <1>2 DEF Owner, Kept, List, Shown, InSession, Idle
<1>5. w = LogText(stamps[t], b > 0 /\ ~EndsLine(file[b]))
  <2>1. nl[t] <=> b > 0 /\ ~EndsLine(file[b])
    BY <1>1 DEF LogStateOf
  <2> QED BY <2>1 DEF Wanted, LogText
<1>6. b + Len(w) <= Len(file) /\ \A q \in 1..Len(w) : Stands(file, b, w, q)
  BY <1>1, <1>2 DEF IInv, WritesInLog, LogStateOf
<1> HIDE DEF b, w
<1>7. SubSeq(file, 1, b + Len(w)) = SubSeq(file, 1, b) \o w
  <2>1. \A q \in 1..Len(w) : file[b + q] = w[q]
    BY <1>6 DEF Stands
  <2> DEFINE n == Len(w)
             left == SubSeq(file, 1, b + n)
             right == SubSeq(file, 1, b) \o w
  <2>2. n \in Nat /\ left \in Seq(Cell) /\ right \in Seq(Cell)
    BY <1>1, <1>6
  <2>3. Len(left) = b + n /\ Len(right) = b + n
    BY <1>1, <1>6
  <2>4. ASSUME NEW i \in 1..(b + n) PROVE left[i] = right[i]
    <3>1. left[i] = file[i]
      BY <1>1, <1>6
    <3>2. CASE i <= b
      BY <1>1, <1>6, <3>1, <3>2
    <3>3. CASE i > b
      <4>1. i - b \in 1..n /\ b + (i - b) = i
        BY <1>1, <2>2, <3>3
      <4>2. right[i] = w[i - b]
        BY <1>1, <1>6, <3>3, <4>1
      <4>3. file[b + (i - b)] = w[i - b]
        BY <2>1, <4>1
      <4> QED BY <3>1, <4>1, <4>2, <4>3
    <3> QED BY <1>1, <2>2, <3>2, <3>3
  <2> HIDE DEF left, right, n
  <2>5. left = right
    BY <2>2, <2>3, <2>4
  <2> QED BY <2>5 DEF left, right, n
<1>8. file' = Promise!Shows(List)
  BY <1>2, <1>3, <1>5, <1>7 DEF Promise!Shows
<1> QED BY <1>1, <1>3, <1>4, <1>8 DEF Promise!Settle

\* The end of a session, or of its process before log_open was over.
LEMMA PromiseStops ==
  ASSUME LogInv, NEW t \in Appenders, lock = t, Stops(t)
  PROVE  Promise!End \/ UNCHANGED Promise!vars
PROOF
<1>1. TypeOK /\ t # NoTracker
  BY TrackersAssumption DEF LogInv, IInv
<1>2. lock' = NoTracker /\ file' = file
  BY DEF Stops, Ends
<1>3. Owner' = NoTracker /\ Kept' = 0 /\ List' = <<>> /\ Shown' = TRUE
  BY <1>2 DEF Owner, Kept, List, Shown
<1>4. CASE InSession(t)
  <2>1. Owner = t
    BY <1>1, <1>4, OwnerIs
  <2> QED BY <1>1, <1>2, <1>3, <2>1 DEF Promise!End
<1>5. CASE ~InSession(t)
  BY <1>1, <1>2, <1>3, <1>5, OwnerIs DEF Promise!vars
<1> QED BY <1>4, <1>5

\* A signal is only noted, and a failed write leaves LOG as it is: it did not
\* show the list before, and does not now.
LEMMA PromiseStutter ==
  ASSUME LogInv, NEW t \in Appenders, lock = t, Signal(t) \/ WriteFails(t)
  PROVE  UNCHANGED Promise!vars
PROOF
<1>1. TypeOK /\ t # NoTracker /\ t \in Trackers /\ InSession(t)
  BY TrackersAssumption DEF LogInv, IInv, InSession, Idle, Signal, WriteFails
<1>2. UNCHANGED <<file, lock, base, stamps>>
  BY DEF Signal, WriteFails, logVars
<1>3. Owner = t /\ Kept = base[t] /\ List = stamps[t] /\ Shown = (pc[t] # "write" /\ ~logErr[t])
  BY <1>1, OwnerIs
<1>4. /\ InSession(t)'
      /\ (pc'[t] # "write" /\ ~logErr'[t]) = (pc[t] # "write" /\ ~logErr[t])
  <2>1. CASE Signal(t)
    <3>1. logErr' = logErr /\ pc'[t] = IF pc[t] = "read" THEN "keys" ELSE pc[t]
      BY <1>1, <2>1 DEF Signal, TypeOK, logVars
    <3> QED BY <1>1, <3>1 DEF InSession, Idle
  <2>2. CASE WriteFails(t)
    <3>1. logErr'[t] = TRUE /\ pc[t] = "write" /\ pc'[t] = "render"
      BY <1>1, <2>2 DEF WriteFails, WriteEnds, TypeOK
    <3> QED BY <3>1 DEF InSession, Idle
  <2> QED BY <2>1, <2>2
<1>5. /\ Owner' = t /\ Kept' = base[t] /\ List' = stamps[t]
      /\ Shown' = (pc'[t] # "write" /\ ~logErr'[t])
  BY <1>1, <1>2, <1>4 DEF Owner, Kept, List, Shown, InSession
<1> QED BY <1>2, <1>3, <1>4, <1>5 DEF Promise!vars

\* Other programs' lines, between sessions.
LEMMA PromiseForeign ==
  ASSUME LogInv, AppendForeign
  PROVE  Promise!Foreign
PROOF
<1>1. /\ lock = NoTracker /\ lock' = NoTracker /\ file \in Seq(Cell)
  BY DEF AppendForeign, LogInv, IInv, TypeOK
<1>2. PICK l \in ForeignLines : file' = file \o l
  BY DEF AppendForeign
<1>3. Len(file') >= Len(file) /\ SubSeq(file', 1, Len(file)) = file
  <2>1. l \in Seq(Cell)
    BY LogsAssumption
  <2> QED BY <1>1, <1>2, <2>1
<1> QED BY <1>1, <1>3 DEF Owner, Kept, List, Shown, Promise!Foreign

LEMMA PromiseStep ==
  ASSUME LogInv, EndNotBeforeStart', [Next]_vars
  PROVE  [Promise!Next]_(Promise!vars)
PROOF
<1>1. CASE UNCHANGED vars
  BY <1>1 DEF vars, logVars, Promise!vars, Owner, Kept, List, Shown, InSession
<1>2. CASE AppendForeign
  BY <1>2, PromiseForeign DEF Promise!Next
<1>3. ASSUME NEW t \in Trackers,
             \/ StartPlain(t) \/ OpenLog(t) \/ OpenLogFails(t)
             \/ Runs(t) \/ KeyArrives(t) \/ Signal(t) \/ Crash(t)
      PROVE  [Promise!Next]_(Promise!vars)
  <2>1. \/ StartPlain(t) \/ OpenLog(t) \/ Resume(t) \/ LoadAtEnd(t)
        \/ Loops(t) \/ Stops(t) \/ Signal(t)
        \/ WriteSome(t) \/ WriteTorn(t) \/ Truncate(t) \/ WriteFails(t)
    BY <1>3, StepKinds
  <2>2. CASE t \notin Appenders \/ lock # t
    BY <2>1, <2>2, PromiseOthers
  <2>3. CASE t \in Appenders /\ lock = t
    <3>1. CASE StartPlain(t) \/ OpenLog(t)
      BY <2>3, <3>1, TrackersAssumption DEF StartPlain, OpenLog
    <3>2. CASE Resume(t) \/ LoadAtEnd(t)
      BY <2>3, <3>2, PromiseLoad DEF Promise!Next
    <3>3. CASE Loops(t)
      BY <2>3, <3>3, PromiseLoops DEF Promise!Next
    <3>4. CASE Stops(t)
      BY <2>3, <3>4, PromiseStops DEF Promise!Next
    <3>5. CASE Signal(t) \/ WriteFails(t)
      BY <2>3, <3>5, PromiseStutter
    <3>6. CASE WriteSome(t) \/ WriteTorn(t)
      BY <2>3, <3>6, PromiseWrite DEF Promise!Next
    <3>7. CASE Truncate(t)
      BY <2>3, <3>7, PromiseSettle DEF Promise!Next
    <3> QED BY <2>1, <3>1, <3>2, <3>3, <3>4, <3>5, <3>6, <3>7
  <2> QED BY <2>2, <2>3
<1> QED BY <1>1, <1>2, <1>3 DEF Next

\* Trackers of any number, on any LOG, keep the promise of LogFile whatever
\* their keys, clocks, writes, failures and crashes are.
THEOREM Implements == Spec => KeepsPromise
PROOF
<1>1. LogInv /\ EndNotBeforeStart' /\ [Next]_vars => [Promise!Next]_(Promise!vars)
  BY PromiseStep
<1> QED BY <1>1, PromiseInit, LogInvariance, StoredEndsAreEnds, PTL
        DEF Spec, KeepsPromise, Promise!Spec

=============================================================================
