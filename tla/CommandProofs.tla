--------------------------- MODULE CommandProofs ----------------------------
(***************************************************************************)
(* The exit status of the command, its settings and its conversions,       *)
(* proved for any options, variables, configuration file, input, zone and  *)
(* failures of standard output: StatusInv for the status, SettingsInv for  *)
(* the settings, ShownInv and the calendar for what is converted.          *)
(***************************************************************************)
EXTENDS Command, Recursion

Early == {"options", "configure", "open", "lines", "clock"}

\* What the exit status will be, as soon as the command is over.
Code == IF why \notin {"", "help"} THEN 2 ELSE status

\* While the command is under way nothing has gone wrong unnoticed: the status
\* is still 0 but where ranges or VALUEs were bad, the code is settled when it
\* leaves, and the stream remembers whatever was lost.  Of a tracker that a signal
\* ended no status is left.
StatusInv ==
  /\ pc \in Early \union {"work", "exit", "ended"}
  /\ pc \in Early => shown = Unset
  /\ pc \in Early \/ (pc = "work" /\ mode # "convert") => status = 0
  /\ mode # "convert" => shown = Unset
  /\ shown # Unset /\ shown.at.r # 0 => status = 1
  /\ pc \in {"exit", "ended"} \/ why = ""
  /\ pc = "exit" => code = Code
  /\ pc # "ended" => (failed = lost)
  /\ pc = "ended" => \/ code = IF lost THEN 2 ELSE Code
                     \/ code = Signalled /\ mode = "track"

LEMMA InitStatus == Init => StatusInv
PROOF BY DEF Init, StatusInv, Early

LEMMA OptionsStatus ==
  ASSUME StatusInv, Option \/ Help \/ EndOptions
  PROVE  StatusInv'
PROOF
<1> USE DEF StatusInv, Early, Code, Leaves, Prints, optVars, confVars, libVars, workVars, outVars
<1>1. CASE Option
  BY <1>1 DEF Option, ModeOption
<1>2. CASE Help
  BY <1>2 DEF Help
<1>3. CASE EndOptions
  BY <1>3 DEF EndOptions
<1> QED BY <1>1, <1>2, <1>3

LEMMA SettingsStatus ==
  ASSUME StatusInv, Configure \/ OpenConfig \/ ReadLine \/ EndConfig \/ ClockNow
  PROVE  StatusInv'
PROOF
<1>1. pc \in Early \ {"options"} /\ shown = Unset /\ status = 0 /\ why = "" /\ failed = lost
  BY DEF StatusInv, Early, Configure, OpenConfig, ReadLine, EndConfig, ClockNow
<1>2. UNCHANGED <<mode, shown, status, failed, lost>>
  BY DEF Configure, OpenConfig, ReadLine, EndConfig, ClockNow, optVars, workVars, outVars
<1>3. \/ pc' \in Early \union {"work"} /\ why' = why
      \/ \E reason \in {"value", "file", "clock"} : Leaves(2, reason)
  <2>1. CASE Configure
    BY <2>1 DEF Configure, SetAll, Early
  <2>2. CASE EndConfig
    BY <2>2 DEF EndConfig, SetAll, Early
  <2>3. CASE OpenConfig \/ ClockNow
    BY <2>3 DEF OpenConfig, ClockNow, Early
  <2>4. CASE ReadLine
    BY <1>1, <2>4 DEF ReadLine
  <2> QED BY <2>1, <2>2, <2>3, <2>4
<1> QED BY <1>1, <1>2, <1>3 DEF StatusInv, Early, Code, Leaves

LEMMA WorkStatus ==
  ASSUME StatusInv, OperandError \/ Now \/ Track \/ Sums \/ Convert \/ EndConvert
  PROVE  StatusInv'
PROOF
<1> USE DEF StatusInv, Early, Code, Leaves, Prints, optVars, confVars, libVars, workVars, outVars
<1>1. CASE OperandError
  BY <1>1 DEF OperandError
<1>2. CASE Now
  BY <1>2 DEF Now
<1>3. CASE Track
  BY <1>3 DEF Track
<1>4. CASE Sums
  <2>1. PICK st \in 0..2 : status' = st /\ Leaves(st, "")
    BY <1>4 DEF Sums
  <2>2. pc' = "exit" /\ code' = status' /\ why' = "" /\ mode = "sum" /\ failed' = lost'
    BY <1>4, <2>1 DEF Sums
  <2>3. mode' = mode /\ shown' = Unset
    BY <1>4, <2>2 DEF Sums
  <2> QED BY <2>2, <2>3
<1>5. CASE Convert
  <2>1. pc = "work" /\ pc' = "work" /\ mode = "convert" /\ mode' = "convert" /\ why' = why
    BY <1>5 DEF Convert
  <2>2. failed' = lost'
    <3>1. Prints \/ UNCHANGED outVars
      BY <1>5 DEF Convert
    <3>2. (failed' = failed /\ lost' = lost) \/ (failed' = TRUE /\ lost' = TRUE)
      BY <3>1
    <3>3. failed = lost
      BY <2>1
    <3> QED BY <3>2, <3>3
  <2>3. shown'.at.r # 0 => status' = 1
    <3>1. PICK v \in Operands : \E read \in Reads(v) :
            \/ read.r = 0 /\ shown' = [value |-> v, at |-> read, as |-> Converted(v, read.out)]
            \/ read.r # 0 /\ status' = 1
      BY <1>5 DEF Convert
    <3>2. PICK read \in Reads(v) :
            \/ read.r = 0 /\ shown' = [value |-> v, at |-> read, as |-> Converted(v, read.out)]
            \/ read.r # 0 /\ status' = 1
      BY <3>1
    <3>3. CASE read.r # 0 /\ status' = 1
      BY <3>3
    <3>4. CASE read.r = 0 /\ shown' = [value |-> v, at |-> read, as |-> Converted(v, read.out)]
      <4>1. shown'.at = read
        BY <3>4
      <4> QED BY <3>4, <4>1
    <3> QED BY <3>2, <3>3, <3>4
  <2> QED BY <2>1, <2>2, <2>3
<1>6. CASE EndConvert
  BY <1>6 DEF EndConvert
<1> QED BY <1>1, <1>2, <1>3, <1>4, <1>5, <1>6

LEMMA StatusStep ==
  ASSUME StatusInv, [Next]_vars
  PROVE  StatusInv'
PROOF
<1>1. CASE UNCHANGED vars
  BY <1>1 DEF vars, optVars, confVars, libVars, workVars, outVars, StatusInv, Code
<1>2. CASE CloseStdout
  <2>1. /\ pc = "exit" /\ pc' = "ended" /\ code = Code /\ failed = lost
        /\ UNCHANGED <<mode, shown, status, why>>
    BY <1>2 DEF CloseStdout, optVars, workVars, StatusInv
  <2>2. code' = IF lost' THEN 2 ELSE Code
    BY <1>2, <2>1 DEF CloseStdout
  <2>3. Code' = Code
    BY <2>1 DEF Code
  <2> QED BY <2>1, <2>2, <2>3 DEF StatusInv, Early
<1> QED BY <1>1, <1>2, OptionsStatus, SettingsStatus, WorkStatus DEF Next

\* A lost write, at any time and whatever came after it, a usage error and a bad
\* setting end with status 2, a bad VALUE with 1, all else with what the work
\* came to, if it ends with a status: only a tracker may die by a signal.  For
\* every zone, every text and every number of operands.
THEOREM StatusIsTold == Spec => []StatusTells
PROOF
<1>1. StatusInv => StatusTells
  BY DEF StatusInv, StatusTells, Code, Early
<1> QED BY <1>1, InitStatus, StatusStep, PTL DEF Spec

-----------------------------------------------------------------------------
(* The calendar, and what sets day 0.                                      *)

\* How often the year number is a multiple of c.
LEMMA Multiple ==
  ASSUME NEW y \in Int
  PROVE  /\ y \div 4 = (y - 1) \div 4 + (IF y % 4 = 0 THEN 1 ELSE 0)
         /\ y \div 100 = (y - 1) \div 100 + (IF y % 100 = 0 THEN 1 ELSE 0)
         /\ y \div 400 = (y - 1) \div 400 + (IF y % 400 = 0 THEN 1 ELSE 0)
         /\ (y % 400 = 0 => y % 100 = 0) /\ (y % 100 = 0 => y % 4 = 0)
PROOF BY SMT

\* A month of month_days days ends where the next one starts: the table and the
\* rule of leap years agree with the days counted from 1970.
LEMMA MonthLength ==
  ASSUME NEW y \in Int, NEW m \in 1..12
  PROVE  LET n == 12 * y + m - 1
         IN /\ Lib(0, 1)!MonthStart(n + 1) = Lib(0, 1)!MonthStart(n) + Lib(0, 1)!MonthDays(y, m)
            /\ Lib(0, 1)!MonthStart(n) \in Int /\ Lib(0, 1)!MonthDays(y, m) \in Int
PROOF
<1> DEFINE n == 12 * y + m - 1
           Days(a, b) == Lib(0, 1)!DaysFromCivil(a, b, 1)
           century(a) == a \div 4 - a \div 100 + a \div 400
           Before(a)  == 365 * a + century(a) + 1 - 719469
<1>1. n \div 12 = y /\ n % 12 = m - 1 /\ (n % 12) + 1 = m
  BY SMT
<1>2. /\ m < 12 => (n + 1) \div 12 = y /\ ((n + 1) % 12) + 1 = m + 1
      /\ m = 12 => (n + 1) \div 12 = y + 1 /\ ((n + 1) % 12) + 1 = 1
  BY SMT
<1>3. Lib(0, 1)!MonthStart(n) = Days(y, m)
  BY <1>1 DEF Lib!MonthStart
<1>4. Lib(0, 1)!MonthStart(n + 1) = IF m < 12 THEN Days(y, m + 1) ELSE Days(y + 1, 1)
  BY <1>2 DEF Lib!MonthStart
<1>5. \A a \in Int :
        /\ Days(a, 1)  = Before(a - 1) + 306 /\ Days(a, 2)  = Before(a - 1) + 337
        /\ Days(a, 3)  = Before(a)           /\ Days(a, 4)  = Before(a) + 31
        /\ Days(a, 5)  = Before(a) + 61      /\ Days(a, 6)  = Before(a) + 92
        /\ Days(a, 7)  = Before(a) + 122     /\ Days(a, 8)  = Before(a) + 153
        /\ Days(a, 9)  = Before(a) + 184     /\ Days(a, 10) = Before(a) + 214
        /\ Days(a, 11) = Before(a) + 245     /\ Days(a, 12) = Before(a) + 275
  BY SMT DEF Lib!DaysFromCivil
<1>6. \A a \in Int : Before(a) \in Int
  BY SMT
<1>7. Before(y) = Before(y - 1) + 365 + (IF Lib(0, 1)!Leap(y) THEN 1 ELSE 0)
  BY Multiple, SMT DEF Lib!Leap
<1>8. /\ Lib(0, 1)!MonthDays(y, 2) = 28 + (IF Lib(0, 1)!Leap(y) THEN 1 ELSE 0)
      /\ \A k \in {1, 3, 5, 7, 8, 10, 12} : Lib(0, 1)!MonthDays(y, k) = 31
      /\ \A k \in {4, 6, 9, 11} : Lib(0, 1)!MonthDays(y, k) = 30
  BY SMT DEF Lib!MonthDays
<1> HIDE DEF n, Days, Before
<1>9. y + 1 \in Int /\ (y + 1) - 1 = y
  OBVIOUS
<1>10. Before(y) \in Int /\ Before(y - 1) \in Int
  BY <1>6
<1>11. Lib(0, 1)!MonthStart(n + 1) = Lib(0, 1)!MonthStart(n) + Lib(0, 1)!MonthDays(y, m)
  <2>1. CASE m = 1
    BY <1>3, <1>4, <1>5, <1>8, <1>10, <2>1, SMT
  <2>2. CASE m = 2
    BY <1>3, <1>4, <1>5, <1>7, <1>8, <1>10, <2>2, SMT
  <2>3. CASE m \in 3..11
    BY <1>3, <1>4, <1>5, <1>8, <1>10, <2>3, SMT
  <2>4. CASE m = 12
    BY <1>3, <1>4, <1>5, <1>8, <1>9, <1>10, <2>4, SMT
  <2> QED BY <2>1, <2>2, <2>3, <2>4
<1>12. Lib(0, 1)!MonthStart(n) \in Int
  BY <1>3, <1>5, <1>10, SMT
<1>13. Lib(0, 1)!MonthDays(y, m) \in Int
  BY <1>8, SMT
<1> QED BY <1>11, <1>12, <1>13 DEF n

\* A date is real if its day is at most the length of its month.
LEMMA RealDates ==
  ASSUME NEW x, x.year \in Int, x.month \in Int, x.day \in Int
  PROVE  IsReal(x) <=>
           x.full /\ x.month \in 1..12 /\ x.day \in 1..Lib(0, 1)!MonthDays(x.year, x.month)
PROOF
<1> DEFINE InCalendar == /\ x.month \in 1..12 /\ x.day >= 1
                         /\ LET n == 12 * x.year + x.month - 1
                            IN Lib(0, 1)!MonthStart(n) + x.day - 1 < Lib(0, 1)!MonthStart(n + 1)
<1>0. IsReal(x) <=> x.full /\ InCalendar
  BY Zenon DEF IsReal
<1>1. CASE x.month \in 1..12
  <2> DEFINE n == 12 * x.year + x.month - 1
             from == Lib(0, 1)!MonthStart(n)
             to   == Lib(0, 1)!MonthStart(n + 1)
             days == Lib(0, 1)!MonthDays(x.year, x.month)
  <2>1. to = from + days /\ from \in Int /\ days \in Int
    BY <1>1, MonthLength, Zenon
  <2>2. InCalendar <=> x.day >= 1 /\ from + x.day - 1 < to
    BY <1>1
  <2> HIDE DEF from, to, days, InCalendar
  <2>3. InCalendar <=> x.day \in 1..days
    BY <2>1, <2>2
  <2> QED BY <1>0, <1>1, <2>3, Zenon DEF days
<1>2. CASE x.month \notin 1..12
  BY <1>0, <1>2, Zenon
<1> QED BY <1>1, <1>2

\* A month starts within a few days of where months of equal length would.
LEMMA MonthStartNear ==
  ASSUME NEW n \in Int
  PROVE  /\ Lib(0, 1)!MonthStart(n) \in Int
         /\ 4800 * (Lib(0, 1)!MonthStart(n) + 719468) >= 146097 * (n - 2) - 10560
         /\ 4800 * (Lib(0, 1)!MonthStart(n) + 719468) <= 146097 * (n - 2) + 15840
PROOF
<1> DEFINE y == n \div 12
           m == (n % 12) + 1
           yy == IF m <= 2 THEN y - 1 ELSE y
           k == (m + 9) % 12
           a == yy \div 4
           b == yy \div 100
           c == yy \div 400
           d == (153 * k + 2) \div 5
           start == Lib(0, 1)!MonthStart(n)
<1>1. start = 365 * yy + a - b + c + d + 1 - 719469
  BY SMT DEF Lib!MonthStart, Lib!DaysFromCivil
<1>2. y \in Int /\ m \in 1..12 /\ n = 12 * y + m - 1
  BY SMT
<1> HIDE DEF y, m
<1>3. yy \in Int /\ k \in 0..11 /\ n - 2 = 12 * yy + k
  BY <1>2, SMT
<1> HIDE DEF yy, k
<1>4. a \in Int /\ 4 * a <= yy /\ yy <= 4 * a + 3
  BY <1>3, SMT
<1>5. b \in Int /\ 100 * b <= yy /\ yy <= 100 * b + 99
  BY <1>3, SMT
<1>6. c \in Int /\ 400 * c <= yy /\ yy <= 400 * c + 399
  BY <1>3, SMT
<1>7. d \in Int /\ 5 * d <= 153 * k + 2 /\ 153 * k + 2 <= 5 * d + 4
  BY <1>3, SMT
<1> HIDE DEF a, b, c, d, start
<1>8. start \in Int
  BY <1>1, <1>3, <1>4, <1>5, <1>6, <1>7, SMT
<1>9. start + 719468 = 365 * yy + a - b + c + d
  BY <1>1, <1>3, <1>4, <1>5, <1>6, <1>7, SMT
<1>10. 4800 * (start + 719468) >= 146097 * (n - 2) - 10560 /\ 4800 * (start + 719468) <= 146097 * (n - 2) + 15840
  BY <1>3, <1>4, <1>5, <1>6, <1>7, <1>8, <1>9, SMT
<1> QED BY <1>8, <1>10 DEF start

\* Every day is in the month that MonthOf looks for near it.
LEMMA MonthOfIs ==
  ASSUME NEW days \in Int
  PROVE  LET n == Lib(0, 1)!MonthOf(days)
         IN n \in Int /\ Lib(0, 1)!MonthStart(n) <= days /\ days < Lib(0, 1)!MonthStart(n + 1)
PROOF
<1> DEFINE cycles == days \div 146097
           rest == days % 146097
           part == (4800 * rest) \div 146097
           past == 4800 * cycles + part
           near == 12 * 1970 + past
           start(n) == Lib(0, 1)!MonthStart(n)
           Holds(n) == start(n) <= days /\ days < start(n + 1)
<1>1. past \in Int /\ 146097 * past <= 4800 * days /\ 4800 * days < 146097 * past + 146097
  <2>1. cycles \in Int /\ rest \in Int /\ days = 146097 * cycles + rest
    BY SMT
  <2> HIDE DEF cycles, rest
  <2>2. part \in Int /\ 146097 * part <= 4800 * rest /\ 4800 * rest < 146097 * part + 146097
    BY <2>1, SMT
  <2> HIDE DEF part
  <2> QED BY <2>1, <2>2, SMT
<1> HIDE DEF past
<1>2. near \in Int /\ near = 23640 + past
  BY <1>1, SMT
<1>3. \A n \in Int : /\ start(n) \in Int
                     /\ 4800 * (start(n) + 719468) >= 146097 * (n - 2) - 10560
                     /\ 4800 * (start(n) + 719468) <= 146097 * (n - 2) + 15840
  BY MonthStartNear
<1> HIDE DEF near, start
<1>4. start(near - 1) <= days
  <2> DEFINE e == near - 1
  <2>1. e \in Int /\ e = near - 1
    BY <1>2
  <2> HIDE DEF e
  <2>2. start(e) \in Int /\ 4800 * (start(e) + 719468) <= 146097 * (e - 2) + 15840
    BY <2>1, <1>3
  <2>3. start(e) <= days
    <3> DEFINE s == start(e)
    <3> HIDE DEF s
    <3>1. s <= days
      BY <1>1, <1>2, <2>1, <2>2, SMT DEF s
    <3> QED BY <3>1 DEF s
  <2> QED BY <2>1, <2>3
<1>5. days < start(near + 2)
  <2> DEFINE e == near + 2
  <2>1. e \in Int /\ e = near + 2
    BY <1>2
  <2> HIDE DEF e
  <2>2. start(e) \in Int /\ 4800 * (start(e) + 719468) >= 146097 * (e - 2) - 10560
    BY <2>1, <1>3
  <2>3. days < start(e)
    <3> DEFINE s == start(e)
    <3> HIDE DEF s
    <3>1. days < s
      BY <1>1, <1>2, <2>1, <2>2, SMT DEF s
    <3> QED BY <3>1 DEF s
  <2> QED BY <2>1, <2>3
<1>6. \E n \in (near - 2)..(near + 2) : Holds(n)
  <2>1. CASE days < start(near)
    <3>1. (near - 1) + 1 = near /\ near - 1 \in (near - 2)..(near + 2)
      BY <1>2
    <3> QED BY <1>4, <2>1, <3>1
  <2>2. CASE start(near) <= days /\ days < start(near + 1)
    BY <1>2, <2>2
  <2>3. CASE start(near + 1) <= days
    <3>1. (near + 1) + 1 = near + 2 /\ near + 1 \in (near - 2)..(near + 2)
      BY <1>2
    <3> QED BY <1>5, <2>3, <3>1
  <2>4. start(near) \in Int /\ start(near + 1) \in Int
    BY <1>2, <1>3
  <2> QED BY <2>1, <2>2, <2>3, <2>4
<1>7. Lib(0, 1)!MonthOf(days) = CHOOSE n \in (near - 2)..(near + 2) : Holds(n)
  BY SMT DEF Lib!MonthOf, near, past, part, rest, cycles, start
<1> HIDE DEF Holds
<1>8. Lib(0, 1)!MonthOf(days) \in (near - 2)..(near + 2) /\ Holds(Lib(0, 1)!MonthOf(days))
  BY <1>6, <1>7
<1>9. Lib(0, 1)!MonthOf(days) \in Int
  BY <1>2, <1>8
<1> QED BY <1>8, <1>9 DEF Holds, start

\* Its year, month and day of the month are a date of the calendar, and count
\* back to it.
LEMMA DateOfDay ==
  ASSUME NEW days \in Int
  PROVE  LET n == Lib(0, 1)!MonthOf(days)
             y == n \div 12
             m == (n % 12) + 1
             d == days - Lib(0, 1)!MonthStart(n) + 1
         IN /\ y \in Int /\ m \in 1..12 /\ n = 12 * y + m - 1
            /\ d \in 1..Lib(0, 1)!MonthDays(y, m)
            /\ Lib(0, 1)!DaysFromCivil(y, m, d) = days
PROOF
<1> DEFINE n == Lib(0, 1)!MonthOf(days)
           y == n \div 12
           m == (n % 12) + 1
           from == Lib(0, 1)!MonthStart(n)
           length == Lib(0, 1)!MonthDays(y, m)
           d == days - from + 1
<1>1. n \in Int /\ from <= days /\ days < Lib(0, 1)!MonthStart(n + 1)
  BY MonthOfIs, Zenon
<1>2. y \in Int /\ m \in 1..12 /\ n = 12 * y + m - 1
  <2> HIDE DEF n
  <2> QED BY <1>1, SMT
<1>3. /\ Lib(0, 1)!MonthStart(n + 1) = from + length
      /\ from \in Int /\ length \in Int
  <2> HIDE DEF n, y, m
  <2>1. LET k == 12 * y + m - 1
        IN /\ Lib(0, 1)!MonthStart(k + 1) = Lib(0, 1)!MonthStart(k) + Lib(0, 1)!MonthDays(y, m)
           /\ Lib(0, 1)!MonthStart(k) \in Int /\ Lib(0, 1)!MonthDays(y, m) \in Int
    BY <1>2, MonthLength
  <2> QED BY <1>2, <2>1, Zenon
<1>4. from = Lib(0, 1)!DaysFromCivil(y, m, 1)
  BY Zenon DEF Lib!MonthStart
<1> HIDE DEF n, y, m, from, length
<1>5. d \in 1..length /\ d \in Int
  BY <1>1, <1>3
<1>6. Lib(0, 1)!DaysFromCivil(y, m, d) = Lib(0, 1)!DaysFromCivil(y, m, 1) + d - 1
  <2> HIDE DEF d
  <2> QED BY <1>2, <1>5, SMT DEF Lib!DaysFromCivil
<1>7. Lib(0, 1)!DaysFromCivil(y, m, d) = days
  BY <1>3, <1>4, <1>5, <1>6
<1> QED BY <1>2, <1>5, <1>7, Zenon DEF n, y, m, from, length

\* dk_set_epoch: a date is read from the default day 0 and added to it.
LEMMA SetEpochIs ==
  ASSUME NEW x \in EpochTexts
  PROVE  Lib(DefaultEpoch, 1)!SetEpoch(x, DefaultEpoch)
           = IF IsReal(x) THEN Lib(0, 1)!Good(UnixTime(x)) ELSE Lib(0, 1)!Bad
PROOF
<1> DEFINE E == DefaultEpoch
           local == Lib(0, 1)!DaysFromCivil(x.year, x.month, x.day) * CivilDay + x.secs
           parsed == Lib(E, 1)!ParseDate(x, TRUE, E)
           good(v) == [r |-> 0, out |-> v]
           bad == [r |-> -1, out |-> 0]
           sub(a, b) == IF a - b \in MinSecs..MaxSecs THEN good(a - b) ELSE bad
<1>1. /\ x.year \in Int /\ x.month \in Int /\ x.day \in Int /\ x.secs \in Int /\ x.off \in Int
      /\ E \in Int
  BY DatesAssumption, CommandAssumption DEF Lib!Dates
<1>2. /\ {local - E, local - E - x.off, local - x.off} \subseteq MinSecs..MaxSecs
      /\ local \in FirstTime..LastTime
  BY DatesAssumption DEF LocalTime
<1>3. \A a, b : Lib(E, 1)!Sub(a, b) = sub(a, b)
  BY DEF Lib!Sub, Lib!Narrow, Lib!Good, Lib!Bad, Lib!Secs
<1>4. \A a, b : Lib(E, 1)!Add(a, b) = IF a + b \in MinSecs..MaxSecs THEN good(a + b) ELSE bad
  BY DEF Lib!Add, Lib!Narrow, Lib!Good, Lib!Bad, Lib!Secs
<1>5. Lib(E, 1)!Bad = bad /\ Lib(0, 1)!Bad = bad /\ \A v : Lib(0, 1)!Good(v) = good(v)
  BY DEF Lib!Good, Lib!Bad
<1>6. Lib(E, 1)!MonthDays(x.year, x.month) = Lib(0, 1)!MonthDays(x.year, x.month)
  BY DEF Lib!MonthDays, Lib!Leap
<1>7. Lib(E, 1)!DaysFromCivil(x.year, x.month, x.day) = Lib(0, 1)!DaysFromCivil(x.year, x.month, x.day)
  BY DEF Lib!DaysFromCivil
<1>8. local \in Int
  <2>1. Lib(0, 1)!DaysFromCivil(x.year, x.month, x.day) \in Int
    BY <1>1, SMT DEF Lib!DaysFromCivil
  <2> QED BY <1>1, <2>1, DatesAssumption
<1>9. Lib(E, 1)!FromTm(local, TRUE \/ x.zoned, E) = {sub(local, E)}
  <2>1. Lib(E, 1)!MkTime(local, TRUE \/ x.zoned) = {local}
    BY DEF Lib!MkTime
  <2> DEFINE shows(u) == Lib(E, 1)!Local(u, TRUE \/ x.zoned)
  <2>2. Lib(E, 1)!FromTm(local, TRUE \/ x.zoned, E)
          = {IF u \notin FirstTime..LastTime \/ (u = -1 /\ shows(u) >= 0) THEN bad ELSE sub(u, E) :
               u \in {local}}
    BY <1>3, <1>5, <2>1 DEF Lib!FromTm, Lib!Civil
  <2>3. shows(local) = local
    <3>1. shows(local) = local + 0
      BY DEF Lib!Local
    <3> HIDE DEF shows, local
    <3> QED BY <1>8, <3>1
  <2>4. ~(local = -1 /\ shows(local) >= 0)
    BY <1>8, <2>3
  <2> HIDE DEF local, bad, sub, shows
  <2> QED BY <1>2, <2>2, <2>4
<1>10. CASE ~IsReal(x)
  <2>1. ~x.full \/ x.month \notin 1..12 \/ x.day \notin 1..Lib(E, 1)!MonthDays(x.year, x.month)
    <3>1. ~x.full \/ x.month \notin 1..12 \/ x.day \notin 1..Lib(0, 1)!MonthDays(x.year, x.month)
      BY <1>1, <1>10, RealDates, Zenon
    <3> QED BY <1>6, <3>1, Zenon
  <2>2. parsed = {bad}
    BY <1>5, <2>1, Zenon DEF Lib!ParseDate
  <2>3. (CHOOSE v \in parsed : TRUE) = bad
    BY <2>2
  <2>4. Lib(E, 1)!SetEpoch(x, E) = bad
    <3> DEFINE chosen == CHOOSE v \in parsed : TRUE
    <3>1. Lib(E, 1)!SetEpoch(x, E) = IF chosen.r = 0 THEN Lib(E, 1)!Add(E, chosen.out) ELSE Lib(E, 1)!Bad
      BY DEF Lib!SetEpoch, parsed
    <3>2. chosen = bad
      BY <2>3
    <3> HIDE DEF chosen
    <3>3. chosen.r # 0
      BY <3>2
    <3> QED BY <1>5, <3>1, <3>3
  <2> QED BY <1>5, <1>10, <2>4
<1>11. CASE IsReal(x)
  <2>1. x.full /\ x.month \in 1..12 /\ x.day \in 1..Lib(E, 1)!MonthDays(x.year, x.month)
    <3>1. x.full /\ x.month \in 1..12 /\ x.day \in 1..Lib(0, 1)!MonthDays(x.year, x.month)
      BY <1>1, <1>11, RealDates, Zenon
    <3> QED BY <1>6, <3>1, Zenon
  <2>2. sub(local, E) = good(local - E)
    BY <1>2
  <2>3. sub(local - E, x.off) = good(local - E - x.off)
    BY <1>2
  <2>4. parsed = {good(local - E - x.off)}
    <3>1. parsed = {IF v.r = 0 THEN sub(v.out, x.off) ELSE bad : v \in {sub(local, E)}}
      <4> DEFINE there == Lib(E, 1)!DaysFromCivil(x.year, x.month, x.day) * CivilDay + x.secs
      <4>1. there = local
        BY <1>7
      <4>2. parsed = {IF v.r = 0 THEN Lib(E, 1)!Sub(v.out, x.off) ELSE Lib(E, 1)!Bad :
                        v \in Lib(E, 1)!FromTm(there, TRUE \/ x.zoned, E)}
        BY <2>1, Zenon DEF Lib!ParseDate
      <4> HIDE DEF parsed, there, local
      <4> QED BY <1>3, <1>5, <1>9, <4>1, <4>2
    <3> HIDE DEF parsed, local, sub, bad
    <3>2. parsed = {sub(local - E, x.off)}
      BY <2>2, <3>1
    <3> QED BY <2>3, <3>2
  <2>5. (CHOOSE v \in parsed : TRUE) = good(local - E - x.off)
    <3> HIDE DEF parsed, local
    <3> QED BY <2>4
  <2> HIDE DEF parsed
  <2>6. Lib(E, 1)!SetEpoch(x, E) = Lib(E, 1)!Add(E, local - E - x.off)
    <3> DEFINE chosen == CHOOSE v \in parsed : TRUE
    <3>1. Lib(E, 1)!SetEpoch(x, E) = IF chosen.r = 0 THEN Lib(E, 1)!Add(E, chosen.out) ELSE Lib(E, 1)!Bad
      BY DEF Lib!SetEpoch, parsed
    <3> DEFINE d == local - E - x.off
    <3>2. chosen = good(d)
      BY <2>5
    <3> HIDE DEF chosen, d
    <3>3. chosen.r = 0 /\ chosen.out = d
      BY <3>2
    <3>4. Lib(E, 1)!SetEpoch(x, E) = Lib(E, 1)!Add(E, d)
      BY <3>1, <3>3
    <3> QED BY <3>4 DEF d
  <2>7. E + (local - E - x.off) = local - x.off /\ local - x.off = UnixTime(x)
    <3>1. local - x.off = UnixTime(x)
      <4> DEFINE midnight == Lib(0, 1)!DaysFromCivil(x.year, x.month, x.day) * CivilDay
      <4>1. UnixTime(x) = (midnight + x.secs) - x.off
        BY DEF UnixTime, LocalTime
      <4>2. midnight \in Int
        BY <1>1, DatesAssumption, SMT DEF Lib!DaysFromCivil
      <4> HIDE DEF midnight
      <4> QED BY <1>1, <4>1, <4>2 DEF midnight
    <3> HIDE DEF local
    <3> QED BY <1>1, <1>8, <3>1
  <2>8. Lib(E, 1)!Add(E, local - E - x.off) = good(UnixTime(x))
    BY <1>2, <1>4, <2>7
  <2> QED BY <1>5, <1>11, <2>6, <2>8
<1> QED BY <1>10, <1>11

LEMMA UnixTimeFits == \A x \in EpochTexts : UnixTime(x) \in MinSecs..MaxSecs
PROOF
<1> SUFFICES ASSUME NEW x \in EpochTexts PROVE UnixTime(x) \in MinSecs..MaxSecs
  OBVIOUS
<1> DEFINE midnight == Lib(0, 1)!DaysFromCivil(x.year, x.month, x.day) * CivilDay
<1>1. x.year \in Int /\ x.month \in Int /\ x.day \in Int /\ x.secs \in Int /\ x.off \in Int
  BY DatesAssumption DEF Lib!Dates
<1>2. midnight \in Int
  BY <1>1, DatesAssumption, SMT DEF Lib!DaysFromCivil
<1>3. UnixTime(x) = (midnight + x.secs) - x.off
  BY DEF UnixTime, LocalTime
<1>4. (midnight + x.secs) - x.off \in MinSecs..MaxSecs
  BY DatesAssumption DEF LocalTime
<1> HIDE DEF midnight
<1> QED BY <1>1, <1>2, <1>3, <1>4

-----------------------------------------------------------------------------
(* The settings.  A setting's value is its own: Setting, from its default    *)
(* and the meaning of its effective value.                                 *)

Setting(s) == IF s = "epoch" THEN epoch ELSE dayLength
Default(s) == IF s = "epoch" THEN DefaultEpoch ELSE DefaultLength
Meaning(s, v) == IF s = "epoch" THEN UnixTime(v) ELSE v

Resolved(s) ==
  /\ Setting(s) = IF Effective(s) = Unset THEN Default(s) ELSE Meaning(s, Effective(s))
  /\ Effective(s) # Unset => IsValid(s, Effective(s))

\* The lines of the file that set s.
InFile(s) == {i \in 1..Len(seen) : seen[i].set = s}

\* Of a setting that the file is needed for, conf holds the last one.
ConfIsLast ==
  \A s \in Needed :
    IF InFile(s) = {} THEN conf[s] = Unset
    ELSE \E i \in InFile(s) : (\A j \in InFile(s) : j <= i) /\ conf[s] = seen[i].to

\* Until it is configured a setting has its default; one that has an option or a
\* variable is set before the file is read, the others from the file.
SettingsInv ==
  /\ TypeOK
  /\ DOMAIN opt = Settings /\ DOMAIN conf = Settings /\ seen \in Seq([set : Settings, to : EpochTexts \union LengthTexts])
  /\ \A s \in Settings : env[s] \in Values(s) \union {Unset, Empty}
  /\ pc \in {"options", "configure", "open"} => seen = <<>> /\ conf = [s \in Settings |-> Unset]
  /\ pc \in {"options", "configure"} => \A s \in Settings : Setting(s) = Default(s)
  /\ pc \in {"open", "lines"} =>
       /\ Needed # {}
       /\ \A s \in Settings : IF s \in Needed THEN Setting(s) = Default(s) ELSE Resolved(s)
  /\ pc \in {"clock", "work"} => \A s \in Settings : Resolved(s)
  /\ ConfIsLast /\ \A s \in Settings \ Needed : conf[s] = Unset
  /\ why = "value" => \E s \in Settings : Effective(s) # Unset /\ ~IsValid(s, Effective(s))
  /\ why = "file" => Needed # {}
  /\ pc \in {"exit", "ended"} \/ why = ""

\* The value that counts, as the program holds it.
LEMMA EffectiveIs ==
  ASSUME seen \in Seq([set : Settings, to : EpochTexts \union LengthTexts]), ConfIsLast, NEW s \in Settings
  PROVE  Effective(s) = IF s \in Needed THEN conf[s] ELSE Given(s)
PROOF
<1>1. CASE opt[s] # Unset \/ env[s] \notin {Unset, Empty}
  BY <1>1 DEF Effective, Given, Needed
<1>2. CASE opt[s] = Unset /\ env[s] \in {Unset, Empty}
  <2>1. s \in Needed
    BY <1>2 DEF Needed, Given
  <2>2. Effective(s) = IF InFile(s) = {} THEN Unset
                       ELSE seen[CHOOSE i \in InFile(s) : \A j \in InFile(s) : j <= i].to
    BY <1>2 DEF Effective, InFile
  <2>3. CASE InFile(s) = {}
    BY <2>1, <2>2, <2>3 DEF ConfIsLast
  <2>4. CASE InFile(s) # {}
    <3>1. PICK i \in InFile(s) : (\A j \in InFile(s) : j <= i) /\ conf[s] = seen[i].to
      BY <2>1, <2>4 DEF ConfIsLast
    <3>2. InFile(s) \subseteq Int
      BY DEF InFile
    <3>3. \A k \in InFile(s) : (\A j \in InFile(s) : j <= k) => k = i
      BY <3>1, <3>2
    <3>4. (CHOOSE k \in InFile(s) : \A j \in InFile(s) : j <= k) = i
      BY <3>1, <3>3
    <3> QED BY <2>1, <2>2, <2>4, <3>1, <3>4
  <2> QED BY <2>3, <2>4
<1> QED BY <1>1, <1>2

\* Set accepts what is valid, and then gives what it means.
LEMMA SetIs ==
  ASSUME NEW s \in Settings, NEW v \in Values(s), s = "epoch" => epoch = DefaultEpoch
  PROVE  /\ Set(s, v).r = 0 <=> IsValid(s, v)
         /\ IsValid(s, v) => Set(s, v).out = Meaning(s, v)
         /\ s = "epoch" => Meaning(s, v) \in MinSecs..MaxSecs
PROOF
<1>1. CASE s = "epoch"
  <2>1. v \in EpochTexts /\ Set(s, v) = Lib(DefaultEpoch, 1)!SetEpoch(v, DefaultEpoch)
    BY <1>1 DEF Values, Set
  <2>2. Set(s, v) = IF IsReal(v) THEN [r |-> 0, out |-> UnixTime(v)] ELSE [r |-> -1, out |-> 0]
    BY <2>1, SetEpochIs DEF Lib!Good, Lib!Bad
  <2>3. UnixTime(v) \in MinSecs..MaxSecs
    BY <2>1, UnixTimeFits
  <2> QED BY <1>1, <2>2, <2>3 DEF IsValid, Meaning
<1>2. CASE s = "day_length"
  BY <1>2 DEF Set, SetDayLength, IsValid, Meaning, Lib!Good, Lib!Bad
<1> QED BY <1>1, <1>2 DEF Settings

LEMMA SetAllIs ==
  ASSUME NEW value, NEW next, \A s \in Settings : value[s] \in Values(s) \union {Unset},
         value["epoch"] # Unset => epoch = DefaultEpoch, SetAll(value, next)
  PROVE  \/ /\ \A s \in Settings :
                 IF value[s] # Unset THEN IsValid(s, value[s]) /\ Setting(s)' = Meaning(s, value[s])
                 ELSE Setting(s)' = Setting(s)
            /\ value["epoch"] # Unset => Setting("epoch")' \in MinSecs..MaxSecs
            /\ pc' = next /\ UNCHANGED <<code, why>>
         \/ /\ \E s \in Settings : value[s] # Unset /\ ~IsValid(s, value[s])
            /\ Leaves(2, "value") /\ UNCHANGED <<epoch, dayLength>>
PROOF
<1> DEFINE given == {s \in Settings : value[s] # Unset}
<1>1. \A s \in given : /\ Set(s, value[s]).r = 0 <=> IsValid(s, value[s])
                       /\ IsValid(s, value[s]) => Set(s, value[s]).out = Meaning(s, value[s])
                       /\ s = "epoch" => Meaning(s, value[s]) \in MinSecs..MaxSecs
  BY SetIs
<1>2. CASE /\ \A s \in given : Set(s, value[s]).r = 0
           /\ epoch' = IF "epoch" \in given THEN Set("epoch", value.epoch).out ELSE epoch
           /\ dayLength' = IF "day_length" \in given
                           THEN Set("day_length", value.day_length).out ELSE dayLength
           /\ pc' = next /\ UNCHANGED <<code, why>>
  <2>1. "epoch" \in Settings /\ "day_length" \in Settings
    BY DEF Settings
  <2>2. ASSUME NEW s \in Settings
        PROVE  IF value[s] # Unset THEN IsValid(s, value[s]) /\ Setting(s)' = Meaning(s, value[s])
               ELSE Setting(s)' = Setting(s)
    <3>1. CASE s = "epoch"
      BY <1>1, <1>2, <2>1, <3>1 DEF Setting
    <3>2. CASE s = "day_length"
      BY <1>1, <1>2, <2>1, <3>2 DEF Setting
    <3> QED BY <3>1, <3>2 DEF Settings
  <2>3. value["epoch"] # Unset => Setting("epoch")' \in MinSecs..MaxSecs
    BY <1>1, <1>2, <2>1 DEF Setting
  <2> QED BY <1>2, <2>2, <2>3
<1>3. CASE /\ \E s \in given : Set(s, value[s]).r # 0
           /\ Leaves(2, "value") /\ UNCHANGED <<epoch, dayLength>>
  BY <1>1, <1>3
<1> QED BY <1>2, <1>3 DEF SetAll

\* How the process can end: with an exit status, or by a signal.
Codes == 0..2 \union {Signalled}

LEMMA CodesAre ==
  /\ 0 \in 0..2 /\ 1 \in 0..2 /\ 2 \in 0..2
  /\ 0 \in Codes /\ 1 \in Codes /\ 2 \in Codes /\ Signalled \in Codes /\ 0..2 \subseteq Codes
PROOF BY DEF Codes

LEMMA InitSettings == Init => SettingsInv
PROOF
<1> SUFFICES ASSUME Init PROVE SettingsInv
  OBVIOUS
<1>1. /\ pc = "options" /\ mode = "sum"
      /\ opt = [s \in Settings |-> Unset] /\ conf = [s \in Settings |-> Unset] /\ seen = <<>>
      /\ epoch = DefaultEpoch /\ dayLength = DefaultLength /\ now = 0
      /\ status = 0 /\ code = 0 /\ why = ""
  BY DEF Init
<1>2. \A s \in Settings : env[s] \in Values(s) \union {Unset, Empty}
  <2>1. PICK e \in {Unset, Empty} \union EpochTexts, l \in {Unset, Empty} \union LengthTexts :
          env = [epoch |-> e, day_length |-> l]
    BY Zenon DEF Init
  <2>2. env["epoch"] = e /\ env["day_length"] = l
    BY <2>1
  <2>3. Values("epoch") = EpochTexts /\ Values("day_length") = LengthTexts
    BY DEF Values
  <2> QED BY <2>2, <2>3, Zenon DEF Settings
<1>3. TypeOK
  <2>1. \A s \in Settings : {opt[s], conf[s]} \subseteq Values(s) \union {Unset}
    BY <1>1
  <2>2. epoch \in MinSecs..MaxSecs /\ dayLength \in 1..MaxDayLength /\ now \in MinSecs..MaxSecs
    BY <1>1, CommandAssumption, DatesAssumption
  <2>3. {append, file, utc} \subseteq BOOLEAN /\ {printed, failed, lost} \subseteq BOOLEAN
    BY Zenon DEF Init
  <2>4. status \in 0..2 /\ code \in Codes
    <3>1. status = 0 /\ code = 0
      BY Zenon DEF Init
    <3> QED BY <3>1, CodesAre, Zenon
  <2>5. /\ pc \in {"options", "configure", "open", "lines", "clock", "work", "exit", "ended"}
        /\ mode \in {"sum", "now", "convert", "track"}
    BY <1>1
  <2> QED BY <2>1, <2>2, <2>3, <2>4, <2>5, Zenon DEF TypeOK, Codes
<1>4. \A s \in Settings : Setting(s) = Default(s)
  BY <1>1 DEF Setting, Default
<1>5. \A s \in Settings : conf[s] = Unset /\ InFile(s) = {}
  <2>1. 1..Len(seen) = {}
    <3>1. seen = <<>>
      BY Zenon DEF Init
    <3> QED BY <3>1
  <2> QED BY <1>1, <2>1 DEF InFile
<1>6. ConfIsLast
  BY <1>5 DEF ConfIsLast, Needed
<1>7. DOMAIN opt = Settings /\ DOMAIN conf = Settings /\ seen \in Seq([set : Settings, to : EpochTexts \union LengthTexts])
  <2>1. DOMAIN opt = Settings /\ DOMAIN conf = Settings
    BY Zenon DEF Init
  <2>2. seen = <<>>
    BY Zenon DEF Init
  <2> QED BY <2>1, <2>2
<1>8. pc \notin {"open", "lines", "clock", "work"} /\ why \notin {"value", "file"}
  BY <1>1
<1> QED BY <1>1, <1>2, <1>3, <1>4, <1>5, <1>6, <1>7, <1>8 DEF SettingsInv

\* What of the settings the other steps leave as it is.
settingVars == <<opt, env, conf, seen, epoch, dayLength>>

LEMMA SameInput ==
  ASSUME UNCHANGED <<opt, env, conf, seen>>
  PROVE  /\ \A s : Given(s)' = Given(s) /\ InFile(s)' = InFile(s) /\ Effective(s)' = Effective(s)
         /\ Needed' = Needed /\ ConfIsLast' = ConfIsLast
PROOF
<1>1. opt' = opt /\ env' = env /\ conf' = conf /\ seen' = seen
  OBVIOUS
<1>2. \A s : Given(s)' = Given(s) /\ InFile(s)' = InFile(s)
  BY <1>1 DEF Given, InFile
<1>3. \A s : Effective(s)' = Effective(s)
  BY <1>1 DEF Effective
<1>4. Needed' = Needed
  BY <1>2 DEF Needed
<1>5. ConfIsLast' = ConfIsLast
  BY <1>1, <1>2, <1>4 DEF ConfIsLast
<1> QED BY <1>2, <1>3, <1>4, <1>5

LEMMA SameSettings ==
  ASSUME UNCHANGED settingVars
  PROVE  /\ \A s \in Settings : /\ Effective(s)' = Effective(s) /\ Given(s)' = Given(s)
                                /\ Setting(s)' = Setting(s) /\ Resolved(s)' = Resolved(s)
                                /\ InFile(s)' = InFile(s)
         /\ Needed' = Needed /\ ConfIsLast' = ConfIsLast
PROOF
<1>1. UNCHANGED <<opt, env, conf, seen>> /\ epoch' = epoch /\ dayLength' = dayLength
  BY DEF settingVars
<1>2. \A s : Setting(s)' = Setting(s)
  BY <1>1 DEF Setting
<1>3. \A s : Resolved(s)' = Resolved(s)
  BY <1>1, <1>2, SameInput DEF Resolved
<1> QED BY <1>1, <1>2, <1>3, SameInput

Reasons == {"", "usage", "help", "clock", "tracker", "signal"}

\* A step that changes no setting and goes on, or ends the command.
LEMMA StageStep ==
  ASSUME SettingsInv, TypeOK', UNCHANGED settingVars,
         \/ pc' = pc /\ why' = why
         \/ pc' \in {"exit", "ended"} /\ why' \in Reasons \union {why}
         \/ pc' \in {"exit", "ended"} /\ why' = "file" /\ pc \in {"open", "lines"}
         \/ why' = why /\ pc = "options" /\ pc' = "configure"
         \/ why' = why /\ pc = "open" /\ pc' \in {"lines", "clock"}
         \/ why' = why /\ pc = "clock" /\ pc' = "work"
  PROVE  SettingsInv'
PROOF
<1>1. /\ \A s \in Settings : /\ Effective(s)' = Effective(s) /\ Given(s)' = Given(s)
                             /\ Setting(s)' = Setting(s) /\ Resolved(s)' = Resolved(s)
                             /\ InFile(s)' = InFile(s)
      /\ Needed' = Needed /\ ConfIsLast' = ConfIsLast
  BY SameSettings
<1>2. opt' = opt /\ env' = env /\ conf' = conf /\ seen' = seen /\ epoch' = epoch /\ dayLength' = dayLength
  BY DEF settingVars
<1>3. /\ DOMAIN opt' = Settings /\ DOMAIN conf' = Settings /\ seen' \in Seq([set : Settings, to : EpochTexts \union LengthTexts])
      /\ \A s \in Settings : env'[s] \in Values(s) \union {Unset, Empty}
      /\ ConfIsLast' /\ \A s \in Settings \ Needed' : conf'[s] = Unset
  BY <1>1, <1>2 DEF SettingsInv
<1>4. pc' \in {"options", "configure", "open"} => seen' = <<>> /\ conf' = [s \in Settings |-> Unset]
  BY <1>2 DEF SettingsInv
<1>5. pc' \in {"options", "configure"} => \A s \in Settings : Setting(s)' = Default(s)
  BY <1>1 DEF SettingsInv
<1>6. pc' \in {"open", "lines"} =>
        /\ Needed' # {}
        /\ \A s \in Settings : IF s \in Needed' THEN Setting(s)' = Default(s) ELSE Resolved(s)'
  BY <1>1 DEF SettingsInv
<1>7. pc' \in {"clock", "work"} => \A s \in Settings : Resolved(s)'
  <2>1. CASE pc = "open"
    <3>1. \A s \in Needed : Effective(s) = Unset /\ Setting(s) = Default(s)
      BY <2>1, EffectiveIs DEF SettingsInv, Needed
    <3>2. \A s \in Settings : Resolved(s)
      BY <2>1, <3>1 DEF SettingsInv, Resolved
    <3> QED BY <1>1, <3>2
  <2>2. CASE pc # "open"
    BY <1>1, <2>2 DEF SettingsInv
  <2> QED BY <2>1, <2>2
<1>8. /\ why' = "value" => \E s \in Settings : Effective(s)' # Unset /\ ~IsValid(s, Effective(s)')
      /\ why' = "file" => Needed' # {}
      /\ pc' \in {"exit", "ended"} \/ why' = ""
  BY <1>1 DEF SettingsInv, Reasons
<1> QED BY <1>1, <1>3, <1>4, <1>5, <1>6, <1>7, <1>8 DEF SettingsInv


\* The rest of TypeOK, in the parts that steps change.
Stages == {"options", "configure", "open", "lines", "clock", "work", "exit", "ended"}
ModeTyped == mode \in {"sum", "now", "convert", "track"} /\ {append, file, utc} \subseteq BOOLEAN
OutTyped == {printed, failed, lost} \subseteq BOOLEAN
RestTyped == now \in MinSecs..MaxSecs /\ status \in 0..2 /\ code \in Codes

LEMMA TypeParts == TypeOK => ModeTyped /\ OutTyped /\ RestTyped /\ pc \in Stages
PROOF
<1>1. TypeOK => ModeTyped /\ OutTyped /\ pc \in Stages
  BY Zenon DEF TypeOK, ModeTyped, OutTyped, Stages
<1>2. TypeOK => RestTyped
  BY Zenon DEF TypeOK, RestTyped, Codes
<1> QED BY <1>1, <1>2

LEMMA TypeFromParts ==
  ASSUME TypeOK, UNCHANGED settingVars, ModeTyped', OutTyped', RestTyped', pc' \in Stages
  PROVE  TypeOK'
PROOF
<1>1. opt' = opt /\ conf' = conf /\ epoch' = epoch /\ dayLength' = dayLength
  BY DEF settingVars
<1>2. \A s \in Settings : {opt'[s], conf'[s]} \subseteq Values(s) \union {Unset}
  BY <1>1 DEF TypeOK
<1>3. epoch' \in MinSecs..MaxSecs /\ dayLength' \in 1..MaxDayLength
  BY <1>1 DEF TypeOK
<1>4. /\ mode' \in {"sum", "now", "convert", "track"} /\ {append', file', utc'} \subseteq BOOLEAN
      /\ {printed', failed', lost'} \subseteq BOOLEAN
  BY DEF ModeTyped, OutTyped
<1>5. now' \in MinSecs..MaxSecs /\ status' \in 0..2 /\ code' \in Codes
  BY DEF RestTyped
<1>6. pc' \in {"options", "configure", "open", "lines", "clock", "work", "exit", "ended"}
  BY DEF Stages
<1> QED BY <1>2, <1>3, <1>4, <1>5, <1>6, Zenon DEF TypeOK, Codes

LEMMA SameModes == ASSUME TypeOK, UNCHANGED <<mode, append, file, utc>> PROVE ModeTyped'
PROOF BY TypeParts, Zenon DEF ModeTyped

LEMMA PrintsTyped == ASSUME TypeOK, Prints \/ UNCHANGED outVars PROVE OutTyped'
PROOF
<1>1. printed' \in {printed, TRUE} /\ failed' \in {failed, TRUE} /\ lost' \in {lost, TRUE}
  BY Zenon DEF Prints, outVars
<1>2. {printed, failed, lost} \subseteq BOOLEAN
  BY Zenon DEF TypeOK
<1> QED BY <1>1, <1>2, Zenon DEF OutTyped

LEMMA OptionSettings == ASSUME SettingsInv, Option PROVE SettingsInv'
PROOF
<1>1. /\ TypeOK /\ pc = "options" /\ seen = <<>> /\ conf = [s \in Settings |-> Unset] /\ why = ""
      /\ \A s \in Settings : Setting(s) = Default(s)
  BY DEF SettingsInv, Option
<1>2. UNCHANGED <<env, conf, seen, epoch, dayLength>>
  BY DEF Option, confVars, libVars
<1>3. OutTyped'
  BY <1>1, PrintsTyped DEF Option
<1>4. RestTyped' /\ ((pc' = pc /\ why' = why) \/ (pc' = "exit" /\ why' = "usage"))
  <2>1. UNCHANGED <<now, status>>
    BY DEF Option, libVars
  <2>2. (pc' = pc /\ code' = code /\ why' = why) \/ (pc' = "exit" /\ code' = 2 /\ why' = "usage")
    BY Zenon DEF Option, ModeOption, Leaves
  <2>3. RestTyped
    BY <1>1, TypeParts
  <2>4. RestTyped'
    BY <2>1, <2>2, <2>3, CodesAre DEF RestTyped
  <2> QED BY <2>2, <2>4
<1>5. ModeTyped'
  <2>1. /\ mode' \in {mode, "now", "convert", "track"}
        /\ append' \in {append, TRUE} /\ file' \in {file, TRUE} /\ utc' \in {utc, TRUE}
    BY Zenon DEF Option, ModeOption, optVars
  <2>2. ModeTyped
    BY <1>1, TypeParts
  <2> QED BY <2>1, <2>2, Zenon DEF ModeTyped
<1>6. CASE UNCHANGED opt
  <2>1. UNCHANGED settingVars
    BY <1>2, <1>6 DEF settingVars
  <2>2. pc' \in Stages
    BY <1>1, <1>4 DEF Stages
  <2>3. TypeOK'
    BY <1>1, <1>3, <1>4, <1>5, <2>1, <2>2, TypeFromParts
  <2> QED BY <1>4, <2>1, <2>3, StageStep DEF Reasons
<1>7. ASSUME NEW s \in Settings, NEW v \in Values(s), opt' = [opt EXCEPT ![s] = v],
             pc' = pc /\ why' = why
      PROVE  SettingsInv'
  <2>1. DOMAIN opt' = Settings /\ \A t \in Settings : opt'[t] \in Values(t) \union {Unset}
    BY <1>1, <1>7 DEF SettingsInv, TypeOK
  <2>2. TypeOK'
    <3>1. \A t \in Settings : {opt'[t], conf'[t]} \subseteq Values(t) \union {Unset}
      BY <1>1, <1>2, <2>1 DEF TypeOK
    <3>2. epoch' \in MinSecs..MaxSecs /\ dayLength' \in 1..MaxDayLength
      BY <1>1, <1>2 DEF TypeOK
    <3>3. pc' \in {"options", "configure", "open", "lines", "clock", "work", "exit", "ended"}
      BY <1>1, <1>7
    <3>4. now' \in MinSecs..MaxSecs /\ status' \in 0..2 /\ code' \in Codes
      BY <1>4 DEF RestTyped
    <3>5. /\ mode' \in {"sum", "now", "convert", "track"} /\ {append', file', utc'} \subseteq BOOLEAN
          /\ {printed', failed', lost'} \subseteq BOOLEAN
      BY <1>3, <1>5 DEF ModeTyped, OutTyped
    <3> QED BY <3>1, <3>2, <3>3, <3>4, <3>5, Zenon DEF TypeOK, Codes
  <2>3. \A t \in Settings : InFile(t)' = {} /\ conf'[t] = Unset /\ Setting(t)' = Setting(t)
    <3>1. 1..Len(seen') = {}
      <4>1. seen' = <<>>
        BY <1>1, <1>2
      <4> QED BY <4>1
    <3> QED BY <1>1, <1>2, <3>1 DEF InFile, Setting
  <2>4. ConfIsLast'
    BY <2>3 DEF ConfIsLast, Needed
  <2>5. /\ DOMAIN conf' = Settings /\ seen' \in Seq([set : Settings, to : EpochTexts \union LengthTexts])
        /\ \A t \in Settings : env'[t] \in Values(t) \union {Unset, Empty}
    BY <1>2 DEF SettingsInv
  <2>6. seen' = <<>> /\ conf' = [t \in Settings |-> Unset] /\ pc' = "options" /\ why' = ""
    BY <1>1, <1>2, <1>7
  <2>7. \A t \in Settings : Setting(t)' = Default(t)
    BY <1>1, <2>3
  <2> QED BY <2>1, <2>2, <2>3, <2>4, <2>5, <2>6, <2>7 DEF SettingsInv
<1> QED BY <1>6, <1>7 DEF Option, optVars

\* A step that ends the command, or goes on to another stage, with what it prints.
LEMMA PlainStep ==
  ASSUME SettingsInv, UNCHANGED settingVars, UNCHANGED <<mode, append, file, utc>>, OutTyped', RestTyped',
         \/ pc' = pc /\ why' = why
         \/ pc' \in {"exit", "ended"} /\ why' \in Reasons \union {why}
         \/ pc' \in {"exit", "ended"} /\ why' = "file" /\ pc \in {"open", "lines"}
         \/ why' = why /\ pc = "options" /\ pc' = "configure"
         \/ why' = why /\ pc = "open" /\ pc' \in {"lines", "clock"}
         \/ why' = why /\ pc = "clock" /\ pc' = "work"
  PROVE  SettingsInv'
PROOF
<1>1. TypeOK
  BY DEF SettingsInv
<1>2. pc' \in Stages
  BY <1>1, TypeParts DEF Stages
<1>3. ModeTyped'
  BY <1>1, SameModes
<1>4. TypeOK'
  BY <1>1, <1>2, <1>3, TypeFromParts
<1> QED BY <1>4, StageStep

LEMMA EarlySettings ==
  ASSUME SettingsInv, Help \/ EndOptions \/ OpenConfig \/ ClockNow
  PROVE  SettingsInv'
PROOF
<1>1. TypeOK
  BY DEF SettingsInv
<1>2. UNCHANGED settingVars /\ UNCHANGED <<mode, append, file, utc>> /\ status' = status
  BY DEF Help, EndOptions, OpenConfig, ClockNow, settingVars, optVars, confVars, libVars, workVars
<1>3. OutTyped'
  BY <1>1, PrintsTyped DEF Help, EndOptions, OpenConfig, ClockNow
<1>4. now' \in MinSecs..MaxSecs
  <2>1. now \in MinSecs..MaxSecs
    BY <1>1, TypeParts DEF RestTyped
  <2>2. CASE ClockNow
    <3>1. PICK v \in {Lib(0, 1)!Sub(t, epoch) : t \in Clocks}
                     \union {Lib(epoch, dayLength)!ParseLiteral(x) : x \in NowTexts} :
            (v.r = 0 /\ now' = v.out) \/ UNCHANGED now
      BY <2>2 DEF ClockNow
    <3>2. v.r = 0 => v.out \in MinSecs..MaxSecs
      BY DEF Lib!Sub, Lib!ParseLiteral, Lib!Compose, Lib!Narrow, Lib!Good, Lib!Bad, Lib!Secs
    <3> QED BY <2>1, <3>1, <3>2
  <2>3. CASE Help \/ EndOptions \/ OpenConfig
    <3>1. now' = now
      BY <2>3 DEF Help, EndOptions, OpenConfig, libVars
    <3> QED BY <2>1, <3>1
  <2> QED BY <2>2, <2>3
<1>5. code \in Codes /\ status' \in 0..2
  BY <1>1, <1>2, TypeParts DEF RestTyped
<1>6. \/ pc' = "exit" /\ code' \in {0, 2} /\ why' \in Reasons
      \/ pc' = "exit" /\ code' = 2 /\ why' = "file" /\ pc = "open"
      \/ pc = "options" /\ pc' = "configure" /\ UNCHANGED <<code, why>>
      \/ pc = "open" /\ pc' \in {"clock", "lines"} /\ UNCHANGED <<code, why>>
      \/ pc = "clock" /\ pc' = "work" /\ UNCHANGED <<code, why>>
  <2>1. CASE Help
    BY <2>1 DEF Help, Leaves, Reasons
  <2>2. CASE EndOptions
    BY <2>2 DEF EndOptions, Leaves, Reasons
  <2>3. CASE OpenConfig
    BY <2>3 DEF OpenConfig, Leaves
  <2>4. CASE ClockNow
    BY <2>4 DEF ClockNow, Leaves, Reasons
  <2> QED BY <2>1, <2>2, <2>3, <2>4
<1>7. RestTyped'
  BY <1>4, <1>5, <1>6, CodesAre DEF RestTyped
<1> QED BY <1>2, <1>3, <1>6, <1>7, PlainStep

LEMMA WorkSettings ==
  ASSUME SettingsInv, OperandError \/ Now \/ Track \/ Sums \/ Convert \/ EndConvert \/ CloseStdout
  PROVE  SettingsInv'
PROOF
<1>1. TypeOK
  BY DEF SettingsInv
<1>2. UNCHANGED settingVars /\ UNCHANGED <<mode, append, file, utc>> /\ now' = now
  BY DEF OperandError, Now, Track, Sums, Convert, EndConvert, CloseStdout, settingVars, optVars, confVars, libVars
<1>3. OutTyped'
  <2>1. CASE CloseStdout
    <3>1. printed' = printed /\ failed' = failed /\ lost' \in {lost, TRUE}
      BY <2>1, Zenon DEF CloseStdout
    <3>2. OutTyped
      BY <1>1, TypeParts
    <3> QED BY <3>1, <3>2, Zenon DEF OutTyped
  <2>2. CASE Convert
    <3>1. Prints \/ UNCHANGED outVars
      BY <2>2 DEF Convert
    <3> QED BY <1>1, <3>1, PrintsTyped
  <2>3. CASE OperandError \/ Now \/ Track \/ Sums \/ EndConvert
    <3>1. Prints \/ UNCHANGED outVars
      BY <2>3 DEF OperandError, Now, Track, Sums, EndConvert
    <3> QED BY <1>1, <3>1, PrintsTyped
  <2> QED BY <2>1, <2>2, <2>3
<1>4. /\ status' \in {status} \union 0..2 /\ code' \in {code, status'} \union Codes
      /\ \/ pc' = pc /\ why' = why
         \/ pc' \in {"exit", "ended"} /\ why' \in Reasons
         \/ pc' = "ended" /\ why' = why
  <2>1. CASE OperandError
    BY <2>1, CodesAre DEF OperandError, Leaves, workVars, Reasons
  <2>2. CASE Now
    <3>1. status' = status /\ pc' = "exit" /\ code' = 0 /\ why' = ""
      BY <2>2, Zenon DEF Now, Leaves, workVars
    <3>2. why' \in Reasons
      BY <3>1, Zenon DEF Reasons
    <3>3. status' \in {status} \union 0..2 /\ code' \in {code, status'} \union Codes
      BY <3>1, CodesAre, Zenon
    <3> QED BY <3>1, <3>2, <3>3
  <2>3. CASE Track
    <3>1. /\ status' = status
          /\ \/ pc' = "exit" /\ code' = 0 /\ why' = ""
             \/ pc' = "exit" /\ code' = 2 /\ why' = "tracker"
             \/ pc' = "ended" /\ code' = Signalled /\ why' = "signal"
      BY <2>3, Zenon DEF Track, Leaves, workVars
    <3>2. why' \in Reasons
      BY <3>1, Zenon DEF Reasons
    <3>3. status' \in {status} \union 0..2 /\ code' \in {code, status'} \union Codes
      BY <3>1, CodesAre, Zenon
    <3> QED BY <3>1, <3>2, <3>3
  <2>4. CASE EndConvert
    BY <2>4 DEF EndConvert, Leaves, workVars, Reasons
  <2>5. CASE Sums
    <3>1. PICK st \in 0..2 : status' = st /\ Leaves(st, "")
      BY <2>5 DEF Sums
    <3> QED BY <3>1 DEF Leaves, Reasons
  <2>6. CASE Convert
    <3>1. status' = status \/ status' = 1
      BY <2>6, Zenon DEF Convert
    <3>2. UNCHANGED <<pc, code, why>>
      BY <2>6 DEF Convert
    <3> QED BY <3>1, <3>2
  <2>7. CASE CloseStdout
    <3>1. code' = code \/ code' = 2
      BY <2>7, Zenon DEF CloseStdout
    <3>2. status' = status /\ pc' = "ended" /\ why' = why
      BY <2>7 DEF CloseStdout, workVars
    <3> QED BY <3>1, <3>2, CodesAre
  <2> QED BY <2>1, <2>2, <2>3, <2>4, <2>5, <2>6, <2>7
<1>5. RestTyped'
  BY <1>1, <1>2, <1>4, TypeParts, CodesAre DEF RestTyped
<1> QED BY <1>2, <1>3, <1>4, <1>5, PlainStep

\* A step of SetAll: from the option and the variable, or from the file.
LEMMA SetAllSettings ==
  ASSUME SettingsInv, NEW value, NEW next \in {"clock", "open"}, SetAll(value, next),
         \A s \in Settings : value[s] \in Values(s) \union {Unset},
         \A s \in Settings : value[s] # Unset => Effective(s) = value[s] /\ Setting(s) = Default(s),
         IF next = "open"
         THEN /\ pc = "configure" /\ Needed # {}
              /\ \A s \in Settings : IF s \in Needed THEN value[s] = Unset ELSE value[s] # Unset
         ELSE \A s \in Settings : value[s] # Unset \/ Resolved(s),
         UNCHANGED <<opt, env, conf, seen>>, UNCHANGED <<mode, append, file, utc>>,
         UNCHANGED <<now, status>>, UNCHANGED outVars, why = ""
  PROVE  SettingsInv'
PROOF
<1>1. opt' = opt /\ env' = env /\ conf' = conf /\ seen' = seen
  OBVIOUS
<1>2. TypeOK
  BY DEF SettingsInv
<1>3. \A s : Given(s)' = Given(s) /\ InFile(s)' = InFile(s) /\ Effective(s)' = Effective(s)
  BY SameInput
<1>4. Needed' = Needed
  BY SameInput
<1>5. ConfIsLast'
  BY SameInput DEF SettingsInv
<1>6. "epoch" \in Settings /\ "day_length" \in Settings
  BY DEF Settings
<1>7. value["epoch"] # Unset => epoch = DefaultEpoch
  BY <1>6 DEF Setting, Default
<1>8. OutTyped' /\ ModeTyped'
  BY <1>2, PrintsTyped, SameModes
<1>9. RestTyped
  BY <1>2, TypeParts
<1>10. ASSUME epoch' \in MinSecs..MaxSecs, dayLength' \in 1..MaxDayLength, code' \in Codes, pc' \in Stages
       PROVE  TypeOK'
  <2>1. \A s \in Settings : {opt'[s], conf'[s]} \subseteq Values(s) \union {Unset}
    BY <1>1, <1>2 DEF TypeOK
  <2>2. now' \in MinSecs..MaxSecs /\ status' \in 0..2 /\ code' \in Codes
    BY <1>9, <1>10 DEF RestTyped
  <2>3. /\ mode' \in {"sum", "now", "convert", "track"} /\ {append', file', utc'} \subseteq BOOLEAN
        /\ {printed', failed', lost'} \subseteq BOOLEAN
    BY <1>8 DEF ModeTyped, OutTyped
  <2>4. pc' \in {"options", "configure", "open", "lines", "clock", "work", "exit", "ended"}
    BY <1>10 DEF Stages
  <2> QED BY <1>10, <2>1, <2>2, <2>3, <2>4, Zenon DEF TypeOK, Codes
<1>11. /\ DOMAIN opt' = Settings /\ DOMAIN conf' = Settings
       /\ seen' \in Seq([set : Settings, to : EpochTexts \union LengthTexts])
       /\ \A s \in Settings : env'[s] \in Values(s) \union {Unset, Empty}
       /\ \A s \in Settings \ Needed' : conf'[s] = Unset
  BY <1>1, <1>4 DEF SettingsInv
<1>12. CASE /\ \A s \in Settings :
                 IF value[s] # Unset THEN IsValid(s, value[s]) /\ Setting(s)' = Meaning(s, value[s])
                 ELSE Setting(s)' = Setting(s)
            /\ value["epoch"] # Unset => Setting("epoch")' \in MinSecs..MaxSecs
            /\ pc' = next /\ UNCHANGED <<code, why>>
  <2>1. epoch' \in MinSecs..MaxSecs
    BY <1>2, <1>6, <1>12 DEF Setting, TypeOK
  <2>2. dayLength' \in 1..MaxDayLength
    BY <1>2, <1>6, <1>12 DEF Setting, TypeOK, IsValid, Meaning
  <2>3. TypeOK'
    BY <1>9, <1>10, <1>12, <2>1, <2>2 DEF RestTyped, Stages
  <2>4. \A s \in Settings : value[s] # Unset => Resolved(s)'
    BY <1>3, <1>12 DEF Resolved
  <2>5. \A s \in Settings : value[s] = Unset => Setting(s)' = Setting(s) /\ (Resolved(s)' <=> Resolved(s))
    BY <1>3, <1>12 DEF Resolved
  <2>6. CASE next = "open"
    <3>1. \A s \in Settings : Setting(s) = Default(s)
      BY <2>6 DEF SettingsInv
    <3>2. \A s \in Settings : IF s \in Needed' THEN Setting(s)' = Default(s) ELSE Resolved(s)'
      BY <1>4, <2>4, <2>5, <2>6, <3>1
    <3>3. seen' = <<>> /\ conf' = [s \in Settings |-> Unset]
      BY <1>1, <2>6 DEF SettingsInv
    <3>4. Needed' # {} /\ pc' = "open" /\ why' = ""
      BY <1>4, <1>12, <2>6
    <3> QED BY <1>5, <1>11, <2>3, <3>2, <3>3, <3>4 DEF SettingsInv
  <2>7. CASE next = "clock"
    <3>1. \A s \in Settings : Resolved(s)'
      BY <2>4, <2>5, <2>7
    <3>2. pc' = "clock" /\ why' = ""
      BY <1>12, <2>7
    <3> QED BY <1>5, <1>11, <2>3, <3>1, <3>2 DEF SettingsInv
  <2> QED BY <2>6, <2>7
<1>13. CASE /\ \E s \in Settings : value[s] # Unset /\ ~IsValid(s, value[s])
            /\ Leaves(2, "value") /\ UNCHANGED <<epoch, dayLength>>
  <2>1. pc' = "exit" /\ code' = 2 /\ why' = "value"
    BY <1>13 DEF Leaves
  <2>2. epoch' \in MinSecs..MaxSecs /\ dayLength' \in 1..MaxDayLength
    BY <1>2, <1>13 DEF TypeOK
  <2>3. TypeOK'
    <3>1. code' \in Codes
      BY <2>1, CodesAre, Zenon
    <3>2. pc' \in Stages
      BY <2>1 DEF Stages
    <3> QED BY <1>10, <2>2, <3>1, <3>2
  <2>4. \E s \in Settings : Effective(s)' # Unset /\ ~IsValid(s, Effective(s)')
    BY <1>3, <1>13
  <2> QED BY <1>5, <1>11, <2>1, <2>3, <2>4 DEF SettingsInv
<1> QED BY <1>7, <1>12, <1>13, SetAllIs

LEMMA ConfigureSettings == ASSUME SettingsInv, Configure PROVE SettingsInv'
PROOF
<1> DEFINE value == [s \in Settings |-> Given(s)]
           next == IF Needed = {} THEN "clock" ELSE "open"
<1>1. TypeOK /\ pc = "configure" /\ why = "" /\ ConfIsLast
      /\ seen \in Seq([set : Settings, to : EpochTexts \union LengthTexts])
      /\ \A s \in Settings : Setting(s) = Default(s)
  BY DEF SettingsInv, Configure
<1>2. \A s \in Settings : opt[s] \in Values(s) \union {Unset} /\ env[s] \in Values(s) \union {Unset, Empty}
  BY <1>1 DEF TypeOK, SettingsInv
<1>3. \A s \in Settings : value[s] = Given(s) /\ Given(s) \in Values(s) \union {Unset}
  BY <1>2 DEF Given
<1>4. \A s \in Settings : s \notin Needed <=> value[s] # Unset
  BY <1>3 DEF Needed
<1>5. \A s \in Settings : value[s] # Unset => Effective(s) = value[s]
  BY <1>1, <1>3, <1>4, EffectiveIs
<1>6. Needed \subseteq Settings
  BY DEF Needed
<1>7. /\ SetAll(value, next) /\ UNCHANGED <<opt, env, conf, seen>>
      /\ UNCHANGED <<mode, append, file, utc>> /\ UNCHANGED <<now, status>> /\ UNCHANGED outVars
  BY DEF Configure, optVars, confVars, workVars
<1>8. next \in {"clock", "open"} /\ (next = "open" <=> Needed # {})
  OBVIOUS
<1>9. \A s \in Settings : value[s] \in Values(s) \union {Unset}
  BY <1>3
<1> HIDE DEF value, next
<1> QED BY <1>1, <1>4, <1>5, <1>6, <1>7, <1>8, <1>9, SetAllSettings

LEMMA EndConfigSettings == ASSUME SettingsInv, EndConfig PROVE SettingsInv'
PROOF
<1>1. /\ TypeOK /\ pc = "lines" /\ why = "" /\ ConfIsLast
      /\ seen \in Seq([set : Settings, to : EpochTexts \union LengthTexts])
      /\ \A s \in Settings : IF s \in Needed THEN Setting(s) = Default(s) ELSE Resolved(s)
      /\ \A s \in Settings \ Needed : conf[s] = Unset
  BY DEF SettingsInv, EndConfig
<1>2. /\ UNCHANGED <<opt, env, conf, seen>>
      /\ UNCHANGED <<mode, append, file, utc>> /\ UNCHANGED <<now, status>> /\ UNCHANGED outVars
  BY DEF EndConfig, optVars, confVars, workVars
<1>3. CASE SetAll(conf, "clock")
  <2>1. \A s \in Settings : conf[s] \in Values(s) \union {Unset}
    BY <1>1 DEF TypeOK
  <2>2. \A s \in Settings : conf[s] # Unset => Effective(s) = conf[s] /\ Setting(s) = Default(s)
    BY <1>1, EffectiveIs
  <2>3. \A s \in Settings : conf[s] # Unset \/ Resolved(s)
    <3> SUFFICES ASSUME NEW s \in Settings, conf[s] = Unset, s \in Needed PROVE Resolved(s)
      BY <1>1
    <3>1. Effective(s) = Unset /\ Setting(s) = Default(s)
      BY <1>1, EffectiveIs
    <3> QED BY <3>1 DEF Resolved
  <2> QED BY <1>1, <1>2, <1>3, <2>1, <2>2, <2>3, SetAllSettings
<1>4. CASE Leaves(2, "file") /\ UNCHANGED <<epoch, dayLength>>
  <2>1. UNCHANGED settingVars
    BY <1>2, <1>4 DEF settingVars
  <2>2. OutTyped'
    BY <1>1, <1>2, PrintsTyped
  <2>3. pc' = "exit" /\ code' = 2 /\ why' = "file"
    BY <1>4 DEF Leaves
  <2>4. RestTyped'
    <3>1. RestTyped
      BY <1>1, TypeParts
    <3>2. now' = now /\ status' = status /\ code' = 2
      BY <1>2, <2>3
    <3> QED BY <3>1, <3>2, CodesAre DEF RestTyped
  <2> QED BY <1>1, <1>2, <2>1, <2>2, <2>3, <2>4, PlainStep
<1> QED BY <1>3, <1>4, Zenon DEF EndConfig

LEMMA EffectiveNow ==
  seen \in Seq([set : Settings, to : EpochTexts \union LengthTexts]) /\ ConfIsLast =>
    \A s \in Settings : Effective(s) = IF s \in Needed THEN conf[s] ELSE Given(s)
PROOF BY EffectiveIs

LEMMA EffectiveNext ==
  (seen \in Seq([set : Settings, to : EpochTexts \union LengthTexts]) /\ ConfIsLast =>
    \A s \in Settings : Effective(s) = IF s \in Needed THEN conf[s] ELSE Given(s))'
PROOF BY EffectiveNow, PTL

LEMMA ReadLineSettings == ASSUME SettingsInv, ReadLine PROVE SettingsInv'
PROOF
<1> DEFINE Line == [set : Settings, to : EpochTexts \union LengthTexts]
<1>1. /\ TypeOK /\ pc = "lines" /\ why = "" /\ ConfIsLast /\ seen \in Seq(Line)
      /\ DOMAIN opt = Settings /\ DOMAIN conf = Settings
      /\ \A s \in Settings : env[s] \in Values(s) \union {Unset, Empty}
      /\ Needed # {}
      /\ \A s \in Settings : IF s \in Needed THEN Setting(s) = Default(s) ELSE Resolved(s)
      /\ \A s \in Settings \ Needed : conf[s] = Unset
  BY DEF SettingsInv, ReadLine
<1>2. /\ UNCHANGED <<opt, env, epoch, dayLength>>
      /\ UNCHANGED <<mode, append, file, utc>> /\ UNCHANGED <<now, status>> /\ UNCHANGED outVars
  BY DEF ReadLine, optVars, libVars, workVars
<1>3. OutTyped' /\ ModeTyped'
  BY <1>1, <1>2, PrintsTyped, SameModes
<1>4. RestTyped
  BY <1>1, TypeParts
<1>5. CASE Leaves(2, "file") /\ UNCHANGED <<conf, seen>>
  <2>1. UNCHANGED settingVars
    BY <1>2, <1>5 DEF settingVars
  <2>2. pc' = "exit" /\ code' = 2 /\ why' = "file"
    BY <1>5 DEF Leaves
  <2>3. RestTyped'
    <3>1. now' = now /\ status' = status /\ code' = 2
      BY <1>2, <2>2
    <3> QED BY <1>4, <3>1, CodesAre DEF RestTyped
  <2> QED BY <1>1, <1>2, <1>3, <2>1, <2>2, <2>3, PlainStep
<1>6. ASSUME NEW s \in Settings, NEW v \in Values(s),
             seen' = Append(seen, [set |-> s, to |-> v]),
             conf' = IF s \in Needed THEN [conf EXCEPT ![s] = v] ELSE conf,
             UNCHANGED <<pc, code, why>>
      PROVE  SettingsInv'
  <2>1. [set |-> s, to |-> v] \in Line
    BY DEF Values
  <2> HIDE DEF Line
  <2>2. /\ seen' \in Seq(Line) /\ Len(seen') = Len(seen) + 1 /\ Len(seen) \in Nat
        /\ \A i \in 1..Len(seen) : seen'[i] = seen[i]
        /\ seen'[Len(seen) + 1] = [set |-> s, to |-> v]
    <3> DEFINE line == [set |-> s, to |-> v]
    <3>1. seen' = Append(seen, line) /\ seen \in Seq(Line) /\ line \in Line
      BY <1>1, <1>6, <2>1
    <3> HIDE DEF line
    <3>2. /\ Append(seen, line) \in Seq(Line) /\ Len(Append(seen, line)) = Len(seen) + 1
          /\ Len(seen) \in Nat
          /\ \A i \in 1..Len(seen) : Append(seen, line)[i] = seen[i]
          /\ Append(seen, line)[Len(seen) + 1] = line
      BY <3>1, AppendIs
    <3>3. /\ seen' \in Seq(Line) /\ Len(seen') = Len(seen) + 1 /\ Len(seen) \in Nat
          /\ \A i \in 1..Len(seen) : seen'[i] = seen[i]
          /\ seen'[Len(seen) + 1] = line
      BY <3>1, <3>2, Zenon
    <3> QED BY <3>3 DEF line
  <2>3. \A t : Given(t)' = Given(t) /\ Setting(t)' = Setting(t)
    BY <1>2 DEF Given, Setting
  <2>4. Needed' = Needed
    BY <2>3 DEF Needed
  <2>5. DOMAIN conf' = Settings /\ \A t \in Settings : conf'[t] = IF t = s /\ s \in Needed THEN v ELSE conf[t]
    BY <1>1, <1>6
  <2>6. \A t : InFile(t)' = IF t = s THEN InFile(t) \union {Len(seen) + 1} ELSE InFile(t)
    <3>1. 1..Len(seen') = 1..Len(seen) \union {Len(seen) + 1} /\ Len(seen) + 1 \notin 1..Len(seen)
      BY <2>2
    <3>2. seen'[Len(seen) + 1].set = s
      BY <2>2
    <3> QED BY <2>2, <3>1, <3>2, Zenon DEF InFile
  <2>7. ConfIsLast'
    <3> SUFFICES ASSUME NEW t \in Needed
                 PROVE  IF InFile(t)' = {} THEN conf'[t] = Unset
                        ELSE \E i \in InFile(t)' : (\A j \in InFile(t)' : j <= i) /\ conf'[t] = seen'[i].to
      BY <2>4 DEF ConfIsLast
    <3>1. t \in Settings
      BY DEF Needed
    <3>2. CASE t = s
      <4>1. InFile(t)' = InFile(t) \union {Len(seen) + 1} /\ conf'[t] = v
        BY <2>5, <2>6, <3>1, <3>2
      <4>2. \A j \in InFile(t) : j \in 1..Len(seen)
        BY DEF InFile
      <4>3. \A j \in InFile(t)' : j <= Len(seen) + 1
        BY <2>2, <4>1, <4>2
      <4>4. conf'[t] = seen'[Len(seen) + 1].to
        BY <2>2, <4>1
      <4> QED BY <4>1, <4>3, <4>4
    <3>3. CASE t # s
      <4>1. InFile(t)' = InFile(t) /\ conf'[t] = conf[t]
        BY <2>5, <2>6, <3>1, <3>3
      <4>2. \A i \in InFile(t) : seen'[i] = seen[i]
        BY <2>2 DEF InFile
      <4>3. IF InFile(t) = {} THEN conf[t] = Unset
            ELSE \E i \in InFile(t) : (\A j \in InFile(t) : j <= i) /\ conf[t] = seen[i].to
        BY <1>1 DEF ConfIsLast
      <4> QED BY <4>1, <4>2, <4>3
    <3> QED BY <3>2, <3>3
  <2>8. \A t \in Settings : Effective(t) = IF t \in Needed THEN conf[t] ELSE Given(t)
    BY <1>1, EffectiveIs DEF Line
  <2>9. \A t \in Settings : Effective(t)' = IF t \in Needed' THEN conf'[t] ELSE Given(t)'
    <3> SUFFICES ASSUME NEW t \in Settings
                 PROVE  Effective(t)' = IF t \in Needed' THEN conf'[t] ELSE Given(t)'
      OBVIOUS
    <3>1. (seen \in Seq([set : Settings, to : EpochTexts \union LengthTexts]) /\ ConfIsLast)'
      BY <2>2, <2>7 DEF Line
    <3> QED BY <3>1, EffectiveNext
  <2>10. \A t \in Settings \ Needed : Resolved(t)'
    BY <1>1, <2>3, <2>4, <2>8, <2>9 DEF Resolved
  <2>11. TypeOK'
    <3>1. \A t \in Settings : {opt'[t], conf'[t]} \subseteq Values(t) \union {Unset}
      BY <1>1, <1>2, <2>5 DEF TypeOK
    <3>2. epoch' \in MinSecs..MaxSecs /\ dayLength' \in 1..MaxDayLength
      BY <1>1, <1>2 DEF TypeOK
    <3>3. pc' \in {"options", "configure", "open", "lines", "clock", "work", "exit", "ended"}
      BY <1>1, <1>6
    <3>4. now' \in MinSecs..MaxSecs /\ status' \in 0..2 /\ code' \in Codes
      BY <1>2, <1>4, <1>6 DEF RestTyped
    <3>5. /\ mode' \in {"sum", "now", "convert", "track"} /\ {append', file', utc'} \subseteq BOOLEAN
          /\ {printed', failed', lost'} \subseteq BOOLEAN
      BY <1>3 DEF ModeTyped, OutTyped
    <3> QED BY <3>1, <3>2, <3>3, <3>4, <3>5, Zenon DEF TypeOK, Codes
  <2>12. /\ DOMAIN opt' = Settings /\ DOMAIN conf' = Settings
         /\ seen' \in Seq([set : Settings, to : EpochTexts \union LengthTexts])
         /\ \A t \in Settings : env'[t] \in Values(t) \union {Unset, Empty}
         /\ \A t \in Settings \ Needed' : conf'[t] = Unset
    BY <1>1, <1>2, <2>2, <2>4, <2>5 DEF Line
  <2>13. pc' = "lines" /\ why' = "" /\ Needed' # {}
    BY <1>1, <1>6, <2>4
  <2>14. \A t \in Settings : IF t \in Needed' THEN Setting(t)' = Default(t) ELSE Resolved(t)'
    BY <1>1, <2>3, <2>4, <2>10
  <2> QED BY <2>7, <2>11, <2>12, <2>13, <2>14 DEF SettingsInv
<1> QED BY <1>5, <1>6 DEF ReadLine

LEMMA SettingsStep == ASSUME SettingsInv, [Next]_vars PROVE SettingsInv'
PROOF
<1>1. CASE UNCHANGED vars
  <2>1. UNCHANGED settingVars /\ UNCHANGED <<mode, append, file, utc>> /\ UNCHANGED outVars
        /\ UNCHANGED <<pc, why, now, status, code>>
    BY <1>1 DEF vars, settingVars, optVars, confVars, libVars, workVars
  <2>2. TypeOK
    BY DEF SettingsInv
  <2>3. OutTyped' /\ RestTyped'
    BY <2>1, <2>2, PrintsTyped, TypeParts DEF RestTyped
  <2> QED BY <2>1, <2>3, PlainStep
<1>2. CASE Next
  BY <1>2, OptionSettings, EarlySettings, ConfigureSettings, ReadLineSettings, EndConfigSettings,
     WorkSettings DEF Next
<1> QED BY <1>1, <1>2

\* The settings' invariant holds of every run of the command.
THEOREM SettingsInvariance == Spec => []SettingsInv
PROOF BY InitSettings, SettingsStep, PTL DEF Spec

\* Whatever the options, variables, file and failures, day 0 and now stay in
\* dk_secs, the day length in its range and the statuses among the three.
THEOREM CommandTyped == Spec => []TypeOK
PROOF
<1>1. SettingsInv => TypeOK
  BY DEF SettingsInv
<1> QED BY <1>1, SettingsInvariance, PTL

\* Once the clock is read, each setting is what the manual says it is: its
\* option, else its variable, else the last line of the file that sets it, else
\* the default; day 0 the moment its date names (configure, read_config).
THEOREM SettingsAreEffective == Spec => []SettingsResolve
PROOF
<1>1. SettingsInv => SettingsResolve
  <2> SUFFICES ASSUME SettingsInv, pc \in {"clock", "work"}
               PROVE  /\ epoch = (IF Effective("epoch") = Unset THEN DefaultEpoch
                                  ELSE UnixTime(Effective("epoch")))
                      /\ dayLength = (IF Effective("day_length") = Unset THEN DefaultLength
                                      ELSE Effective("day_length"))
    BY DEF SettingsResolve
  <2>1. Resolved("epoch") /\ Resolved("day_length")
    BY DEF SettingsInv, Settings
  <2> QED BY <2>1 DEF Resolved, Setting, Default, Meaning
<1> QED BY <1>1, SettingsInvariance, PTL

\* A value that something overrides never ends the command, nor does a file that
\* no setting needs; one that counts and is invalid always does (set_all, read_config).
THEOREM OnlyUsedValuesEnd == Spec => []OnlyUsedValuesMatter
PROOF
<1>1. SettingsInv => OnlyUsedValuesMatter
  <2> SUFFICES ASSUME SettingsInv PROVE OnlyUsedValuesMatter
    OBVIOUS
  <2>1. why = "value" => \E s \in Settings : Effective(s) # Unset /\ ~IsValid(s, Effective(s))
    BY DEF SettingsInv
  <2>2. why = "file" => \E s \in Settings : opt[s] = Unset /\ env[s] \in {Unset, Empty}
    <3> SUFFICES ASSUME why = "file" PROVE \E s \in Settings : opt[s] = Unset /\ env[s] \in {Unset, Empty}
      OBVIOUS
    <3>1. PICK s \in Settings : Given(s) = Unset
      BY DEF SettingsInv, Needed
    <3>2. opt[s] = Unset /\ env[s] \in {Unset, Empty}
      BY <3>1 DEF Given
    <3> QED BY <3>2
  <2>3. pc \in {"clock", "work"} =>
          \A s \in Settings : Effective(s) # Unset => IsValid(s, Effective(s))
    BY DEF SettingsInv, Resolved
  <2> QED BY <2>1, <2>2, <2>3 DEF OnlyUsedValuesMatter
<1> QED BY <1>1, SettingsInvariance, PTL

-----------------------------------------------------------------------------
(* Conversions.                                                            *)

\* What does not depend on day 0 and on the length of a day.
LEMMA LibIs ==
  ASSUME NEW E, NEW L
  PROVE  /\ Lib(E, L)!Bad = Lib(0, 1)!Bad
         /\ \A a, b : Lib(E, L)!Sub(a, b) = Lib(0, 1)!Sub(a, b)
         /\ \A a, b, c : Lib(E, L)!DaysFromCivil(a, b, c) = Lib(0, 1)!DaysFromCivil(a, b, c)
         /\ \A a, b : Lib(E, L)!MonthDays(a, b) = Lib(0, 1)!MonthDays(a, b)
         /\ \A a : Lib(E, L)!MonthStart(a) = Lib(0, 1)!MonthStart(a)
         /\ \A a : Lib(E, L)!MonthOf(a) = Lib(0, 1)!MonthOf(a)
         /\ \A a, u : Lib(E, L)!Local(a, u) = Lib(0, 1)!Local(a, u)
         /\ \A a, u, b : Lib(E, L)!FromTm(a, u, b) = Lib(0, 1)!FromTm(a, u, b)
PROOF
<1>1. Lib(E, L)!Bad = Lib(0, 1)!Bad
  BY DEF Lib!Bad
<1>2. ASSUME NEW a, NEW b PROVE Lib(E, L)!Sub(a, b) = Lib(0, 1)!Sub(a, b)
  BY DEF Lib!Sub, Lib!Narrow, Lib!Good, Lib!Bad, Lib!Secs
<1>3. ASSUME NEW a, NEW b, NEW c
      PROVE  Lib(E, L)!DaysFromCivil(a, b, c) = Lib(0, 1)!DaysFromCivil(a, b, c)
  BY DEF Lib!DaysFromCivil
<1>4. ASSUME NEW a, NEW b PROVE Lib(E, L)!MonthDays(a, b) = Lib(0, 1)!MonthDays(a, b)
  BY DEF Lib!MonthDays, Lib!Leap
<1>5. ASSUME NEW a PROVE Lib(E, L)!MonthStart(a) = Lib(0, 1)!MonthStart(a)
  BY DEF Lib!MonthStart, Lib!DaysFromCivil
<1>6. ASSUME NEW a PROVE Lib(E, L)!MonthOf(a) = Lib(0, 1)!MonthOf(a)
  BY DEF Lib!MonthOf, Lib!MonthStart, Lib!DaysFromCivil
<1>7. ASSUME NEW a, NEW u PROVE Lib(E, L)!Local(a, u) = Lib(0, 1)!Local(a, u)
  BY Zenon DEF Lib!Local
<1>8. ASSUME NEW a, NEW u, NEW b PROVE Lib(E, L)!FromTm(a, u, b) = Lib(0, 1)!FromTm(a, u, b)
  BY Zenon DEF Lib!FromTm, Lib!MkTime, Lib!UnixTimes, Lib!OnClock, Lib!Civil, Lib!Local, Lib!Sub, Lib!Narrow, Lib!Good, Lib!Bad, Lib!Secs
<1> QED BY <1>1, <1>2, <1>3, <1>4, <1>5, <1>6, <1>7, <1>8

\* dk_parse_date reads a date of the calendar and nothing else.
LEMMA ParseDateIs ==
  ASSUME NEW E \in Int, NEW L, NEW u, NEW x, x.year \in Int, x.month \in Int, x.day \in Int
  PROVE  Lib(E, L)!ParseDate(x, u, E) =
           IF IsReal(x)
           THEN {IF v.r = 0 THEN Lib(0, 1)!Sub(v.out, x.off) ELSE Lib(0, 1)!Bad :
                   v \in Lib(0, 1)!FromTm(LocalTime(x), u \/ x.zoned, E)}
           ELSE {Lib(0, 1)!Bad}
PROOF
<1> DEFINE days == Lib(0, 1)!MonthDays(x.year, x.month)
           local == LocalTime(x)
           from(z) == Lib(0, 1)!FromTm(z, u \/ x.zoned, E)
           sub(a, b) == Lib(0, 1)!Sub(a, b)
           bad == Lib(0, 1)!Bad
           read(z) == {IF v.r = 0 THEN sub(v.out, x.off) ELSE bad : v \in from(z)}
<1>1. IsReal(x) <=> x.full /\ x.month \in 1..12 /\ x.day \in 1..days
  BY RealDates, Zenon
<1>2. Lib(E, L)!DaysFromCivil(x.year, x.month, x.day) * CivilDay + x.secs = local
  <2>1. Lib(E, L)!DaysFromCivil(x.year, x.month, x.day) = Lib(0, 1)!DaysFromCivil(x.year, x.month, x.day)
    BY LibIs
  <2> QED BY <2>1, Zenon DEF LocalTime
<1>3. Lib(E, L)!MonthDays(x.year, x.month) = days /\ Lib(E, L)!Bad = bad
  BY LibIs
<1>4. \A z : Lib(E, L)!FromTm(z, u \/ x.zoned, E) = from(z)
  BY LibIs
<1>5. \A a, b : Lib(E, L)!Sub(a, b) = sub(a, b)
  BY LibIs, Zenon
<1>6. Lib(E, L)!ParseDate(x, u, E) =
        IF ~x.full \/ x.month \notin 1..12 THEN {bad}
        ELSE IF x.day \notin 1..days THEN {bad}
        ELSE {IF v.r = 0 THEN Lib(E, L)!Sub(v.out, x.off) ELSE bad :
                v \in Lib(E, L)!FromTm(local, u \/ x.zoned, E)}
  BY <1>2, <1>3, Zenon DEF Lib!ParseDate
<1>7. {IF v.r = 0 THEN Lib(E, L)!Sub(v.out, x.off) ELSE bad : v \in Lib(E, L)!FromTm(local, u \/ x.zoned, E)}
        = read(local)
  <2> HIDE DEF local, from, sub, bad
  <2> QED BY <1>4, <1>5
<1> HIDE DEF days, read
<1>8. Lib(E, L)!ParseDate(x, u, E) = IF IsReal(x) THEN read(local) ELSE {bad}
  BY <1>1, <1>6, <1>7, Zenon
<1> QED BY <1>8, Zenon DEF read

\* In UTC a local time is the Unix time.
LEMMA FromTmUtc ==
  ASSUME NEW local \in Int, local \in FirstTime..LastTime, NEW E, NEW u, u = TRUE
  PROVE  Lib(0, 1)!FromTm(local, u, E) = {Lib(0, 1)!Sub(local, E)}
PROOF
<1> DEFINE sub(a) == Lib(0, 1)!Sub(a, E)
           bad == Lib(0, 1)!Bad
           shows(a) == Lib(0, 1)!Local(a, u)
<1>1. Lib(0, 1)!MkTime(local, u) = {local}
  BY Zenon DEF Lib!MkTime
<1>2. Lib(0, 1)!FromTm(local, u, E) =
        {IF t \notin FirstTime..LastTime \/ (t = -1 /\ shows(t) >= 0) THEN bad ELSE sub(t) :
           t \in {local}}
  BY <1>1, Zenon DEF Lib!FromTm, Lib!Civil
<1>3. shows(local) = local
  <2>1. shows(local) = local + 0
    BY Zenon DEF Lib!Local
  <2> HIDE DEF shows
  <2> QED BY <2>1
<1> HIDE DEF sub, bad, shows
<1>4. ~(local = -1 /\ shows(local) >= 0)
  BY <1>3
<1>5. Lib(0, 1)!FromTm(local, u, E) = {sub(local)}
  BY <1>2, <1>4
<1> QED BY <1>5 DEF sub

LEMMA SubIs ==
  ASSUME NEW a, NEW b
  PROVE  /\ a - b \in MinSecs..MaxSecs => Lib(0, 1)!Sub(a, b) = [r |-> 0, out |-> a - b]
         /\ a - b \notin MinSecs..MaxSecs => Lib(0, 1)!Sub(a, b) = [r |-> -1, out |-> 0]
PROOF BY DEF Lib!Sub, Lib!Narrow, Lib!Good, Lib!Bad, Lib!Secs


LEMMA DivMod ==
  ASSUME NEW a \in Int, NEW b \in Nat \ {0}
  PROVE  a \div b \in Int /\ a % b \in 0..(b - 1) /\ a = b * (a \div b) + (a % b)
PROOF
<1>1. a \div b \in Int
  BY SMT
<1>2. a % b \in 0..(b - 1)
  BY SMT
<1>3. a = b * (a \div b) + (a % b)
  BY SMT
<1> QED BY <1>1, <1>2, <1>3

LEMMA TimesUp ==
  ASSUME NEW c \in Nat, NEW i \in Int, NEW j \in Int, i <= j
  PROVE  i * c <= j * c
PROOF OBVIOUS

\* An offset of whole minutes prints as it is.
LEMMA WholeMinutes ==
  ASSUME NEW a \in Int, NEW b \in Nat \ {0}, a % b = 0, NEW E, NEW L
  PROVE  Lib(E, L)!CDiv(a, b) * b = a
PROOF
<1>1. CASE a >= 0
  <2>1. Lib(E, L)!CDiv(a, b) = a \div b
    BY <1>1, Zenon DEF Lib!CDiv
  <2>2. a \div b \in Int /\ a = b * (a \div b)
    BY DivMod
  <2> DEFINE q == a \div b
  <2> HIDE DEF q
  <2>3. q * b = b * q
    BY <2>2 DEF q
  <2> QED BY <2>1, <2>2, <2>3 DEF q
<1>2. CASE ~(a >= 0)
  <2>1. Lib(E, L)!CDiv(a, b) = -((-a) \div b)
    BY <1>2, Zenon DEF Lib!CDiv
  <2> DEFINE p == a \div b
             q == (-a) \div b
             r == (-a) % b
  <2>2. p \in Int /\ a = b * p
    BY DivMod
  <2>3. q \in Int /\ r \in 0..(b - 1) /\ -a = b * q + r
    BY -a \in Int, DivMod
  <2> HIDE DEF p, q, r
  <2>4. b * (-p - q) = r
    BY <2>2, <2>3
  <2>5. -p = q
    <3> DEFINE k == -p - q
    <3>1. k \in Int /\ b * k \in 0..(b - 1)
      BY <2>2, <2>3, <2>4
    <3> HIDE DEF k
    <3>2. k >= 1 => b * k >= b
      BY <3>1
    <3>3. k <= -1 => b * k <= -b
      BY <3>1
    <3>4. k = 0
      BY <3>1, <3>2, <3>3
    <3> QED BY <2>2, <2>3, <3>4 DEF k
  <2>6. (-q) * b = b * p
    BY <2>2, <2>3, <2>5
  <2> QED BY <2>1, <2>2, <2>6 DEF q
<1> QED BY <1>1, <1>2

LEMMA RangeIs ==
  /\ MinSecs \in Int /\ MaxSecs \in Int /\ MinSecs <= 0 /\ 0 <= MaxSecs
  /\ \A z : z \in MinSecs..MaxSecs <=> z \in Int /\ MinSecs <= z /\ z <= MaxSecs
PROOF
<1>1. MinSecs \in Int /\ MaxSecs \in Int /\ 0 \in MinSecs..MaxSecs
  BY CommandAssumption
<1> QED BY <1>1

\* A zone shows every Unix time that has a date as a local one.
LEMMA LocalIs ==
  ASSUME NEW t \in FirstTime..LastTime, NEW u
  PROVE  Lib(0, 1)!Local(t, u) \in Int /\ (u = TRUE => Lib(0, 1)!Local(t, u) = t)
PROOF
<1>1. Zone(t) \in Int
  BY ConvertAssumption, Zenon
<1>2. t \in Int
  BY DatesAssumption
<1>3. Lib(0, 1)!Local(t, u) = IF u THEN t + 0 ELSE t + Zone(t)
  BY Zenon DEF Lib!Local
<1>4. CASE u
  <2>1. Lib(0, 1)!Local(t, u) = t + 0
    BY <1>3, <1>4, Zenon
  <2> QED BY <1>2, <2>1
<1>5. CASE ~u
  <2>1. Lib(0, 1)!Local(t, u) = t + Zone(t)
    BY <1>3, <1>5, Zenon
  <2>2. t + Zone(t) \in Int
    BY <1>1, <1>2
  <2> QED BY <1>5, <2>1, <2>2, Zenon
<1> QED BY <1>4, <1>5

\* The days of a local time lie in its month.
LEMMA ClockDate ==
  ASSUME NEW local \in Int
  PROVE  LET days == local \div CivilDay
             n == Lib(0, 1)!MonthOf(days)
             y == n \div 12
             m == (n % 12) + 1
             d == days - Lib(0, 1)!MonthStart(n) + 1
         IN /\ y \in Int /\ m \in 1..12
            /\ d \in 1..Lib(0, 1)!MonthDays(y, m)
            /\ local % CivilDay \in Nat
            /\ Lib(0, 1)!DaysFromCivil(y, m, d) * CivilDay + (local % CivilDay) = local
            /\ y \in Years => local \in FirstTime..LastTime
            /\ y \in Years => \A e \in Epochs : e \in Int => local - e \in MinSecs..MaxSecs
PROOF
<1> DEFINE days == local \div CivilDay
           rest == local % CivilDay
           n == Lib(0, 1)!MonthOf(days)
           y == n \div 12
           m == (n % 12) + 1
           d == days - Lib(0, 1)!MonthStart(n) + 1
<1>1. CivilDay \in Nat \ {0}
  BY DatesAssumption
<1>2. days \in Int /\ rest \in 0..(CivilDay - 1) /\ local = CivilDay * days + rest
  BY <1>1, DivMod
<1> HIDE DEF days, rest
<1>3. /\ y \in Int /\ m \in 1..12 /\ n = 12 * y + m - 1
      /\ d \in 1..Lib(0, 1)!MonthDays(y, m)
      /\ Lib(0, 1)!DaysFromCivil(y, m, d) = days
  BY <1>2, DateOfDay
<1>4. n \in Int /\ Lib(0, 1)!MonthStart(n) <= days /\ days < Lib(0, 1)!MonthStart(n + 1)
  BY <1>2, MonthOfIs
<1> HIDE DEF n
<1>5. ASSUME y \in Years, NEW e \in Epochs, e \in Int
      PROVE  local - e \in MinSecs..MaxSecs /\ local \in FirstTime..LastTime
  <2> DEFINE first == Lib(0, 1)!MonthStart(n)
             next == Lib(0, 1)!MonthStart(n + 1)
  <2>1. n = 12 * y + (m - 1) /\ n + 1 = 12 * y + m /\ m - 1 \in 0..12 /\ m \in 0..12
    <3> HIDE DEF y, m
    <3> QED BY <1>3
  <2>2. \A k \in 0..12 : /\ Lib(0, 1)!MonthStart(12 * y + k) * CivilDay - e \in MinSecs..MaxSecs
                         /\ Lib(0, 1)!MonthStart(12 * y + k) * CivilDay \in FirstTime..LastTime
    BY <1>5, ConvertAssumption
  <2> HIDE DEF y, m
  <2>3. /\ first * CivilDay - e \in MinSecs..MaxSecs /\ next * CivilDay - e \in MinSecs..MaxSecs
        /\ first * CivilDay \in FirstTime..LastTime /\ next * CivilDay \in FirstTime..LastTime
    BY <2>1, <2>2
  <2>4. first \in Int /\ next \in Int
    BY <1>4, MonthStartNear
  <2>5. first <= days /\ days + 1 <= next
    BY <1>2, <1>4, <2>4
  <2> HIDE DEF first, next
  <2>6. first * CivilDay <= days * CivilDay /\ (days + 1) * CivilDay <= next * CivilDay
    BY <1>1, <1>2, <2>4, <2>5, TimesUp
  <2> DEFINE a == first * CivilDay
             b == days * CivilDay
             c == next * CivilDay
  <2>7. a \in Int /\ b \in Int /\ c \in Int
    BY <1>1, <1>2, <2>4
  <2>8. (days + 1) * CivilDay = b + CivilDay /\ local = b + rest
    BY <1>1, <1>2
  <2>9. /\ a - e \in MinSecs..MaxSecs /\ c - e \in MinSecs..MaxSecs /\ a <= b /\ b + CivilDay <= c
        /\ a \in FirstTime..LastTime /\ c \in FirstTime..LastTime
    BY <2>3, <2>6, <2>8
  <2> HIDE DEF a, b, c
  <2>10. a <= local /\ local <= c
    BY <1>1, <1>2, <2>7, <2>8, <2>9
  <2>11. local \in FirstTime..LastTime
    BY <2>7, <2>9, <2>10, DatesAssumption, <1>1, <1>2, <2>8
  <2> QED BY <1>1, <1>2, <1>5, <2>7, <2>8, <2>9, <2>11, RangeIs
<1>6. Lib(0, 1)!DaysFromCivil(y, m, d) * CivilDay + rest = local
  <2>1. Lib(0, 1)!DaysFromCivil(y, m, d) * CivilDay = days * CivilDay
    BY <1>3, Zenon
  <2>2. days * CivilDay + rest = local
    BY <1>1, <1>2
  <2> QED BY <2>1, <2>2, Zenon
<1>7. rest \in Nat
  BY <1>1, <1>2
<1>8. /\ y \in Years => \A e \in Epochs : e \in Int => local - e \in MinSecs..MaxSecs
      /\ y \in Years => local \in FirstTime..LastTime
  <2>1. DefaultEpoch \in Epochs /\ DefaultEpoch \in Int
    BY DatesAssumption, RangeIs DEF Epochs
  <2> QED BY <1>5, <2>1
<1> HIDE DEF y, m, d
<1> QED BY <1>3, <1>6, <1>7, <1>8, Zenon DEF days, rest, n, y, m, d

\* dk_fmt_clock and dk_parse_date: of a stamp the date that is printed in full is
\* read as the same stamp, in any zone.
LEMMA PrintedDateReadsBack ==
  ASSUME NEW E \in Epochs, E \in Int, NEW L, NEW s \in MinSecs..MaxSecs, NEW u,
         Lib(E, L)!FmtClock(s, u).full,
         (Lib(0, 1)!Local(s + E, u) - (s + E)) % MinuteSecs = 0,
         NEW w \in BOOLEAN
  PROVE  Lib(E, L)!ParseDate(Lib(E, L)!FmtClock(s, u), w, E) = {[r |-> 0, out |-> s]}
PROOF
<1> DEFINE x == Lib(E, L)!FmtClock(s, u)
           t == s + E
           local == Lib(0, 1)!Local(t, u)
           days == local \div CivilDay
           n == Lib(0, 1)!MonthOf(days)
           y == n \div 12
           m == (n % 12) + 1
           d == days - Lib(0, 1)!MonthStart(n) + 1
           off == Lib(E, L)!CDiv(local - t, MinuteSecs) * MinuteSecs
           date == [full |-> y \in Years, year |-> y, month |-> m, day |-> d, secs |-> local % CivilDay,
                    zoned |-> TRUE, off |-> off]
           none == [full |-> FALSE, year |-> 0, month |-> 0, day |-> 0, secs |-> 0, zoned |-> FALSE, off |-> 0]
<1>1. s \in Int /\ t \in Int
  BY RangeIs
<1>2. t \in FirstTime..LastTime /\ x = date
  <2> DEFINE a == Lib(E, L)!Add(s, E)
  <2>1. Lib(E, L)!Local(t, u) = local /\ Lib(E, L)!MonthOf(days) = n
        /\ Lib(E, L)!MonthStart(n) = Lib(0, 1)!MonthStart(n)
    BY LibIs
  <2>2. a.r = 0 => a.out = t
    BY DEF Lib!Add, Lib!Narrow, Lib!Good, Lib!Bad, Lib!Secs
  <2>3. a.r # 0 \/ a.out \notin FirstTime..LastTime => x = none
    BY Zenon DEF Lib!FmtClock, Lib!Civil, Lib!NoDate
  <2>4. x.full # FALSE
    BY Zenon
  <2>5. none.full = FALSE
    OBVIOUS
  <2> HIDE DEF a
  <2>6. a.r = 0 /\ a.out = t /\ t \in FirstTime..LastTime
    <3> HIDE DEF x, none, t
    <3> QED BY <2>2, <2>3, <2>4, <2>5, Zenon
  <2>7. x = date
    BY <2>1, <2>6, Zenon DEF Lib!FmtClock, Lib!Civil, a
  <2> QED BY <2>6, <2>7, Zenon
<1>3. x = date
  BY <1>2, Zenon
<1>4. local \in Int
  BY <1>2, LocalIs
<1>5. /\ y \in Int /\ m \in 1..12
      /\ d \in 1..Lib(0, 1)!MonthDays(y, m)
      /\ local % CivilDay \in Nat
      /\ Lib(0, 1)!DaysFromCivil(y, m, d) * CivilDay + (local % CivilDay) = local
      /\ y \in Years => local \in FirstTime..LastTime
      /\ y \in Years => \A e \in Epochs : e \in Int => local - e \in MinSecs..MaxSecs
  <2> HIDE DEF local
  <2> QED BY <1>4, ClockDate, Zenon
<1>6. off = local - t
  <2> HIDE DEF local, t
  <2>1. local - t \in Int /\ MinuteSecs \in Nat \ {0}
    BY <1>1, <1>4, ConvertAssumption
  <2>2. (local - t) % MinuteSecs = 0
    BY Zenon DEF local, t
  <2> QED BY <2>1, <2>2, WholeMinutes
<1> HIDE DEF x, t, local, days, n, y, m, d, off
<1>7. /\ x.year = y /\ x.month = m /\ x.day = d /\ x.secs = local % CivilDay
      /\ x.off = off /\ x.zoned = TRUE
  BY <1>3
<1>8. x.full /\ y \in Years
  <2>1. x.full
    BY Zenon DEF x
  <2>2. x.full = (y \in Years)
    BY <1>3, Zenon
  <2> QED BY <2>1, <2>2, Zenon
<1>9. LocalTime(x) = local
  <2>1. LocalTime(x) = Lib(0, 1)!DaysFromCivil(x.year, x.month, x.day) * CivilDay + x.secs
    BY Zenon DEF LocalTime
  <2> QED BY <1>5, <1>7, <2>1, Zenon
<1>10. d \in Int /\ m \in Int
  <2>1. Lib(0, 1)!MonthDays(y, m) \in Int
    BY <1>5, MonthLength
  <2> QED BY <1>5, <2>1
<1>11. x.year \in Int /\ x.month \in Int /\ x.day \in Int
  BY <1>5, <1>7, <1>10, Zenon
<1>12. IsReal(x)
  <2>1. IsReal(x) <=> x.full /\ x.month \in 1..12 /\ x.day \in 1..Lib(0, 1)!MonthDays(x.year, x.month)
    BY <1>11, RealDates
  <2> QED BY <1>5, <1>7, <1>8, <2>1, Zenon
<1>13. local - E \in MinSecs..MaxSecs /\ local \in FirstTime..LastTime
  BY <1>5, <1>8, Zenon
<1>14. Lib(0, 1)!FromTm(local, w \/ x.zoned, E) = {[r |-> 0, out |-> local - E]}
  <2>1. (w \/ x.zoned) = TRUE
    BY <1>7, Zenon
  <2>2. Lib(0, 1)!FromTm(local, w \/ x.zoned, E) = {Lib(0, 1)!Sub(local, E)}
    BY <1>4, <1>13, <2>1, FromTmUtc, Zenon
  <2>3. Lib(0, 1)!Sub(local, E) = [r |-> 0, out |-> local - E]
    BY <1>13, SubIs, Zenon
  <2> QED BY <2>2, <2>3, Zenon
<1>15. Lib(0, 1)!Sub(local - E, x.off) = [r |-> 0, out |-> s]
  <2>1. (local - E) - x.off = s
    BY <1>1, <1>4, <1>6, <1>7 DEF t
  <2> QED BY <2>1, SubIs, Zenon
<1>16. Lib(E, L)!ParseDate(x, w, E) =
         {IF v.r = 0 THEN Lib(0, 1)!Sub(v.out, x.off) ELSE Lib(0, 1)!Bad :
            v \in Lib(0, 1)!FromTm(local, w \/ x.zoned, E)}
  BY <1>9, <1>11, <1>12, ParseDateIs, Zenon
<1>17. Lib(E, L)!ParseDate(x, w, E) = {[r |-> 0, out |-> s]}
  <2> DEFINE sub(a) == Lib(0, 1)!Sub(a, x.off)
             from == Lib(0, 1)!FromTm(local, w \/ x.zoned, E)
             bad == Lib(0, 1)!Bad
             there == local - E
  <2>1. /\ Lib(E, L)!ParseDate(x, w, E) = {IF v.r = 0 THEN sub(v.out) ELSE bad : v \in from}
        /\ from = {[r |-> 0, out |-> there]} /\ sub(there) = [r |-> 0, out |-> s]
    BY <1>14, <1>15, <1>16, Zenon
  <2> HIDE DEF sub, from, bad, there
  <2> QED BY <2>1
<1> QED BY <1>17, Zenon DEF x

\* Of the VALUEs that are dates those of the calendar are read, and no others.
LEMMA DateIsRead ==
  ASSUME NEW E \in Epochs, E \in Int, NEW L, NEW u \in BOOLEAN,
         NEW x \in Operands, x \in Lib(0, 1)!Dates,
         NEW read \in Lib(E, L)!ParseDate(x, u, E)
  PROVE  /\ read.r = 0 => IsReal(x)
         /\ \/ ~IsReal(x)
            \/ /\ ~x.zoned /\ ~u /\ Lib(0, 1)!Local(-1, FALSE) >= 0
               /\ -1 \in Lib(0, 1)!MkTime(LocalTime(x), FALSE)
            \/ read.r = 0
PROOF
<1> DEFINE local == LocalTime(x)
           from == Lib(0, 1)!FromTm(local, u \/ x.zoned, E)
<1>1. x.year \in Int /\ x.month \in Int /\ x.day \in Int /\ x.off \in Int /\ x.secs \in Int /\ x.zoned \in BOOLEAN
  BY DEF Lib!Dates
<1>2. Lib(E, L)!ParseDate(x, u, E) =
        IF IsReal(x) THEN {IF v.r = 0 THEN Lib(0, 1)!Sub(v.out, x.off) ELSE Lib(0, 1)!Bad : v \in from}
        ELSE {Lib(0, 1)!Bad}
  BY <1>1, ParseDateIs, Zenon
<1>3. Lib(0, 1)!Bad = [r |-> -1, out |-> 0]
  BY DEF Lib!Bad
<1>4. CASE ~IsReal(x)
  <2>1. read = [r |-> -1, out |-> 0]
    BY <1>2, <1>3, <1>4, Zenon
  <2>2. read.r # 0
    BY <2>1
  <2> QED BY <1>4, <2>2, Zenon
<1>5. CASE /\ IsReal(x)
           /\ ~(~x.zoned /\ ~u /\ Lib(0, 1)!Local(-1, FALSE) >= 0 /\ -1 \in Lib(0, 1)!MkTime(local, FALSE))
  <2>1. PICK v \in from : read = IF v.r = 0 THEN Lib(0, 1)!Sub(v.out, x.off) ELSE Lib(0, 1)!Bad
    BY <1>2, <1>5, Zenon
  <2>2. local \in Int
    <3>1. Lib(0, 1)!DaysFromCivil(x.year, x.month, x.day) \in Int
      BY <1>1, SMT DEF Lib!DaysFromCivil
    <3>2. CivilDay \in Int
      BY DatesAssumption
    <3> QED BY <1>1, <3>1, <3>2 DEF LocalTime
  <2>3. \A o \in Offsets \union {0} :
          /\ local - o - E \in MinSecs..MaxSecs /\ local - o - E - x.off \in MinSecs..MaxSecs
          /\ local - o \in FirstTime..LastTime
    BY ConvertAssumption
  <2>4. PICK o \in Offsets \union {0} : v = Lib(0, 1)!Sub(local - o, E)
    <3>1. CASE u \/ x.zoned
      <4>1. from = {Lib(0, 1)!Sub(local, E)}
        <5>1. (u \/ x.zoned) = TRUE
          BY <3>1, Zenon
        <5>2. local \in FirstTime..LastTime
          <6>1. local - 0 = local
            <7> HIDE DEF local
            <7> QED BY <2>2
          <6> QED BY <2>3, <6>1, Zenon
        <5> QED BY <2>2, <5>1, <5>2, FromTmUtc, Zenon
      <4>2. local - 0 = local
        <5> HIDE DEF local
        <5> QED BY <2>2
      <4>3. v = Lib(0, 1)!Sub(local - 0, E)
        BY <4>1, <4>2, Zenon
      <4> QED BY <4>3, Zenon
    <3>2. CASE ~(u \/ x.zoned)
      <4> DEFINE times == Lib(0, 1)!MkTime(local, FALSE)
      <4>1. (u \/ x.zoned) = FALSE
        BY <3>2, Zenon
      <4> DEFINE failed1970 == Lib(0, 1)!Local(-1, FALSE) >= 0
                 refused(z) == z \notin FirstTime..LastTime \/ (z = -1 /\ Lib(0, 1)!Local(z, FALSE) >= 0)
      <4>2. from = {IF refused(a) THEN Lib(0, 1)!Bad ELSE Lib(0, 1)!Sub(a, E) : a \in times}
        BY <4>1, Zenon DEF Lib!FromTm, Lib!Civil
      <4>3. PICK a \in times : v = IF refused(a) THEN Lib(0, 1)!Bad ELSE Lib(0, 1)!Sub(a, E)
        <5> HIDE DEF refused, times, from
        <5> QED BY <4>2, Zenon
      <4>4. PICK o \in Offsets : a = local - o
        <5>1. Lib(0, 1)!UnixTimes(local) \subseteq {local - o : o \in Offsets}
          <6> HIDE DEF local
          <6> QED BY Zenon DEF Lib!UnixTimes
        <5>2. times = Lib(0, 1)!UnixTimes(local)
          BY Zenon DEF Lib!MkTime
        <5> QED BY <4>3, <5>1, <5>2, Zenon
      <4>5. ~refused(a)
        <5>1. a \in FirstTime..LastTime
          BY <2>3, <4>4, Zenon
        <5>2. a = -1 => ~failed1970
          BY <1>5, <3>2, <4>3, Zenon
        <5> QED BY <5>1, <5>2, Zenon
      <4>6. v = Lib(0, 1)!Sub(local - o, E)
        BY <4>3, <4>4, <4>5, Zenon
      <4> QED BY <4>6, Zenon
    <3> QED BY <3>1, <3>2, Zenon
  <2>5. v = [r |-> 0, out |-> local - o - E]
    BY <2>3, <2>4, SubIs, Zenon
  <2>6. read = Lib(0, 1)!Sub(local - o - E, x.off)
    <3>1. v.r = 0 /\ v.out = local - o - E
      BY <2>5
    <3> QED BY <2>1, <3>1, Zenon
  <2>7. read = [r |-> 0, out |-> local - o - E - x.off]
    BY <2>3, <2>6, SubIs, Zenon
  <2>8. read.r = 0
    BY <2>7
  <2> QED BY <1>5, <2>8, Zenon
<1> QED BY <1>4, <1>5, Zenon DEF local

\* What is shown is the last VALUE converted, and what came of it.
ShownInv ==
  pc = "work" /\ shown # Unset =>
    \E v \in Operands : \E read \in Reads(v) :
      /\ shown.value = v /\ shown.at = read
      /\ read.r = 0 => shown.as = Converted(v, read.out)

LEMMA ShownStep ==
  ASSUME StatusInv, StatusInv', ShownInv, [Next]_vars
  PROVE  ShownInv'
PROOF
<1> SUFFICES ASSUME (pc = "work" /\ shown # Unset)' PROVE ShownInv'
  BY Zenon DEF ShownInv
<1>1. pc' = "work" /\ shown' # Unset /\ mode' = "convert"
  BY DEF StatusInv
<1>2. CASE UNCHANGED <<pc, shown, utc, epoch, dayLength, now>>
  <2>1. pc = "work" /\ shown # Unset
    BY <1>1, <1>2
  <2>2. \A v : Reads(v)' = Reads(v)
    BY <1>2 DEF Reads
  <2>3. \A v, s : Converted(v, s)' = Converted(v, s)
    BY <1>2 DEF Converted
  <2> QED BY <1>2, <2>1, <2>2, <2>3 DEF ShownInv
<1>3. CASE Convert
  <2>1. UNCHANGED <<utc, epoch, dayLength, now>>
    BY <1>3 DEF Convert, optVars, libVars
  <2>2. \A v : Reads(v)' = Reads(v)
    BY <2>1 DEF Reads
  <2>3. \A v, s : Converted(v, s)' = Converted(v, s)
    BY <2>1 DEF Converted
  <2>4. PICK v \in Operands : \E read \in Reads(v) :
          \/ read.r = 0 /\ shown' = [value |-> v, at |-> read, as |-> Converted(v, read.out)]
          \/ read.r # 0 /\ shown' = [value |-> v, at |-> read, as |-> Unset]
    BY <1>3 DEF Convert
  <2>5. PICK read \in Reads(v) :
          \/ read.r = 0 /\ shown' = [value |-> v, at |-> read, as |-> Converted(v, read.out)]
          \/ read.r # 0 /\ shown' = [value |-> v, at |-> read, as |-> Unset]
    BY <2>4
  <2>6. shown'.value = v /\ shown'.at = read /\ (read.r = 0 => shown'.as = Converted(v, read.out))
    BY <2>5
  <2> QED BY <2>2, <2>3, <2>4, <2>5, <2>6 DEF ShownInv
<1>4. CASE ~Convert /\ Next
  <2>1. pc # "work" => pc = "clock" /\ shown' = shown
    BY <1>1, <1>4 DEF Next, Option, ModeOption, Help, EndOptions, Configure, SetAll, OpenConfig, ReadLine, EndConfig, ClockNow, OperandError, Now, Track, Sums, EndConvert, CloseStdout, Leaves, workVars
  <2>2. pc = "work" => FALSE
    BY <1>1, <1>4 DEF Next, Option, Help, EndOptions, Configure, OpenConfig, ReadLine, EndConfig, ClockNow, OperandError, Now, Track, Sums, EndConvert, CloseStdout, Leaves
  <2>3. shown' = Unset
    BY <2>1, <2>2 DEF StatusInv, Early
  <2> QED BY <1>1, <2>3
<1>5. CASE UNCHANGED vars
  BY <1>2, <1>5 DEF vars, optVars, libVars, workVars
<1> QED BY <1>3, <1>4, <1>5

\* Where a VALUE is read, day 0 is the default one or a date's.
LEMMA EpochIs ==
  ASSUME SettingsInv, pc = "work"
  PROVE  epoch \in Epochs /\ epoch \in Int
PROOF
<1>1. epoch \in Int
  BY RangeIs DEF SettingsInv, TypeOK
<1>2. Resolved("epoch") /\ "epoch" \in Settings
  BY DEF SettingsInv, Settings
<1>3. epoch = IF Effective("epoch") = Unset THEN DefaultEpoch ELSE UnixTime(Effective("epoch"))
  BY <1>2 DEF Resolved, Setting, Default, Meaning
<1>4. Effective("epoch") \in EpochTexts \union {Unset}
  <2>1. Effective("epoch") = IF "epoch" \in Needed THEN conf["epoch"] ELSE Given("epoch")
    BY <1>2, EffectiveIs DEF SettingsInv
  <2>2. /\ opt["epoch"] \in EpochTexts \union {Unset} /\ conf["epoch"] \in EpochTexts \union {Unset}
        /\ env["epoch"] \in EpochTexts \union {Unset, Empty}
    BY <1>2 DEF SettingsInv, TypeOK, Values
  <2> QED BY <2>1, <2>2 DEF Given
<1>5. CASE Effective("epoch") = Unset
  BY <1>1, <1>3, <1>5 DEF Epochs
<1>6. CASE Effective("epoch") # Unset
  BY <1>1, <1>3, <1>4, <1>6 DEF Epochs, UnixTime
<1> QED BY <1>1, <1>5, <1>6

LEMMA ShownReadsBack ==
  ASSUME SettingsInv, ShownInv
  PROVE  ConvertReadsBack
PROOF
<1> SUFFICES ASSUME pc = "work", shown # Unset
             PROVE  IF IsDate(shown.value)
                    THEN /\ shown.at.r = 0 => IsReal(shown.value)
                         /\ IsReal(shown.value) /\ ~TakenForFailure(shown.value) => shown.at.r = 0
                    ELSE shown.at.r = 0 /\ shown.value.form = "decimal" /\ PrintedInFull
                           => ReadBack(shown.as)
  BY Zenon DEF ConvertReadsBack
<1>1. epoch \in Epochs /\ epoch \in Int
  BY EpochIs
<1>2. utc \in BOOLEAN
  BY Zenon DEF SettingsInv, TypeOK
<1>3. PICK v \in Operands : \E read \in Reads(v) :
        /\ shown.value = v /\ shown.at = read
        /\ read.r = 0 => shown.as = Converted(v, read.out)
  BY DEF ShownInv
<1>4. PICK read \in Reads(v) :
        /\ shown.value = v /\ shown.at = read
        /\ read.r = 0 => shown.as = Converted(v, read.out)
  BY <1>3
<1>5. v \in Lib(0, 1)!Text \/ v \in Lib(0, 1)!Dates
  BY ConvertAssumption
<1>6. CASE IsDate(v)
  <2>1. v \in Lib(0, 1)!Dates
    BY <1>5, <1>6 DEF IsDate, Lib!Text
  <2>2. read \in Lib(epoch, dayLength)!ParseDate(v, utc, epoch)
    BY <1>4, <1>6, Zenon DEF Reads
  <2>3. /\ read.r = 0 => IsReal(v)
        /\ ~IsReal(v) \/ TakenForFailure(v) \/ read.r = 0
    BY <1>1, <1>2, <2>1, <2>2, DateIsRead, Zenon DEF TakenForFailure
  <2> QED BY <1>4, <1>6, <2>3, Zenon
<1>7. CASE ~IsDate(v)
  <2> SUFFICES ASSUME read.r = 0, v.form = "decimal", PrintedInFull PROVE ReadBack(shown.as)
    BY <1>4, <1>7, Zenon
  <2>1. read \in Lib(epoch, dayLength)!ParseTime(v, now, utc)
    BY <1>4, <1>7, Zenon DEF Reads
  <2>2. read = Lib(epoch, dayLength)!ParseStamp(v, now)
    <3>1. v.form # "clock"
      OBVIOUS
    <3> QED BY <2>1, <3>1, Zenon DEF Lib!ParseTime
  <2>3. PICK z : read = Lib(epoch, dayLength)!Narrow(z) \/ read = Lib(epoch, dayLength)!Bad
    <3>1. v.form # "clock"
      OBVIOUS
    <3> QED BY <2>2, <3>1, Zenon DEF Lib!ParseStamp, Lib!Compose
  <2>4. read = [r |-> 0, out |-> read.out] /\ read.out \in MinSecs..MaxSecs
    BY <2>3 DEF Lib!Narrow, Lib!Good, Lib!Bad, Lib!Secs
  <2> DEFINE s == read.out
             x == Lib(epoch, dayLength)!FmtClock(s, utc)
  <2>5. shown.as = x
    BY <1>4, <1>7, Zenon DEF Converted
  <2>6. x.full /\ (Lib(0, 1)!Local(s + epoch, utc) - (s + epoch)) % MinuteSecs = 0
    BY <1>4, <2>5, Zenon DEF PrintedInFull
  <2>7. \A w \in BOOLEAN : Lib(epoch, dayLength)!ParseDate(x, w, epoch) = {[r |-> 0, out |-> s]}
    <3> SUFFICES ASSUME NEW w \in BOOLEAN
                 PROVE  Lib(epoch, dayLength)!ParseDate(x, w, epoch) = {[r |-> 0, out |-> s]}
      OBVIOUS
    <3>1. s \in MinSecs..MaxSecs
      BY <2>4
    <3> HIDE DEF s
    <3> QED BY <1>1, <2>6, <3>1, PrintedDateReadsBack
  <2>8. [r |-> 0, out |-> s] = shown.at
    BY <1>4, <2>4, Zenon
  <2> QED BY <2>5, <2>7, <2>8, Zenon DEF ReadBack
<1> QED BY <1>6, <1>7

\* What convert prints for a stamp it reads back as the same stamp, for every zone
\* and every day 0 that a date can set, if the year has four digits and the offset
\* no seconds; and of dates it reads those of the Gregorian calendar, every one of
\* them but one that mktime may give as -1 (dk_fmt_clock, dk_parse_date, from_tm).
THEOREM ConversionsReadBack == Spec => []ConvertReadsBack
PROOF
<1>1. Init => ShownInv
  BY DEF Init, ShownInv
<1>2. SettingsInv /\ ShownInv => ConvertReadsBack
  BY ShownReadsBack
<1>3. Spec => []StatusInv
  BY InitStatus, StatusStep, PTL DEF Spec
<1>4. StatusInv /\ StatusInv' /\ ShownInv /\ [Next]_vars => ShownInv'
  BY ShownStep
<1> QED BY <1>1, <1>2, <1>3, <1>4, SettingsInvariance, PTL DEF Spec

=============================================================================
