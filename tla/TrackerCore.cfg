\* Two trackers on one log: resuming, older lines, the lock, crashes.
CONSTANTS
  NoTracker = NoTracker
  Trackers = {t1, t2}
  Appenders = {t1, t2}
  DayLength = 2
  MinSecs <- Neg8
  MaxSecs = 7
  TicksPerDay = 2
  PadDigits = 1
  MaxDayDigits = 4
  CivilDay = 4
  Epoch = 0
  Zone <- MCZone
  Offsets = {0, 2}
  Guess <- MCGuess
  FirstTime <- Neg8
  LastTime = 20
  Instants = {0, 3}
  Typed <- CoreTyped
  InitialLogs <- CoreLogs
  ForeignLines <- CoreForeign
  Garbled = {}
  ShortWrites = FALSE
  MaxStamps = 2
  MaxLog = 3
SPECIFICATION Spec
INVARIANTS
  TypeOK
  OneOwner
  LogCurrent
  OwnLinesStartALine
PROPERTIES
  OlderLinesKept
  KeepsPromise
SYMMETRY Symmetry
