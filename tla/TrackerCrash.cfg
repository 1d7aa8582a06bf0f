\* A tracker killed while it rewrites its lines, each with one whole pwrite.
CONSTANTS
  NoTracker = NoTracker
  Trackers = {t1}
  Appenders = {t1}
  DayLength = 2
  MinSecs <- Neg8
  MaxSecs = 7
  TicksPerDay = 2
  PadDigits = 1
  MaxDayDigits = 4
  CivilDay = 4
  Epoch = 0
  Zone <- MCZone
  Offsets = {0, 2}
  Guess <- MCGuess
  FirstTime <- Neg8
  LastTime = 20
  Instants = {0, 3}
  Typed <- CoreTyped
  InitialLogs <- WriteLogs
  ForeignLines <- CoreForeign
  Garbled = {}
  ShortWrites = FALSE
  MaxStamps = 2
  MaxLog = 3
SPECIFICATION Spec
INVARIANT
  CrashLosesNothing
