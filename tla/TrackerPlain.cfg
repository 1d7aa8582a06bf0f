\* One tracker without a log: the stamps themselves, near the limits.
CONSTANTS
  NoTracker = NoTracker
  Trackers = {t1}
  Appenders = {}
  DayLength = 2
  MinSecs <- Neg3
  MaxSecs = 3
  TicksPerDay = 2
  PadDigits = 1
  MaxDayDigits = 4
  CivilDay = 4
  Epoch = 1
  Zone <- MCZone
  Offsets = {0, 2}
  Guess <- MCGuess
  FirstTime <- Neg8
  LastTime = 20
  Instants <- PlainClock
  Typed <- PlainTyped
  InitialLogs <- WriteLogs
  ForeignLines = {}
  Garbled = {}
  ShortWrites = FALSE
  MaxStamps = 4
  MaxLog = 0
SPECIFICATION Spec
INVARIANTS
  EndNotBeforeStart
  RenderTotalsFit
