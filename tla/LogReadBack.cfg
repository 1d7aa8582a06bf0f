\* One tracker whose log is summed at the moment of its last stamp.
CONSTANTS
  NoTracker = NoTracker
  Trackers = {t1}
  Appenders = {t1}
  DayLength = 3
  MinSecs <- Neg8
  MaxSecs = 14
  TicksPerDay = 2
  PadDigits = 1
  MaxDayDigits = 4
  CivilDay = 4
  Epoch = 0
  Zone <- MCZone
  Offsets = {0, 2}
  Guess <- MCGuess
  FirstTime <- Neg8
  LastTime = 20
  Instants = {4}
  Typed <- WriteTyped
  InitialLogs <- TextLog
  ForeignLines = {}
  Garbled = {}
  ShortWrites = FALSE
  MaxStamps = 3
  MaxLog = 1
SPECIFICATION Spec
INVARIANT
  OpenEntrySums
