\* Signals: keys keep coming, or a blocked read gets one in the end.
CONSTANTS
  NoTracker = NoTracker
  Trackers = {t1}
  Appenders = {t1}
  DayLength = 2
  MinSecs <- Neg8
  MaxSecs = 7
  TicksPerDay = 2
  PadDigits = 1
  MaxDayDigits = 4
  CivilDay = 4
  Epoch = 0
  Zone <- MCZone
  Offsets = {0, 2}
  Guess <- MCGuess
  FirstTime <- Neg8
  LastTime = 20
  Instants = {3}
  Typed = {}
  InitialLogs <- WriteLogs
  ForeignLines = {}
  Garbled = {}
  ShortWrites = FALSE
  MaxStamps = 2
  MaxLog = 0
SPECIFICATION FairKeysSpec
PROPERTY
  SignalEndsSession
