\* Two lines of up to five tokens from operands, files and standard input.
CONSTANTS
  DayLength = 3
  MinSecs <- Neg3
  MaxSecs = 9
  TicksPerDay = 2
  PadDigits = 1
  MaxDayDigits = 2
  CivilDay = 4
  Epoch = 2
  Zone <- MCZone
  Offsets = {0, 2}
  Guess <- MCGuess
  FirstTime <- Neg3
  LastTime = 30
  Instants = {3}
  Words <- SumWords
  Commands <- SumCommands
  MinuteSecs = 2
  HourMinutes = 3
  MaxTokens = 5
  MaxLines = 2
SPECIFICATION Spec
INVARIANTS
  TypeOK
  SumsTheRanges
  StatusIsWorst
  PrintsNearest
PROPERTY
  OnlyTheZoneTakesBack
CHECK_DEADLOCK FALSE
