\* Every call of the library over days 0..120, printed with three day digits.
CONSTANTS
  DayLength = 25
  MinSecs <- MCMinSecs
  MaxSecs = 3040
  TicksPerDay = 10
  PadDigits = 3
  MaxDayDigits = 4
  CivilDay = 16
  Epoch = 5
  Zone <- MCZone
  Offsets = {0, 4}
  Guess <- MCGuess
  FirstTime <- MCMinSecs
  LastTime = 3100
  Instants <- MCInstants
  Typed <- MCTyped
SPECIFICATION Spec
INVARIANTS
  TypeOK
  CompletionIsNearest
  EndIsFirst
  ClockEndIsFirst
  PrintIsStable
  PrintedRangeReads
CHECK_DEADLOCK FALSE
