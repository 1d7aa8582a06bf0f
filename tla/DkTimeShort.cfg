\* The same calls, days printed with as few as one digit: fewer than today has.
CONSTANTS
  DayLength = 25
  MinSecs <- MCMinSecs
  MaxSecs = 3040
  TicksPerDay = 10
  PadDigits = 1
  MaxDayDigits = 4
  CivilDay = 16
  Epoch = 5
  Zone <- MCZone
  Offsets = {0, 4}
  Guess <- MCGuess
  FirstTime <- MCMinSecs
  LastTime = 3100
  Instants <- MCInstants
  Typed <- MCTyped
SPECIFICATION Spec
INVARIANT
  ReadsBackWithoutCompletion
CHECK_DEADLOCK FALSE
