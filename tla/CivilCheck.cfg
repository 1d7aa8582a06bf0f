\* START once the offset has changed, END at a repeated time of day or another.
CONSTANTS
  DayLength = 24
  MinSecs <- MCMinSecs
  MaxSecs = 200
  TicksPerDay = 10
  PadDigits = 3
  MaxDayDigits = 3
  CivilDay = 24
  Zone <- MCZone
  Offsets = {1, 3}
  Epoch = 0
  Guess <- MCZone
  FirstTime <- MCMinSecs
  LastTime = 200
  MinuteSecs = 1
  Years = {1970}
  Starts = {46, 47, 48, 50}
  Times = {0, 12, 23}
SPECIFICATION Spec
INVARIANT EndIsFirstShown
CHECK_DEADLOCK FALSE
