\* Settings from two options, the environment and two lines of a file; two VALUEs.
CONSTANTS
  Unset = Unset
  Empty = Empty
  MinSecs <- MCMinSecs
  MaxSecs = 500000
  TicksPerDay = 2
  PadDigits = 5
  MaxDayDigits = 9
  CivilDay = 8
  Zone <- MCZone
  Offsets <- MCOffsets
  FirstTime <- MCMinSecs
  LastTime = 500000
  MinuteSecs = 2
  Years <- MCYears
  EpochTexts <- MCEpochs
  LengthTexts = {0, 4, 10}
  MaxDayLength = 9
  DefaultEpoch = 87656
  DefaultLength = 8
  Clocks <- MCClocks
  NowTexts <- MCNowTexts
  Operands <- MCOperands
  MaxOptions = 2
  MaxLines = 2
  MaxOperands = 2
SPECIFICATION Spec
INVARIANTS
  TypeOK
  SettingsResolve
  OnlyUsedValuesMatter
  ConvertReadsBack
  StatusTells
CHECK_DEADLOCK FALSE
