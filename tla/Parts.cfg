SPECIFICATION PartsSpec
CONSTANTS
  Size = 3
  Bytes = {a, b}
  Lengths = {1, 2, 3, 4}
  EncodedSize = 5
  MaxData = 2
  Counts = {0, 1, 6, 48, 84, 96, 128}
  BlockMaxSize = 100
  ImageSize = 5
  DumpBlock = 2
  MaxStarts = 2
  BlockLen = 3
  BinarySizes = {1, 4, 6, 8}
  Debounce = 2
  Short = 3
  Long = 6
  Serial = 2
  BreakMax = 5
  VeryLong = 9
  Clicks = 3
  MaxClicks = 4
  MaxHold = 13
  Separation = 2
  TOn = 1
  TOff = 2
  Period = 6
  Repeats = {1}
  IdentifyCounts = {0, 1, 2}
  Word = 6
  MaxPending = 3
  MaxEvents = 2
  SsidCap = 2
  PasswordCap = 2
  MaxChrLen = 7
  Letters = {1}
  MaxRecords = 2
  ApIds = {1, 2}
  PeekSize = 7
  RingSize = 14
  MaxAnswers = 1
  ItemsCap = 4
  Samples = {0, 1, 3, 6, 7}
  Modulus = 8
  CompileTime = 1
  MaxTime = 3
  OffsetMod = 3
  MeterEntries = 2
  EnergyEntries = 3
  Measured = {4}
  Produced = {2, 4}
  Callbacks = {f}
  Powers = {1}
  MaxClock = 3
  EnergyMod = 8
  MaxEnergy = 1
  MinDiff = 2
  HistoryLen = 2
  Flags = {0, 1}
  LongTicks = 3
  Tolerance = 1
  PressTimes = {2, 4}
  ClickCounts = {3}
  Callees = {f, g}
  MaxCallbacks = 3
  MaxTicks = 4
INVARIANTS ParsedAsSent AnsweredOnce UploadsInOrder DecryptsHoweverCut LedSettles ReconnectComes SessionEnds AnswersUnderstood ProvisionedAsWritten AverageOfMiddle HistoryReadsBack EnergyKept CalledOnTime
PROPERTIES ImplementsQueue DecoderRecovers FactoryResetMeant
CHECK_DEADLOCK FALSE
