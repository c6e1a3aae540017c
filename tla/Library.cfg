\* One component in each behaviour.
SPECIFICATION LibrarySpec
CONSTANTS
  Documents <- MCDocuments
  SpacePolicies = {"spaces", "noSpaces", "leadingSpaces", "trailingSpaces"}
  PerSecond = 2
  PerMinute = 2
  PerHour = 2
  Std = 4
  Shift = 4
  Summer <- MCSummer
  Instants <- MCInstants
  Offsets <- MCOffsets
  ReadsSummer = FALSE
  ReadsForeign = FALSE
  FormatsWest = FALSE
  CrcStreams <- MCCrcStreams
  CrcBases = {0, 3, 7}
  CrcPlatforms <- MCCrcPlatforms
  CrcDefects = FALSE
  Base64Sources <- MCBase64Sources
  Pad = 64
  CodePoints <- MCCodePoints
  MaxChars = 2
  Encodings <- MCEncodings
  UTF8 <- MCUtf8
  ByteOrders = {"LE", "BE"}
  HighUnits = FALSE
  UnsignedBits = 6
  Divisors = {1, 2, 3, 4, 5, 6, 7, 8, 9, 10, 11, 12, 13, 14, 15, 16}
  DivideDefects = FALSE
  MeanDefects = FALSE
  Spaces <- MCSpaces
  AttemptCounts = {0, 2}
  StepCounts = {0, 1, 2}
  Outside = {0, 1, 2}
  SearchDefects = FALSE
  Keys = {k1, k2}
  Entries = {e1, e2, e3}
  NoKey = NoKey
  NoEntry = NoEntry
  Optionals = {o1, o2, o3}
  MovesEmpty = FALSE
  Users = {u1, u2, u3}
  NoUser = NoUser
  ClockRange = 3
  MaxTime = 7
  Irregular = FALSE
INVARIANTS
  AcceptsGrammar
  ErrorsLocated
  KeepsInstant
  ShowsOffset
  CrcIsRemainder
  DecodesToSource
  ConvertsFaithfully
  AnswersAreExact
  FindsBest
  RepositoryHolds
  FlagTellsValue
  ShowsTimeRun
PROPERTIES
  StopsAtError
  EveryCallReturns
CHECK_DEADLOCK FALSE
