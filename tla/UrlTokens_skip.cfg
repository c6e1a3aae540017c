\* The reader also skips the last token.
SPECIFICATION Spec
CONSTANTS
  w1 = w1  w2 = w2  p1 = p1
  Builders = {w1}
  Format <- OneFormat
  Bases <- TwoBases
  NoBase = NoBase
  PlainParts <- Queries
  ParamLists <- Arguments
  Unreserved <- Word
  octetToHex <- Hex
  minBufCapacity = 2
  MaxSize = 12
  Delimiter = "&"
  NoInput = NoInput
  SkipsLast = TRUE
  NoBuilder = NoBuilder
  Lines <- ShortLines
  MaxInUse = 2
INVARIANTS RefusesAtTheEnd
CHECK_DEADLOCK FALSE
