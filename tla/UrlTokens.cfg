\* Two web-form builders and a reader.
SPECIFICATION Spec
CONSTANTS
  w1 = w1  w2 = w2  p1 = p1
  Builders = {w1, w2, p1}
  Format <- Formats
  Bases <- TwoBases
  NoBase = NoBase
  PlainParts <- Queries
  ParamLists <- Arguments
  Unreserved <- Word
  octetToHex <- Hex
  minBufCapacity = 2
  MaxSize = 20
  Delimiter = "&"
  NoInput = NoInput
  SkipsLast = FALSE
  NoBuilder = NoBuilder
  Lines <- ShortLines
  MaxInUse = 2
INVARIANTS EncodedFits HoldsWhatWasGiven TokensAreParameters
PROPERTIES ImplementsTokenList
SYMMETRY WebBuilders
CHECK_DEADLOCK FALSE
