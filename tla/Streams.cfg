\* An object of any class, chunks of two bytes, a 4-bit unsigned int.
SPECIFICATION Spec
CONSTANTS
  Size = 5
  Counts = {0, 1, 2, 3, 4, 7, 8, 17}
  gZipSkipChunkSize = 2
  UIntMod = 16
  MaxWritten = 20
  CutsSizes = FALSE
  TellFails = FALSE
INVARIANTS NoHandleLost
PROPERTIES ImplementsInputStream WritesAll SkipsEnd
CHECK_DEADLOCK FALSE
