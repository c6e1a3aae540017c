\* Texts that go on with digits behind those of the least int.
SPECIFICATION Spec
CONSTANTS
  Kinds <- Decimal
  IntValues = 1024
  MaxRead = 6
  DigitsAfterMin = TRUE
  OtherAsDigits = FALSE
INVARIANTS OutOfRangeIsReported
CHECK_DEADLOCK FALSE
