\* Every number of each type, and texts that do not go on behind the least.
SPECIFICATION Spec
CONSTANTS
  Kinds <- AllKinds
  IntValues = 1024
  MaxRead = 6
  DigitsAfterMin = FALSE
  OtherAsDigits = FALSE
INVARIANTS PrintedFits ParsesWhatIsWritten RoundTrip
CHECK_DEADLOCK FALSE
