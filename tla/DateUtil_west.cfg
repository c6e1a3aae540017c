\* Timestamps west of Greenwich are formatted too.
SPECIFICATION DateSpec
CONSTANTS
  PerSecond = 2
  PerMinute = 2
  PerHour = 2
  Std = 4
  Shift = 4
  Summer <- MCSummer
  Instants <- MCInstants
  Offsets <- MCOffsets
  ReadsSummer = FALSE
  ReadsForeign = FALSE
  FormatsWest = TRUE
INVARIANTS TwoDigitsFit
CHECK_DEADLOCK FALSE
