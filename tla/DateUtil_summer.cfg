\* Instants of daylight saving time are read in every way.
SPECIFICATION DateSpec
CONSTANTS
  PerSecond = 2
  PerMinute = 2
  PerHour = 2
  Std = 4
  Shift = 4
  Summer <- MCSummer
  Instants <- MCInstants
  Offsets <- MCOffsets
  ReadsSummer = TRUE
  ReadsForeign = FALSE
  FormatsWest = FALSE
INVARIANTS KeepsInstant
CHECK_DEADLOCK FALSE
