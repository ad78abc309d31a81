CONSTANTS
  FileIntervals <- MCFileIntervals
  Modes = {"production", "development"}
SPECIFICATION Spec
INVARIANTS TypeOK RoundLastsInterval PausesGrow
CHECK_DEADLOCK FALSE
