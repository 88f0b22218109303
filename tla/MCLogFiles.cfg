CONSTANTS
  error = error
  debug = debug
  Levels <- MCLevels
  MaxFiles = 2
  LogSize = 1
  LogArchiveDays = 1
  LogRemoveDays = 2
  MaxSortDay = 1
  NoFile = nofile
  MaxDay = 4
  MaxLines = 5
  MaxRestarts = 1
  MaxFaults = 1
SPECIFICATION Spec
INVARIANTS LinesKept FilesBounded
PROPERTY OldestRecycled
SYMMETRY MCSymmetry
CHECK_DEADLOCK FALSE
