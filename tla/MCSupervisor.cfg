CONSTANTS
  WorkNum = 2
  MaxCrashes = 3
SPECIFICATION SupervisorFairSpec
INVARIANTS KnowsItsChildren
PROPERTIES StopEnds Serving
CHECK_DEADLOCK FALSE
