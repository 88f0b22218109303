CONSTANTS
  Requests <- MCRequests
  Answers <- MCAnswers
  MaxDepth = 2
  Discard = 6
  ReadMax = 5
  IntMax = 2
  LlongMax = 11
  Addrs = 2
  MaxRequests = 2
  MaxFaults = 2
SPECIFICATION FairSpec
INVARIANTS RepliesInOrder IdleInStep ExecutedOnce
PROPERTIES FailedGivesNothing Recovers
CHECK_DEADLOCK FALSE
