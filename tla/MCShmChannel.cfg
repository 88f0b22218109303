CONSTANTS
  Lens <- MCLens
  HeadLen = 2
  Size = 5
  PipeCap = 2
  TrashLen = 2
  PullMax = 2
  MaxCalls = 3
  MaxFaults = 1
  NoBlock = noblock
  NoCall = nocall
SPECIFICATION FairSpec
INVARIANTS InOrder ReportsTruly EveryBlockWakes
PROPERTY Delivered
