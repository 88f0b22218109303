CONSTANTS
  Lens <- MCLens
  HeadLen = 2
  Size = 5
  PipeCap = 1
  TrashLen = 1
  PullMax = 1
  MaxCalls = 3
  MaxFaults = 0
  NoBlock = noblock
  NoCall = nocall
SPECIFICATION FairSpec
PROPERTY Delivered
