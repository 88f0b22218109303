CONSTANTS
  Size = 6
  HeadLen = 2
  Ids = {a, b}
  Lens <- MCLens
  PullLen = 1
  NoId = noid
SPECIFICATION Spec
INVARIANTS IInv
PROPERTY ImplementsFifo
