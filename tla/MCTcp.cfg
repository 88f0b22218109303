CONSTANTS
  BufLen = 2
  Limit = 2
  Lens <- MCLens
  MaxLen = 3
  MaxPkgs = 4
  HeadLen = 2
  BufSize = 3
  MaxPkgLen = 5
  LensRecv <- MCLensRecv
  MaxRecv = 3
  MaxBoth = 3
  Fds = {0, 1}
  MaxList = 2
  MaxLinks = 2
  MaxLinkPkgs = 2
  MaxFaults = 1
SPECIFICATION TcpSpec
INVARIANTS PackagesIntact RoomToRecv StreamIntact ListBounded NoEmptySlot
PROPERTIES EveryPackageHandedOn AllSent CallbacksOrdered Released
CHECK_DEADLOCK FALSE
