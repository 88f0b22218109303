CONSTANTS
  Fds = {f1}
  WorkNum = 2
  RingCap = 1
  IntMax = 7
  MaxConns = 2
  MaxReqs = 2
  MaxCloses = 0
  MaxChanges = 0
  MaxConnKills = 1
  MaxWorkKills = 0
  MaxEvents = 5
  NoHandler = nohandler
  NoBlock = noblock
  NoNote = nonote
SPECIFICATION Spec
INVARIANT RepliesToAsker
