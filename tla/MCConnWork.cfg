CONSTANTS
  Fds = {f1}
  WorkNum = 2
  RingCap = 1
  IntMax = 7
  MaxConns = 3
  MaxReqs = 2
  MaxCloses = 1
  MaxChanges = 1
  MaxConnKills = 1
  MaxWorkKills = 1
  MaxEvents = 5
  NoHandler = nohandler
  NoBlock = noblock
  NoNote = nonote
SPECIFICATION FairSpec
INVARIANTS RepliesToAskerUnlessRestarted AnsweredOnce FlagsFollow LinksPaired
PROPERTY RequestsAnswered
