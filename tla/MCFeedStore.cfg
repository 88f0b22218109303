CONSTANTS
  u1 = u1
  u2 = u2
  g1 = g1
  g2 = g2
  Users <- MCUsers
  Groups <- MCGroups
  Times <- MCTimes
  Scripts <- MCScripts
  w1 = w1
  w2 = w2
  Workers <- MCWorkers
  NoGroup = nogroup
  NoUser = nouser
  Idle = idle
  MaxFaults = 1
SPECIFICATION Spec
INVARIANTS OkStands LeavesGroup RelationTells
SYMMETRY MCSymmetry
CHECK_DEADLOCK FALSE
