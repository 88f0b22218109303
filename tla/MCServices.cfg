CONSTANTS
  Services <- MCServicesSet
  SyncServices = {4}
  Forbidden = {6}
  Replicas <- MCReplicas
  Groups <- MCGroups
  Children <- MCChildren
  Strategy <- MCStrategy
  Successor <- MCSuccessor
  Fds = {0, 1, 2}
  Seeds = {0, 99}
  MaxFaults = 3
SPECIFICATION FairSpec
INVARIANTS EnabledByChild EnabledOrRetried LinksOwned RollFair NoLateAnswer
PROPERTY AllBack
