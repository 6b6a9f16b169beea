SPECIFICATION FairSpec
CONSTANTS
  i1 = i1
  i2 = i2
  i3 = i3
  j1 = j1
  j2 = j2
  NoInstance = NoInstance
  Instances = {i1, i2}
  ReconInstances = {i1, i2}
  ResultInstances = {}
  Jobs = {j1}
  HiddenJobs = {}
  DetachedJobs = {j1}
  InputJobs = {j1}
  ProjectJobs = {j1}
  Reports <- MCReportsWithViolation
  MaxSeq = 2
  MaxStops = 2
  MaxFence = 1
  QueueLimit = 2
  MaxRetired = 1
  PassCap = 1
  OnlineWindow = 1
  Grace = 2
  Retention = 2
INVARIANTS
  TypeOK
  LeaseOwnsActiveJobs
  NotStartedWasNotSeenToStart
PROPERTIES
  TerminalIsFinal
  FencedProjectNotDispatched
  RecoveryEnds
