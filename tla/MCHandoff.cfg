SPECIFICATION Spec
CONSTANTS
  i1 = i1
  i2 = i2
  i3 = i3
  j1 = j1
  j2 = j2
  NoInstance = NoInstance
  Instances = {i1, i2, i3}
  ReconInstances = {i1}
  ResultInstances = {i1, i2}
  Jobs = {j1}
  HiddenJobs = {j1}
  DetachedJobs = {}
  InputJobs = {}
  ProjectJobs = {}
  Reports <- MCReportsWithViolation
  MaxSeq = 2
  MaxStops = 1
  MaxFence = 1
  QueueLimit = 2
  MaxRetired = 2
  PassCap = 1
  OnlineWindow = 1
  Grace = 2
  Retention = 2
INVARIANTS
  RetiredNeverHoldsLease
PROPERTIES
  ProjectedResultStaysGone
