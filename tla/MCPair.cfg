SPECIFICATION Spec
CONSTANTS
  i1 = i1
  i2 = i2
  i3 = i3
  j1 = j1
  j2 = j2
  NoInstance = NoInstance
  Instances = {i1, i2}
  ReconInstances = {i1, i2}
  ResultInstances = {}
  Jobs = {j1, j2}
  HiddenJobs = {j1}
  DetachedJobs = {}
  InputJobs = {}
  ProjectJobs = {}
  Reports <- MCSmallReports
  MaxSeq = 1
  MaxStops = 1
  MaxFence = 1
  QueueLimit = 1
  MaxRetired = 1
  PassCap = 1
  OnlineWindow = 1
  Grace = 1
  Retention = 1
SYMMETRY MCSymmetry
INVARIANTS
  RegistryInv
  QueueIsDispatchable
PROPERTIES
  StartHandedOnce
