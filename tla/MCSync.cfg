SPECIFICATION Spec
CONSTANTS
  i1 = i1
  i2 = i2
  r1 = r1
  r2 = r2
  r3 = r3
  NoInstance = NoInstance
  Instances = {i1, i2}
  Reqs = {r1, r2, r3}
  FencedReqs = {r1}
  ComputerReqs = {r1}
  GatewayReqs = {r2}
  PersistentReqs = {r3}
  QueueLimit = 2
INVARIANTS
  TypeOK
  SyncInv
  NotStartedNeverSent
  SentToAdmittedProcess
  NoParkedCaller
PROPERTIES
  ImplementsRunnerCall
