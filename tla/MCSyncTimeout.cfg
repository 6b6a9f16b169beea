SPECIFICATION Spec
CONSTANTS
  i1 = i1
  i2 = i2
  r1 = r1
  r2 = r2
  r3 = r3
  NoInstance = NoInstance
  Instances = {i1, i2}
  Reqs = {r1}
  FencedReqs = {}
  ComputerReqs = {}
  GatewayReqs = {}
  PersistentReqs = {r1}
  QueueLimit = 2
INVARIANTS
  NotAcceptedNeverSent
