\* Each backend service on its own instance: safety, fencing, the end of a drain.
SPECIFICATION MCSpec
CONSTANTS
  node1 = node1
  node2 = node2
  node3 = node3
  meta1 = meta1
  meta2 = meta2
  job1 = job1
  Worker = {node1, node2}
  Work = {meta1, meta2}
  None = None
  Ttl = 1
  Threshold = 1
  MaxClock = 4
  MaxToken = 3
  Job = {job1}
  JobOf <- MCJobOf
  Ranged = {meta1, meta2}
  MaxAttempts = 2
  Call = {c1, c2}
  Deliverer = {node1, node2, node3}
  Holder = {node1, node2, node3}
  LockTtl = 2
  DrainCall = {node1, node2, node3}
  MaxInFlight = 2
  Delivery = {node1, node2}
  DeliveryAttempts = 2
  FailureThreshold = 2
  SignatureThreshold = 2
  Admin = {node1, node2, node3}
  NoAdmin = NoAdmin
  MinimumAdmins = 2
  Required = {3}
  RotationCall = {c1, c2}
  Identity = {node1, node2}
  Change = {c1, c2, c3}
  Publisher = {node1, node2, node3}
  Aggregate = {meta1, meta2}
  MaxBatch = 2
INVARIANTS BackendTypeOK NoJobLost OneOutcome LockExclusive StatusIsEarned ExecutedWithQuorum
  FourEyes PublishedInOrder EndUnderWay
PROPERTIES LeaseFenced StoppedDrainEnds
CHECK_DEADLOCK FALSE
