SPECIFICATION Spec
CONSTANTS
  Process = {i1}
  Worker = {w1, w2}
  ProcessOf <- OnePool
  Partition = {p1}
  Notification = {n1, n2}
  PartitionOf <- OneUser
  MaxRetries = 0
  MaxOffset = 2
  Budget <- NoFaults
  Poison = Poison
  NoEvent = NoEvent
  NoProcess = NoProcess
INVARIANT
  CommittedPersisted
