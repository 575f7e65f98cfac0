SPECIFICATION Spec
CONSTANTS
  Process = {i1, i2}
  Worker = {w1, w2}
  ProcessOf <- OneEach
  Partition = {p1}
  Notification = {n1}
  PartitionOf <- OneUser
  MaxRetries = 0
  MaxOffset = 2
  Budget <- GroupBudget
  Poison = Poison
  NoEvent = NoEvent
  NoProcess = NoProcess
INVARIANTS
  CommittedPersisted
  DeliveredInOrder
