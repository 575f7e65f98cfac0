SPECIFICATION Spec
CONSTANTS
  Process = {i1}
  Worker = {w1}
  ProcessOf <- OneEach
  Partition = {p1}
  Notification = {n1}
  PartitionOf <- OneUser
  MaxRetries = 1
  MaxOffset = 2
  Budget <- OneStop
  Poison = Poison
  NoEvent = NoEvent
  NoProcess = NoProcess
INVARIANT
  FailedMeansExhausted
