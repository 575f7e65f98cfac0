SPECIFICATION PipelineFairSpec
CONSTANTS
  Process = {i1, i2}
  Worker = {w1, w2}
  ProcessOf <- OneEach
  Partition = {p1}
  Notification = {n1}
  PartitionOf <- OneUser
  MaxRetries = 0
  MaxOffset = 1
  Budget <- PipelineBudget
  Poison = Poison
  NoEvent = NoEvent
  NoProcess = NoProcess
INVARIANTS
  PipelineTypeOK
  AcceptedIsInTopic
PROPERTIES
  EventHandled
  StopCompletes
  PendingResolves
  ImplementsPool
