SPECIFICATION Spec
CONSTANTS
  Process = {i1}
  Worker = {w1, w2}
  ProcessOf <- OnePool
  Partition = {p1}
  Notification = {n1, n2}
  PartitionOf <- OneUser
  MaxRetries = 1
  MaxOffset = 2
  Budget <- WorkersBudget
  Poison = Poison
  NoEvent = NoEvent
  NoProcess = NoProcess
SYMMETRY Symmetry
INVARIANTS
  TypeOK
  CommittedAccounted
  SentIsTruthful
  ShortFailureNeedsStop
  AcceptsBounded
  ReturnRecordsDeliveries
PROPERTIES
  ImplementsLifecycle
