SPECIFICATION Spec
CONSTANTS
  Session = {s1}
  Reader = {s1}
  User = {u1}
  UserOf <- OneUser
  Notification = {n1, n2}
  OwnerOf <- OneOwner
  RawLimits <- OddLimit
  DefaultLimit = 1
  MaxLimit = 3
  KnownLimits = {1, 3}
  TTL = 2
  MaxFaults = 0
  NoNotification = NoNotification
  Miss = Miss
SYMMETRY Symmetry
INVARIANT
  ReadYourWrites
