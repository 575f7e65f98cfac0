SPECIFICATION Spec
CONSTANTS
  Session = {s1, s2}
  Reader = {s1}
  User = {u1}
  UserOf <- OneUser
  Notification = {n1, n2}
  OwnerOf <- OneOwner
  RawLimits <- SomeLimits
  DefaultLimit = 1
  MaxLimit = 2
  KnownLimits = {1, 2}
  TTL = 2
  MaxFaults = 2
  NoNotification = NoNotification
  Miss = Miss
SYMMETRY Symmetry
INVARIANTS
  TypeOK
  AcceptedIsQueued
  ReadYourWrites
  ListIsSnapshot
  HitAgeBounded
