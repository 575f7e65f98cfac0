SPECIFICATION Spec
CONSTANTS
  User = {u1}
  Request = {r1, r2}
  AccessTTL = 2
  ProfileTTL = 2
  MaxLag = 1
  MaxChanges = 2
  Miss = Miss
SYMMETRY Symmetry
INVARIANTS
  TypeOK
  AdminWasAdmin
  IssuedRoleIsCurrent
  ProfileRecent
