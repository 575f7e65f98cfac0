SPECIFICATION Spec
CONSTANTS
  lower = lower
  mixed = mixed
  Request = {r1, r2}
  Typed = {lower, mixed}
  Canonical <- OnePerson
  Token = {t1, t2, t3, t4}
  MaxFaults = 2
  Nobody = Nobody
  NoToken = NoToken
SYMMETRY Symmetry
INVARIANTS
  TypeOK
  OneAccountPerPerson
  RegisteredCanLogIn
  EndedStaysEnded
  IssuedIsStored
