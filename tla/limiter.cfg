SPECIFICATION Spec
CONSTANTS
  Client = {c1, c2}
  Limits = {0, 1, 2}
  Window = 3
  MaxCount = 4
  MaxFaults = 1
SYMMETRY Symmetry
INVARIANTS
  TypeOK
  SlidingBound
  PauseUnblocks
  RejectionJustified
