SPECIFICATION Spec
CONSTANTS
  Client = {c1}
  Limits = {0, 1, 2}
  Window = 3
  MaxCount = 4
  MaxFaults = 0
INVARIANT
  FixedWindow
