SPECIFICATION Spec
CONSTANTS
  Absent = Absent
  NoOwner = NoOwner
  seed = seed
  c1 = c1
  c2 = c2
  c3 = c3
  Client = {c1, c2}
  Entries = 3
  Seed = seed
  Lacking <- MCLacking
  MaxFaults = 0
  Beyond = TRUE
CHECK_DEADLOCK FALSE
INVARIANTS
  SettledIsWhole
