SPECIFICATION Spec
CONSTANTS
  Absent = Absent
  NoOwner = NoOwner
  seed = seed
  c1 = c1
  c2 = c2
  c3 = c3
  Client = {c1, c2, c3}
  Entries = 3
  Seed = seed
  Lacking <- MCLacking
  MaxFaults = 3
  Beyond = FALSE
SYMMETRY Clients
INVARIANTS
  TypeOK
  AggregateKept
PROPERTIES
  ImplementsRegister
CHECK_DEADLOCK FALSE
