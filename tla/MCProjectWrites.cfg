SPECIFICATION LiveSpec
CONSTANTS
  a = a
  b = b
  NoKey = NoKey
  NoLock = NoLock
  None = None
  Client = {a, b}
  Request = {"read", "create", "create other", "propose", "propose garbled"}
  Asks <- MCAsks
  Kind <- MCKind
  KeyOf <- MCKeyOf
  Garbled = {"propose garbled"}
  MaxCalls <- MCMaxCalls
INVARIANTS
  TypeOK
  ViewNeverBlocks
PROPERTIES
  ImplementsLedger
  ViewCatchesUp
CHECK_DEADLOCK FALSE
