SPECIFICATION Spec
CONSTANTS
  p1 = p1
  p2 = p2
  p3 = p3
  t1 = t1
  t2 = t2
  t3 = t3
  Absent = Absent
  NoLock = NoLock
  Process = {p1, p2, p3}
  Txn = {t1, t2, t3}
  TxnProcess <- MCTxnProcess
  Mortal = {p1}
  Reused = {}
  LateBeats = FALSE
  FileExists = TRUE
PROPERTIES
  WritesStay
