SPECIFICATION LiveSpec
CONSTANTS
  p1 = p1
  p2 = p2
  c1 = c1
  c2 = c2
  o1 = o1
  None = None
  NoArtifact = NoArtifact
  NoClaim = NoClaim
  Process = {p1}
  Call = {c1}
  Op = {o1}
  Epoch = {1, 2}
  Auth <- TwoEpochs
  AuthOp <- MCAuthOp
  AuthEpoch <- MCAuthEpoch
  Interactive <- MCInteractive
  CallProcess <- MCCallProcess
  Route = {"r1"}
  MaxRevision = 2
  MaxGeneration = 3
  MaxStart = 2
  Pausing = {}
PROPERTIES
  SavedCommitIsSettled
