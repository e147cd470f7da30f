SPECIFICATION LiveSpec
CONSTANTS
  p1 = p1
  p2 = p2
  c1 = c1
  c2 = c2
  o1 = o1
  None = None
  NoArtifact = NoArtifact
  NoClaim = NoClaim
  Process = {p1, p2}
  Call = {c1, c2}
  Op = {o1}
  Epoch = {1}
  Auth <- OneAuth
  AuthOp <- MCAuthOp
  AuthEpoch <- MCAuthEpoch
  Interactive <- MCInteractive
  CallProcess <- MCCallProcess
  Route = {"r1"}
  MaxRevision = 2
  MaxGeneration = 5
  MaxStart = 2
  Pausing = {2}
INVARIANTS
  MutualExclusion
  AppliedOnce
PROPERTIES
  GenerationFences
  SavedCommitIsSettled
