SPECIFICATION Spec
CONSTANTS
  p1 = p1
  p2 = p2
  c1 = c1
  c2 = c2
  o1 = o1
  None = None
  NoArtifact = NoArtifact
  NoClaim = NoClaim
  Process = {p1, p2}
  Call = {c1, c2}
  Op = {o1}
  Epoch = {1, 2}
  Auth <- OneAuth
  AuthOp <- MCAuthOp
  AuthEpoch <- MCAuthEpoch
  Interactive <- MCInteractive
  CallProcess <- MCCallProcess
  Route = {"r1", "r2"}
  MaxRevision = 2
  MaxGeneration = 2
  MaxStart = 1
  Pausing = {1, 2}
SYMMETRY SwapCalls
INVARIANTS
  TypeOK
  ReceiptBacksCommit
PROPERTIES
  CommitsApprovedRoute
  DecisionsAreFinal
  ImplementsDecision
