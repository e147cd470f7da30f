SPECIFICATION Spec
CONSTANTS
  Null = Null
  MaxVersion = 2
  MaxTodo = 2
  MaxDeferred = 1
  MaxBatch = 2
INVARIANTS
  TypeOK
  LineageIsSound
  SavesAreValid
  AdviceIsAccepted
  LegalOperationsAreExact
PROPERTIES
  AdviceDescends
  AdviceSettles
  GuideAdvances
  GuideArrives
