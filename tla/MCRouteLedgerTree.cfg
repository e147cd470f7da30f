SPECIFICATION Spec
CONSTANTS
  Null = Null
  MaxVersion = 3
  MaxTodo = 0
  MaxDeferred = 1
  MaxBatch = 2
INVARIANTS
  RouteIsReadable
  CurrentIsMarked
  SavesAreValid
PROPERTIES
  ImplementsForest
  DeferredStaysAhead
