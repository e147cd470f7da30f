SPECIFICATION Spec
CONSTANTS
  Null = Null
  MaxVersion = 3
  MaxTodo = 0
  MaxDeferred = 0
  MaxBatch = 2
PROPERTIES
  ClosedHistoryStays
