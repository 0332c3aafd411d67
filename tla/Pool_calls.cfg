\* One producer and one batcher share two workers until the pool is destroyed.
CONSTANTS
  \* model values
  w1 = w1
  w2 = w2
  p1 = p1
  b1 = b1
  owner = owner
  batch = batch
  none = none
  Worker = {w1, w2}
  Producer = {p1}
  Batcher = {b1}
  Owner = owner
  Batch = batch
  None = none
  Loop <- Loops
  Priority <- BatchLast
  MayThrow = TRUE
  \* bounds
  MaxCalls = 1
  MaxTasks = 2
SPECIFICATION FairSpec
INVARIANTS
  TypeOK
  NoIndexTwice
  EveryIndexRuns
  ErrorsStayAtHome
  NothingLeftAtStop
  CapturesOutliveTasks
PROPERTIES
  EveryCallReturns
