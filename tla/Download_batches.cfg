\* Two batches of one or two objects, with five requests in all.
CONSTANTS
  \* model values
  w1 = w1
  w2 = w2
  nojob = nojob
  Worker = {w1, w2}
  NoJob = nojob
  \* bounds
  MaxJobs = 5
  MaxEntry = 2
  MaxBatches = 2
SPECIFICATION FairSpec
INVARIANTS
  TypeOK
  AnswersAreCurrent
  BatchNeverStalls
  NoRequestForgotten
PROPERTIES
  EveryBatchEnds
CHECK_DEADLOCK FALSE
