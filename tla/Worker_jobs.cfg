\* The two threads of the worker, and three jobs.
CONSTANTS
  \* model values
  w1 = w1
  w2 = w2
  nojob = nojob
  Worker = {w1, w2}
  NoJob = nojob
  \* bound
  MaxJobs = 3
SPECIFICATION FairSpec
INVARIANTS
  TypeOK
  NothingLost
  OnceEach
PROPERTIES
  EveryJobEnds
  ShutdownReturns
\* the worker stops for good
CHECK_DEADLOCK FALSE
