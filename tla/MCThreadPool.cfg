SPECIFICATION FairSpec
CONSTANTS
  w1 = w1
  w2 = w2
  Workers <- TwoWorkers
  MaxJobs = 3
  Nobody = Nobody
INVARIANTS
  EachJobOnce
  DropRunsEverything
PROPERTIES
  ImplementsJobPool
  EveryWaitEnds
\* The pool may be joined, every future consumed: nothing is left to do.
CHECK_DEADLOCK FALSE
