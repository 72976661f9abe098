SPECIFICATION TimersSpec
CONSTANTS
  NoWorker = NoWorker
  Workers = {p1, p2}
  Stoppable = {p1, p2}
  MaxJobs = 2
  BatchSize = 1
  MaxFaults = 2
INVARIANTS
  NoDuplicateRuns
\* All intervals over: nothing is left to do.
CHECK_DEADLOCK FALSE
