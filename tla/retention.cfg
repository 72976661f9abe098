SPECIFICATION FairSpec
CONSTANTS
  NoWorker = NoWorker
  Workers = {p1, p2}
  Stoppable = {p1, p2}
  MaxJobs = 2
  BatchSize = 1
  MaxFaults = 2
INVARIANTS
  RetentionTypeOK
  NoDuplicateRuns
  LostPassesAreSeen
PROPERTIES
  NoOrphanScheduler
  IntervalsServed
\* All intervals served and all calls ended: nothing is left to do.
CHECK_DEADLOCK FALSE
