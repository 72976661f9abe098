SPECIFICATION FairSpec
CONSTANTS
  NoWorker = NoWorker
  Workers = {w1, w2}
  Stoppable = {w1}
  MaxJobs = 3
  BatchSize = 2
  MaxAttempts = 2
  MaxFaults = 1
INVARIANTS
  LoopTypeOK
  ClaimsKept
PROPERTIES
  NoClaimAfterEnd
  StopHonoured
  JobsSettle
\* All jobs settled and all calls ended: nothing is left to do.
CHECK_DEADLOCK FALSE
