SPECIFICATION HSpec
CONSTANTS
  NoWorker = NoWorker
  NoKey = NoKey
  Workers = {w1}
  Endpoints = {shop}
  Keys = {}
  Kinds = {paid}
  HandledKinds = {paid}
  MaxEvents = 1
  MaxDeliveries = 1
  MaxJobs = 1
  MaxPrunes = 0
  MaxAttempts = 2
  BatchSize = 1
  MaxFaults = 0
INVARIANTS
  IgnoredNeverRuns
\* All ids used up and every event settled: nothing is left to do.
CHECK_DEADLOCK FALSE
