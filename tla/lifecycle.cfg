SPECIFICATION FairSpec
CONSTANTS
  NoWorker = NoWorker
  NoKey = NoKey
  Workers = {w1, w2}
  Endpoints = {shop}
  Keys = {}
  Kinds = {paid, other}
  HandledKinds = {paid}
  MaxEvents = 2
  MaxDeliveries = 2
  MaxJobs = 2
  MaxPrunes = 0
  MaxAttempts = 2
  BatchSize = 2
  MaxFaults = 1
INVARIANTS
  TypeOK
  CommitsArePaidFor
  OneLiveJob
  UnfinishedIsQueued
  AttemptBudget
  ColumnsAgree
PROPERTIES
  ImplementsLifecycle
  SettledUntilOperator
  EventuallySettled
\* All ids used up and every event settled: nothing is left to do.
CHECK_DEADLOCK FALSE
