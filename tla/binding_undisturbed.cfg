SPECIFICATION UndisturbedSpec
CONSTANTS
  NoWorker = NoWorker
  NoKey = NoKey
  Workers = {w1, w2}
  ChecksAck = {w1}
  Endpoints = {shop}
  Keys = {}
  Kinds = {paid, odd}
  HandledKinds = {paid}
  MaxEvents = 1
  MaxDeliveries = 1
  MaxJobs = 3
  MaxPrunes = 1
  MaxAttempts = 2
  MaxFaults = 1
INVARIANTS
  UnfinishedIsQueued
  FinishedIsNotQueued
  CommitsArePaidFor
PROPERTIES
  UndisturbedLifecycle
  UndisturbedSettled
  EventuallySettled
\* All ids used up and every event settled: nothing is left to do.
CHECK_DEADLOCK FALSE
