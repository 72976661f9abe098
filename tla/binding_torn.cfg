SPECIFICATION ReplaySpec
CONSTANTS
  NoWorker = NoWorker
  NoKey = NoKey
  Workers = {w1}
  ChecksAck = {w1}
  Endpoints = {shop}
  Keys = {}
  Kinds = {paid}
  HandledKinds = {paid}
  MaxEvents = 1
  MaxDeliveries = 1
  MaxJobs = 1
  MaxPrunes = 0
  MaxAttempts = 2
  MaxFaults = 1
  Callers = {o1}
INVARIANTS
  ReceivedWaits
\* All ids used up and every event settled: nothing is left to do.
CHECK_DEADLOCK FALSE
