SPECIFICATION SoloSpec
CONSTANTS
  NoWorker = NoWorker
  NoKey = NoKey
  Workers = {w1, w2}
  ChecksAck = {w1, w2}
  Endpoints = {shop}
  Keys = {}
  Kinds = {paid}
  HandledKinds = {paid}
  MaxEvents = 1
  MaxDeliveries = 1
  MaxJobs = 2
  MaxPrunes = 1
  MaxAttempts = 2
  MaxFaults = 1
  Callers = {o1}
SYMMETRY Symmetry
INVARIANTS
  BindingTypeOK
  OneLiveJob
  ReceivedWaits
  CommitsArePaidFor
\* All ids used up and every event settled: nothing is left to do.
CHECK_DEADLOCK FALSE
