SPECIFICATION Spec
CONSTANTS
  NoWorker = NoWorker
  NoKey = NoKey
  Workers = {w1}
  Endpoints = {shop, bank}
  Keys = {k1}
  Kinds = {paid}
  HandledKinds = {paid}
  MaxEvents = 2
  MaxDeliveries = 3
  MaxJobs = 2
  MaxPrunes = 1
  MaxAttempts = 1
  BatchSize = 1
  MaxFaults = 0
SYMMETRY Symmetry
INVARIANTS
  FinishedIsNotQueued
  ReplayTargetStored
  DeliveryLinkage
  DedupeConverges
  EventsKeepDeliveries
  AuditAccounts
PROPERTIES
  OnlyLostClaimsStopWorkers
\* All ids used up and every event settled: nothing is left to do.
CHECK_DEADLOCK FALSE
