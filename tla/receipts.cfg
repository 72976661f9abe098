SPECIFICATION IngressSpec
CONSTANTS
  NoWorker = NoWorker
  NoKey = NoKey
  Workers = {}
  Endpoints = {hook}
  Keys <- AllIdentities
  Kinds = {any}
  MaxEvents = 2
  MaxDeliveries = 3
  MaxJobs = 2
  MaxPrunes = 0
  MaxAttempts = 2
  Receivers = {py, other}
  PythonReceivers = {py}
  Providers <- AllProviders
  Objects = {o1}
  EventsPerObject = 2
  OldSecret = OldSecret
  NewSecret = NewSecret
  Tolerance = 1
  MaxTime = 2
  MaxSends = 3
INVARIANTS
  IngressTypeOK
  RotationLosesNothing
  BindingsAgree
  RetriesConverge
\* All requests sent and all delivery ids used up: nothing is left to do.
CHECK_DEADLOCK FALSE
