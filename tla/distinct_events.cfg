SPECIFICATION IngressSpec
CONSTANTS
  NoWorker = NoWorker
  NoKey = NoKey
  Workers = {}
  Endpoints = {hook}
  Keys <- AllIdentities
  Kinds = {any}
  MaxEvents = 2
  MaxDeliveries = 2
  MaxJobs = 2
  MaxPrunes = 0
  MaxAttempts = 2
  Receivers = {py, other}
  PythonReceivers = {py}
  Providers = {"clerk"}
  Objects = {o1}
  EventsPerObject = 2
  OldSecret = OldSecret
  NewSecret = NewSecret
  Tolerance = 1
  MaxTime = 2
  MaxSends = 2
INVARIANTS
  EventsKeptApart
CHECK_DEADLOCK FALSE
