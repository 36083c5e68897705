CONSTANTS
  Devices = {d1, d2}
  Requests = {q}
  Limit = 2
  MaxRetries = 2
  Allowed = {"link", "request", "device", "insert", "crash"}
  MaxEvents = 2
  N = 4
  Requested = 3
  DefaultWorkers = 2
SPECIFICATION MCSpec
INVARIANTS
  TypeOK
PROPERTIES
  VerdictMatchesResults
  StateIsReported
  ImplementsBatch
  RunReturns
