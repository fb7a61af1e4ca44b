SPECIFICATION Spec
CONSTANTS
  Devices = {d1}
  RunIDs = {r1, r2}
  Requests = {q1}
  NoRequest = NoRequest
  Handlers = {h1, h2}
  Nonces = {1, 2}
  MaxConcurrent = 1
  RunRecords = 2
  QuotaBytes = 1
  RunMaxBytes = 2
  Retention = 1
  ExecTimeout = 1
  IdempotencyWindow = 1
  CancelTombstoneTTL = 1
  OrphanAge = 1
  SweepEvery = 1
  RecordWritesFail = TRUE
  MaxTime = 3
  MaxCrashes = 1
SYMMETRY Symmetry
INVARIANTS SlotsMatchLive CountMatchesDisk LiveRunIntact QuotaHolds
PROPERTY OutputLossJustified
