SPECIFICATION FairSpec
CONSTANTS
  Devices = {d1}
  RunIDs = {r1, r2}
  Requests = {q1}
  NoRequest = NoRequest
  Handlers = {h1}
  Nonces = {1, 2}
  MaxConcurrent = 1
  RunRecords = 1
  QuotaBytes = 1
  RunMaxBytes = 1
  Retention = 1
  ExecTimeout = 1
  IdempotencyWindow = 2
  CancelTombstoneTTL = 1
  OrphanAge = 1
  SweepEvery = 1
  RecordWritesFail = TRUE
  MaxTime = 4
  MaxCrashes = 1
INVARIANTS ClaimRemembered TombstoneHolds
PROPERTIES ImplementsClaims SlotReleased
