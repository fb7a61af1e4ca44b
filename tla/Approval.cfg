SPECIFICATION ApprovalSpec
CONSTANTS
  Keys = {k1, k2}
  Runs = {r1, r2}
  Calls = {c1, c2}
  MaxRequests = 2
  MaxPlanned = 1
  MaxPending = 1
  GrantTTL = 1
  ReapTTL = 1
  MaxTime = 2
  MaxFailures = 1
  Directories = {1, 2}
  NoDevice = NoDevice
  PlanIDs = {pl1}
  Requests = {r1, r2}
  c1 = a1
  c2 = a2
  c3 = a3
  Submissions = {c1, c2}
  Deciders = {op}
  MaxPendingApprovals = 2
  Commands = {a3}
  CommandLists <- MCCommandLists
SYMMETRY Symmetry
INVARIANTS OnceIsOnce GrantAudited IdsUnambiguous StoppedOnlyByRuns
PROPERTIES OnceGrantKept DecidedStaysDecided
CHECK_DEADLOCK FALSE
