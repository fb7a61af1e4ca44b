SPECIFICATION GatewaySpec
CONSTANTS
  Devices = {d1}
  Grants = {g1}
  NoGrant = NoGrant
  Calls = {x1, x2}
  Durations = {2}
  CodeLifetime = 1
  AccessLifetime = 1
  RefreshLifetime = 2
  MaxTokens = 5
  MaxTime = 3
  MaxFailures = 1
  RunDevices = {d1}
  Identities = {i1}
  Runs = {x1, x2}
  WindowLengths = {1}
  LastTime = 2
  MaxErrors = 1
  Accounts = {op}
  Addresses = {ad}
  Visits = {x1, x2}
  PasswordChecks = 1
  AccountFailures = 2
  AddressFailures = 2
  LoginWindow = 1
  PasswordTTL = 1
  SessionTTL = 3
  SessionIdle = 1
  MaxSessions = 2
  MaxKeys = 2
  Near = {1}
  MaxAttempts = 2
  LastStep = 3
SYMMETRY Symmetry
INVARIANTS RedeemedOnce ReuseEndsGrant UploadStands StandingEnforced SecondFactorHolds
PROPERTY NoneAfterRevocation
CHECK_DEADLOCK FALSE
