SPECIFICATION ProcessesSpec
CONSTANTS
  Parts = {"plan"}
  o1 = o1
  Objects = {o1}
  Owners = {px, pl1}
  Retentions = {0, 1}
  Limit = 1
  MaxTime = 1
  MaxDeaths = 1
  Procs = {x1, x2}
  NSteps = 2
  Continuing = {1}
  Input <- MCInput
  NoInput = NoInput
  Exec = px
  Plans = {pl1}
  NoPlan = NoPlan
  Sessions = {x1, x2, x3}
  Entries = {x1, x2}
  NoEntry = NoEntry
  Appenders = {x1, x2, x3}
  Facts = {f1, f2}
  f1 = f1
  Repairs = {r1}
  Original = o
  Nobody = nobody
  MaxAlters = 1
  Openers = {oa}
  Handlers = {x1, x2}
  Proofs = {x1, x2}
  NoProof = np
  RequestLifetime = 1
  PruneEvery = 1
  CacheFreshness = 1
  BundleTTL = 2
  MaxVersion = 2
  LastTime = 2
  HomeOperators = {op}
  HomeCommands = {hc}
  Tokens = {x1, x2}
  DeviceKeys = {x1, x2}
  DeviceIds = {x1, x2}
  Absent = absent
  RunID = k
  StartWindow = 3
  RefusalWindow = 1
  ProofLifetime = 1
  ReattachTimeout = 1
  AttemptTime = 1
  Frames = 3
  MaxAttempts = 3
  LastHour = 6
  h1 = h1
  h2 = h2
  g = g
  p1 = p1
  c1 = c1
  c2 = c2
  Commands = {c1, c2}
  Hosts = {h1, h2}
  Presets = {p1}
  Priorities = {0, 1}
  Approved = approved
  Manual = manual
  Carriers <- MCCarriers
  Alphabet <- MCAlphabet
  Rulings <- MCRulings
  FirstStored <- MCFirst
  Pushed <- MCFirst
  Overlays <- MCOverlays
  Writers = {x1, x2}
  LastRevision <- MCLastRevision
SYMMETRY Symmetry
INVARIANT UnknownIsUnknown
CHECK_DEADLOCK FALSE
