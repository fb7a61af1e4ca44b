SPECIFICATION RunsFairSpec
CONSTANTS
  Limit = 9
  ResponseReserve = 2
  FinalReserve = 1
  MaxMessage = 6
  DataSizes = {1, 3}
  WholeSizes = {2, 4, 7}
  StrippedSizes = {2, 3}
  MinimalSizes = {1, 2}
  FinalSizes = {1}
  Readers = {c1}
  MaxTargets = 5
  MaxFrames = 6
  WritesFail = TRUE
  RunDevices = {d1}
  Identities = {i1}
  Runs = {r1}
  WindowLengths = {1, 2}
  LastTime = 3
  MaxErrors = 1
  Devices = {d1}
  Procs = {p1, p2}
  Serve = serve
  Durations = {1, 3}
  MaxTime = 5
  MaxFailures = 1
INVARIANTS EventsKept NeverRefused LossTold StreamComplete
PROPERTIES WindowJustified EndsPublished StreamsEnd LostRunsEnd
CHECK_DEADLOCK FALSE
