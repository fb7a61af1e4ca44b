SPECIFICATION Spec
CONSTANTS
  Limit = 9
  ResponseReserve = 2
  FinalReserve = 1
  MaxMessage = 6
  DataSizes = {1}
  WholeSizes = {2}
  StrippedSizes = {2}
  MinimalSizes = {1}
  FinalSizes = {1}
  Readers = {c1}
  MaxTargets = 2
  MaxFrames = 3
  WritesFail = FALSE
INVARIANT PartialNeverPasses
CHECK_DEADLOCK FALSE
