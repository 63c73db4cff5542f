CONSTANTS
  NumTwins = 1
  TwinOne = "writable"
  Names <- MCNames
  Values <- MCValues
  Atoi <- MCAtoi
  Readings <- MCReadings
  Kind <- MCKind
  Handlers = {h1}
  Requests <- FewRequests
  MaxWork = 4
  ForceModes <- Never
  MaxFaults = 0
  CanTimeout = FALSE
SPECIFICATION Spec
INVARIANT SettledMeansWritten
