CONSTANTS
  NumTwins = 2
  TwinOne = "simulated"
  Names <- MCNames
  Values <- MCValues
  Atoi <- MCAtoi
  Readings <- MCReadings
  Kind <- MCKind
  Handlers = {h1}
  Requests <- ManyRequests
  MaxWork = 5
  ForceModes <- Both
  MaxFaults = 1
  CanTimeout = TRUE
SPECIFICATION FairSpec
INVARIANTS
  TypeOK
  
  QuietTwinIsPublished
  OkMeansReached
PROPERTIES
  TwinsConverge
  RequestsAnswered
