CONSTANTS
  NumProcs = 2
  Calls = {c1}
  NoPath = NoPath
  Default = Default
  Other = Other
  Confs <- MCConfs
  MaxCrashes = 1
  MaxFaults = 1
SPECIFICATION FairSpec
INVARIANTS
  TypeOK
  ServerOutlivesUsers
  CallbackPossible
  NothingLeftBehind
PROPERTY ShutdownEnds
CHECK_DEADLOCK FALSE
