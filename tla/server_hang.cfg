CONSTANTS
  NumProcs = 1
  Calls = {c1}
  NoPath = NoPath
  Default = Default
  Other = Other
  Confs <- OneConf
  MaxCrashes = 0
  MaxFaults = 0
SPECIFICATION FairSpec
PROPERTY StopAlwaysWakes
CHECK_DEADLOCK FALSE
