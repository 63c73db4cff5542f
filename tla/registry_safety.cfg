CONSTANTS
  Replies <- PlainReplies
  Urls <- PlainUrls
  Targets <- PlainTargets
  Overlong <- LongOnes
  Cut <- CutLong
  InitialCapacity = 1
  MayFail = {"register", "decode", "create", "realloc", "thread"}
  MaxFaults = 2
  MaxRequests = 2
SPECIFICATION FairSpec
INVARIANTS
  TypeOK
  
  
  WritesOnceStarted
  MethodsOfDevice
  RightDevice
PROPERTIES
  ImplementsDirectory
  LookupsEnd
