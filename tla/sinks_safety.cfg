CONSTANTS
  DataThreads = {d1}
  RpcTasks = {r1}
  Methods <- EveryMethod
  Retries <- FewRetries
  WaitLimit = 2
  MaxPushes = 3
  MaxFaults = 2
SPECIFICATION FairSpec
INVARIANTS
  TypeOK
  HandlesOutliveUsers
  ResultsAreTrue
  CopiesBounded
  SendsWhenAccepted
PROPERTIES
  PublicationsEnd
