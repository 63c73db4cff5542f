CONSTANTS
  DataThreads = {d1, d2}
  RpcTasks = {}
  Methods <- OnlyHttp
  Retries <- OneAttempt
  WaitLimit = 1
  MaxPushes = 2
  MaxFaults = 0
SPECIFICATION Spec
INVARIANTS
  SuccessMeansSent
