CONSTANTS
  N = 2
  HttpClients = {h1}
  RpcClients = {r1}
  InitCanFail = TRUE
  CreateFaults = {"clean"}
SPECIFICATION FairSpec
INVARIANTS
  TypeOK
  DataThreadReleasesMutex
  FlagsAgree
  NoWorkerOnFreedDevice
  
PROPERTIES
  StatusReadersSafe
  ShutdownAfterStartup
CHECK_DEADLOCK FALSE
