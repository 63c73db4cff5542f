CONSTANTS
  N = 1
  HttpClients = {}
  RpcClients = {}
  InitCanFail = FALSE
  CreateFaults = {}
SPECIFICATION FairSpec
PROPERTY GracefulShutdown
CHECK_DEADLOCK FALSE
