CONSTANTS
  N = 1
  HttpClients = {}
  RpcClients = {r1}
  InitCanFail = FALSE
  CreateFaults = {}
SPECIFICATION Spec
INVARIANT RpcUsesLiveDevices
CHECK_DEADLOCK FALSE
