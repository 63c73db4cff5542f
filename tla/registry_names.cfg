CONSTANTS
  Replies <- DottedReplies
  Urls <- DottedUrls
  Targets <- NoTargets
  Overlong = {}
  Cut <- NoCut
  InitialCapacity = 10
  MayFail = {}
  MaxFaults = 1
  MaxRequests = 1
SPECIFICATION Spec
INVARIANT RightDevice
