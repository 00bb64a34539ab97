\* Two devices, room for one request-ID bucket.
CONSTANTS
  Device = {d1, d2}
  NoDevice = NoDevice
  Code = {c1}
  RequestId = {r1, r2}
  Capability = {shell}
  HostKeys = {k1}
  MaxOwnerReplayIDs = 1
  MaxDeviceReplayIDs = 1
  MaxReplayBuckets = 1
  PendingLimit = 1
  MaxShellBindings = 1
  MaxFailedCodes = 1
  ActivationTTL = 2
  PollingInterval = 1
  ReplayRetention = 2
  FailedCodePeriod = 2
  MaxTime = 3
  MaxVersion = 3
  MaxInterval = 1
  MaxBindingVersion = 0
SPECIFICATION Spec
CHECK_DEADLOCK FALSE
INVARIANT SavedBucketsRestore
