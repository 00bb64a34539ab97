\* Device lifecycle and limits under failed saves and crashes.  The request-ID
\* windows are empty: every request may come again at any time.
CONSTANTS
  Device = {d1, d2, d3}
  NoDevice = NoDevice
  Code = {c1, c2}
  RequestId = {r1}
  Capability = {shell}
  HostKeys = {k1}
  MaxOwnerReplayIDs = 0
  MaxDeviceReplayIDs = 0
  MaxReplayBuckets = 2
  PendingLimit = 2
  MaxShellBindings = 1
  MaxFailedCodes = 1
  ActivationTTL = 2
  PollingInterval = 1
  ReplayRetention = 2
  FailedCodePeriod = 2
  MaxTime = 3
  MaxVersion = 3
  MaxInterval = 2
  MaxBindingVersion = 1
SPECIFICATION Spec
SYMMETRY Symmetry
CHECK_DEADLOCK FALSE
INVARIANT TypeOK
INVARIANT MemoryIsDurable
INVARIANT ActivationsAwaitInactiveDevices
INVARIANT OverlayAgreesWithPayload
INVARIANT SavedContentRestores
PROPERTY ImplementsAuthority
