\* What clients were told, and their request IDs, against failed saves, crashes
\* and restarts.  The Owner's window has room for all of his requests, a
\* device's for the last one only.
CONSTANTS
  Device = {d1, d2}
  NoDevice = NoDevice
  Code = {c1}
  RequestId = {r1, r2}
  Capability = {shell}
  HostKeys = {k1}
  MaxOwnerReplayIDs = 2
  MaxDeviceReplayIDs = 1
  MaxReplayBuckets = 2
  PendingLimit = 1
  MaxShellBindings = 1
  MaxFailedCodes = 1
  ActivationTTL = 1
  PollingInterval = 1
  ReplayRetention = 1
  FailedCodePeriod = 1
  MaxTime = 2
  MaxVersion = 4
  MaxInterval = 1
  MaxBindingVersion = 1
SPECIFICATION AuditSpec
CHECK_DEADLOCK FALSE
INVARIANT ToldVersionsStand
INVARIANT RevocationHolds
INVARIANT WrongCodesBounded
INVARIANT NoRequestAnsweredTwice
SYMMETRY Symmetry
