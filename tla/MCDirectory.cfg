CONSTANTS
  Device = {self, peer}
  Self = self
  Key = {k1, k2}
  NoBinding = NoBinding
  NoSnapshot = NoSnapshot
  Retained = 2
  MaxBinding = 2
  TTL = 1
  MaxTime = 1
  MaxVersion = 5
  MaxAsked = 3
  MaxFaults = 1
SPECIFICATION BoundedSpec
CHECK_DEADLOCK FALSE
INVARIANT TypeOK
INVARIANT RevocationStands
PROPERTY BindingsNeverGoBack
PROPERTY ExpiredStaysExpired
PROPERTY RestoreIsExact

PROPERTY ClaimsArrive
PROPERTY NodeStaysConfirmed
