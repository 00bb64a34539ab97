\* Two concurrent calls, three leases.
CONSTANTS
  Call = {c1, c2}
  Key = {k1, k2}
  Lease = {l1, l2, l3}
  NoKey = NoKey
  NoLease = NoLease
  MaxReplayIDs = 1
  MaxActive = 1
  TTL = 2
  MaxTime = 4
SPECIFICATION Spec
SYMMETRY Symmetry
CHECK_DEADLOCK FALSE
INVARIANT TypeOK
INVARIANT ActiveWithinCapacity
INVARIANT NoForgottenProxy
INVARIANT ReleasedStaysClosed
INVARIANT ReplayWindowHolds
PROPERTY PrunedLeasesAreClosed
