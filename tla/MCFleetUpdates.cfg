CONSTANTS
  Release = {1, 2}
  Compatible = {1, 2}
  Period <- AllTimes
  Setup = {s1}
  NoStatus = NoStatus
  MaxTime = 1
  MaxActions = 1
  MaxAsked = 2
  MaxFaults = 1
SPECIFICATION BoundedSpec
CHECK_DEADLOCK FALSE
INVARIANT TypeOK
INVARIANT NoSilentReset
PROPERTY NoDowngrade
PROPERTY CursorCatchesUp
PROPERTY LatestIsHandled
