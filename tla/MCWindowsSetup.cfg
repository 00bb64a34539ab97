CONSTANTS
  Setup = {s1, s2}
  Release = {1, 2}
  Background <- ProgramsOfPackage
  NoState = NoState
  NoSetup = NoSetup
  MaxCommands = 2
  MaxFaults = 2
SPECIFICATION BoundedSpec
CHECK_DEADLOCK FALSE
INVARIANT TypeOK
INVARIANT RetainedAreWhole
PROPERTY SwitchIsAtomic
PROPERTY PendingIsRecovered
