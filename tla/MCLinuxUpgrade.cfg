SPECIFICATION Spec
CONSTANTS
  Release = {1, 2, 3}
  Original = Original
  Missing = Missing
  Torn = Torn
  Down = Down
  PreStarted = PreStarted
INVARIANTS
  TypeOK
  CompleteIsInstalled
  HelperOutlivesTransaction
PROPERTIES
  UpgradeIsAtomic
