SPECIFICATION Spec
CONSTANTS
  Release = {1, 2}
  Original = Original
  Missing = Missing
  Torn = Torn
  Down = Down
  PreStarted = PreStarted
INVARIANTS
  InterruptedIsRecoverable
