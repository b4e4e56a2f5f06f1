SPECIFICATION Spec
CONSTANTS
  Jobs = {j1}
  Starts = 4
  Troubles = 2
INVARIANTS
  TypeOK
  InputsAtHand
PROPERTIES
  CompletedDeployIsCurrent
  CompletedDestroyLeavesOnlyLost
  RepeatCompletes
CHECK_DEADLOCK FALSE
