SPECIFICATION Spec
CONSTANTS
  Jobs = {j1, j2}
  Starts = 3
  Troubles = 0
PROPERTY DestroyLeavesNothing
CHECK_DEADLOCK FALSE
