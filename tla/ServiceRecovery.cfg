SPECIFICATION Spec
CONSTANTS
  Invocations = {i1, i2}
  Desired = 2
  TfDesired = 0
  Turns = 2
  Applies = 1
  Crashes = 1
INVARIANT TypeOK
PROPERTY ImplementsContract
CHECK_DEADLOCK FALSE
