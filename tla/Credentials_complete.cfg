SPECIFICATION Spec
CONSTANTS
  Calls = {c1, c2}
  Deploys = {d1, d2}
  Tasks = {t1}
  None = None
PROPERTY CompletedDeployHasSecret
CHECK_DEADLOCK FALSE
