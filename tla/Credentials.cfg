SPECIFICATION Spec
CONSTANTS
  Calls = {c1, c2, c3}
  Deploys = {d1, d2}
  Tasks = {t1}
  None = None
INVARIANT TypeOK
PROPERTIES
  UndisturbedCallRepairs
  CompletedDeployServesBothRegions
CHECK_DEADLOCK FALSE
