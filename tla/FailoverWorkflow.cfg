SPECIFICATION Spec
CONSTANT Executions = {x1, x2}
INVARIANTS
  TypeOK
  NoTasksBeforeWrite
  CompletedDidEverything
PROPERTIES
  EveryExecutionEnds
  RerunCompletes
