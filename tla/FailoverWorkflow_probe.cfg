SPECIFICATION Spec
CONSTANT Executions = {x1}
PROPERTY CompletedMeansDrAnswers
