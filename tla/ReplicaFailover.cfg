SPECIFICATION Spec
CONSTANTS
  Invocations = {i1, i2}
  PollInterval <- MCPollInterval
  MaxWait <- MCMaxWait
  LambdaTimeout <- MCLambdaTimeout
  GlimpseTime <- MCGlimpseTime
  MaxLag = 0
  LagBound = 1
  None = None
INVARIANTS
  TypeOK
  SuccessMeansSettled
  TimedOutIsHonest
  LimitIsKept
PROPERTIES
  ImplementsContract
