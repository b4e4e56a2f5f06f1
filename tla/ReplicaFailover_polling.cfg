SPECIFICATION Spec
CONSTANTS
  Invocations = {i1}
  PollInterval <- MCPollInterval
  MaxWait <- MCMaxWait
  LambdaTimeout <- MCLambdaTimeout
  GlimpseTime <- MCGlimpseTime
  MaxLag = 0
  LagBound = 1
  None = None
INVARIANT PollingMeansPromotion
