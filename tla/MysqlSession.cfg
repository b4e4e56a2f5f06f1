SPECIFICATION Spec
CONSTANTS
  Buffered = {c1}
  Unbuffered = {s1}
  MaxRows = 2
  SeqMod = 3
INVARIANT TypeOK
INVARIANT OwnReplies
INVARIANT NeverWaitsInVain
INVARIANT EveryRowIsTold
INVARIANT ConnectSetsMode
INVARIANT StatusIsCurrent
PROPERTY EveryCallEnds
CHECK_DEADLOCK FALSE
