SPECIFICATION BatchSpec
CONSTANTS
  Passwords = {p1}
  Plugins <- MCPlugins
  Batches <- MCBatches
  Prefix = 1
  Postfix = 1
  MaxStmt = 6
  MaxPacket = 5
  SeqMod = 3
  AnswerSizes = {4, 5, 16}
INVARIANT Agreement
INVARIANT RightPasswordEnters
INVARIANT WholeStatements
INVARIANT RowcountIsTrue
INVARIANT StatementFits
INVARIANT NumbersAgree
PROPERTY EveryCallReturns
CHECK_DEADLOCK FALSE
