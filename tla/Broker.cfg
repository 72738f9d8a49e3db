SPECIFICATION FairSpec
CONSTANTS
  Node = {a, b}
  MaxReq = 2
  MaxPending = 1
  MaxReports = 2
  MaxRestarts = 0
CHECK_DEADLOCK FALSE
INVARIANT AnswerIsOwn
INVARIANT Bookkeeping
PROPERTY KeepsPromise
PROPERTY EveryRequestEnds
