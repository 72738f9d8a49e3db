SPECIFICATION RestartSpec
CONSTANTS
  Node = {a}
  MaxReq = 2
  MaxPending = 2
  MaxReports = 1
  MaxRestarts = 1
INVARIANT AnswerIsOwn
CHECK_DEADLOCK FALSE
