CONSTANTS
  MaxTime = 4
  MaxRuns = 2
  MaxBoots = 2
  FlushTicks = 2
  Slack = 1
  Lookback = 1
  ExitWindow = 1
  Readable = {TRUE}
  Faults = {"killed"}
CHECK_DEADLOCK FALSE
SPECIFICATION Spec
INVARIANT BuriedOnce
INVARIANT DeathIsReal
INVARIANT RecordIsSound
INVARIANT NoDeathIsLost
