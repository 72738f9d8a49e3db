SPECIFICATION FairSpec
CONSTANTS
  Nodes = {n1}
  Keys = {k1, k2}
  Grace = 1
  OfflineAfter = 1
  SilentDrop = 2
  Limit = 1
  Window = 1
  QueueMax = 1
  Configs <- AnySettings
INVARIANT RecordsHold
PROPERTY KeepsPromise
PROPERTY ResolvedAfterGrace
PROPERTY OfflineOnce
PROPERTY AbsenceEnds
PROPERTY SilenceIsNoticed
