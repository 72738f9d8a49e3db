SPECIFICATION FairSpec
CONSTANTS
  Keys = {k1, k2}
  Threads = {t1}
  Loop = loop
  Kinds <- AllKinds
  Enough <- FewSamples
  Least <- Floor
  Most <- Limits
  Keep = 1
INVARIANT TableIsSound
PROPERTY VerdictStands
PROPERTY WorkedMeansClear
PROPERTY EveryWatchLeaves
