SPECIFICATION SteadyVigil
CONSTANTS
  Nodes = {n1}
  Keys = {d1, s1}
  Subjects = {s1}
  Untracked = {}
  Threads = {t1, t2}
  Loop = loop
  Ranks = {0, 2}
  Deaf = 1
  Settle = 1
  Grace = 1
  OfflineAfter = 1
  SilentDrop = 2
  Limit = 1
  Window = 1
  QueueMax = 1
  Configs <- WorstOnly
PROPERTY ResolvedWasLacking
PROPERTY DeadNodeIsMarked
