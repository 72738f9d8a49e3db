SPECIFICATION Spec
CONSTANTS
  Names = {root, ann, bob}
  Root = root
  Subjects = {s1}
  Threads = {t1, t2}
  DefaultRole = "viewer"
  TTL = 2
  MaxChanges = 1
  MaxSignIns = 2
  MaxCli = 1
SYMMETRY Symmetry
CHECK_DEADLOCK FALSE
INVARIANT CacheIsFresh
INVARIANT AdminRemains
INVARIANT SignedInIsLinked
INVARIANT AccountsAreSound
