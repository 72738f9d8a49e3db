SPECIFICATION FairSpec
CONSTANTS
  Nodes = {n1}
  Newest = 3
  MinSelf = 2
  RefsSince = 2
  Requests = {c1}
INVARIANTS PinWasReached PinHolds
PROPERTY OnceADay
PROPERTY CatchesUp
