SPECIFICATION OutageSpec
CONSTANTS
  web = web
  db = db
  disk = disk
  AllUnits <- MCUnits
  Hidden = {disk}
  Needs <- MCNeeds
  States <- MCStates
  Ports = {p1}
  Owner <- MCOwner
  Mounts = {root}
  SystemMounts = {root}
  HoldTicks = 3
  GoneTicks = 2
  RootTicks = 2
  StartTicks = 2
INVARIANT LostWasHeld
INVARIANT ItemsAreTrue
PROPERTY LostIsTold
