SPECIFICATION FairSpec
CONSTANTS
  Listeners = {web}
  Units = {}
  Readings <- FewReadings
  Asides <- AnyListener
  Floor = 1
  Line = 2
  Back = 3
  Ring = 3
  Window = 1
  Recent = 0
  Hold = 2
  MinSamples = 2
  MinRecent = 1
  Settle = 1
  Hour = 2
  Idle = 2
  Fold = 1
  Intermittent = TRUE
  Far = 3
PROPERTY QuietIsReal
PROPERTY TwitchDoesNotClear
PROPERTY QuietIsSaid
PROPERTY BackIsCleared
