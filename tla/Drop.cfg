SPECIFICATION FairSpec
CONSTANTS
  AutoLand = FALSE
  MotorStop = TRUE
  Statuses = {"IDLE", "RECEIVED", "LOST", "DROPPED"}
  Frames <- DropFrames
  Estimates = {"unhealthy"}
  MspCommands = {TRUE, FALSE}
  Blocks = {TRUE, FALSE}
  MinFrames = 1
  RecoveryGap = 2
  StageTwo = 3
  RxRecovery = 3
  GyroStale = 1
  MinLanding = 1
  Dwell = 1
  LandTimeout = 2
  MaxThrust = 1
  Hover = 1
  StrictMargin = 1
  HoldMargin = 1
  PidThrusts = {1}
INVARIANTS NoStaleSticks NoBlindFlight DisarmedIsStopped
PROPERTIES NoRearmAfterFailsafe RestoredLinkRecovers
