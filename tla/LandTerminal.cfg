SPECIFICATION Spec
CONSTANTS
  AutoLand = TRUE
  MotorStop = FALSE
  Statuses = {"IDLE", "RECEIVED", "FAILSAFE"}
  Frames <- LandFrames
  Estimates = {"ground"}
  MspCommands = {}
  Blocks = {FALSE}
  MinFrames = 1
  RecoveryGap = 1
  StageTwo = 2
  RxRecovery = 2
  GyroStale = 1
  MinLanding = 1
  Dwell = 1
  LandTimeout = 3
  MaxThrust = 3
  Hover = 3
  StrictMargin = 2
  HoldMargin = 1
  PidThrusts <- PidSteps
INVARIANT LandIsTerminal
