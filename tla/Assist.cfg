SPECIFICATION Spec
CONSTANTS
  Procedures = {"DROP", "AUTO_LAND"}
  Aux = {"s1", "s2", "s3", "lost"}
  Present = {"s1", "s2", "s3"}
  Conditions = 4
  Tables <- BootTables
  Edits <- RowEdits
  Readings <- SomeReadings
  MaxThrust = 1
  AirThrottle = 0
  PidThrusts = {0, 1}
INVARIANTS TypeOK RequestedAsMeant
PROPERTIES ReentryNeedsSwitchCycle BumplessEntry ArmsIntoAltHold
