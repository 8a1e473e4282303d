SPECIFICATION Spec
CONSTANTS
  Held = {"factory", "changed"}
  DefaultHeld = "factory"
  FirstImages <- Images
  Samples = 1
  Fitted = {"gyro", "accel", "mag"}
INVARIANT TypeOK
INVARIANT CalibratesOnGround
INVARIANT CalibrationKept
INVARIANT CleanRows
PROPERTY CalibrationSurvives
PROPERTY ArmsAsConfigured
