----------------------------- MODULE Calibration -----------------------------
(***************************************************************************)
(* The calibration state machines of GyroSensor, AccelSensor and MagSensor,*)
(* which step once per sample, and Model's calibrateGyro, calibrateMag and *)
(* finishCalibration.                                                      *)
(***************************************************************************)
EXTENDS ConfigStore

CONSTANTS
  Samples,  \* samples averaged (two seconds, thirty for the compass)
  Fitted    \* the sensors this craft has

Sensor == {"gyro", "accel", "mag"}

ASSUME SamplesAssumption == Samples \in Nat \ {0}
ASSUME FittedAssumption == "gyro" \in Fitted /\ Fitted \subseteq Sensor

CalState == {"IDLE", "START", "UPDATE", "APPLY", "SAVE"}

VARIABLES
  cal,     \* calibrationState of each sensor
  samples  \* biasSamples, calibrationSamples: samples still to take

calVars == <<cal, samples>>

Calibrating == \E s \in Sensor : cal[s] # "IDLE"

\* Mutant: the boot calibrates the accelerometer with the gyro.
AfterBootBoth == [s \in Sensor |-> IF s = "mag" THEN "IDLE" ELSE "START"]

\* The gyro is calibrated on every boot, the others keep their saved values.
AfterBoot == [s \in Sensor |-> IF s = "gyro" THEN "START" ELSE "IDLE"]

NoSamples == [s \in Sensor |-> 0]

StartAll(which) == cal' = [s \in Sensor |-> IF s \in which THEN "START" ELSE cal[s]]

\* calibrateGyro takes an active accelerometer along.
CalibrateGyro == StartAll({"gyro"} \cup (Fitted \cap {"accel"}))

\* calibrateMag does not ask whether there is a compass.
CalibrateMag == StartAll({"mag"})

Enter(s, state) == cal' = [cal EXCEPT ![s] = state]

\* CALIBRATION_START
Begin(s) ==
  /\ cal[s] = "START"
  /\ Enter(s, "UPDATE")
  /\ samples' = [samples EXCEPT ![s] = Samples]
  /\ bias' = IF s = "accel" THEN "part" ELSE bias
  /\ UNCHANGED <<flash, config, storageResult>>

\* Mutant: the counter is tested before it is decremented.
MeasureLate(s, still) ==
  /\ cal[s] = "UPDATE"
  /\ still \/ s = "gyro"
  /\ samples' = [samples EXCEPT ![s] = IF still THEN @ - 1 ELSE @]
  /\ Enter(s, IF samples[s] = 0 THEN "APPLY" ELSE "UPDATE")
  /\ bias' = IF s = "accel" THEN "part" ELSE bias
  /\ UNCHANGED <<flash, config, storageResult>>

\* CALIBRATION_UPDATE.  The gyro counts a sample only while the craft is still.
Measure(s, still) ==
  /\ cal[s] = "UPDATE"
  /\ still \/ s = "gyro"
  /\ samples' = [samples EXCEPT ![s] = IF still THEN @ - 1 ELSE @]
  /\ Enter(s, IF samples'[s] = 0 THEN "APPLY" ELSE "UPDATE")
  /\ bias' = IF s = "accel" THEN "part" ELSE bias
  /\ UNCHANGED <<flash, config, storageResult>>

\* CALIBRATION_APPLY.  Gravity is taken off what was measured, or off what a
\* command has put there since.
Apply(s) ==
  /\ cal[s] = "APPLY"
  /\ Enter(s, "SAVE")
  /\ IF s = "accel"
       THEN bias' = IF bias = "part" THEN "cal" ELSE "odd"
       ELSE UNCHANGED bias
  /\ UNCHANGED <<flash, config, storageResult, samples>>

\* Mutant: the calibration stays in the state until the next save command.
FinishWithoutSave(committed) == UNCHANGED storeVars

\* finishCalibration saves for the accelerometer and the compass, whichever of
\* the three sensors gets here first.
FinishCalibration(committed) ==
  IF "SAVE" \in {cal["accel"], cal["mag"]}
  THEN Save(committed)
  ELSE UNCHANGED storeVars

\* CALIBRATION_SAVE
Finish(s, committed) ==
  /\ cal[s] = "SAVE"
  /\ FinishCalibration(committed)
  /\ Enter(s, "IDLE")
  /\ UNCHANGED samples

\* one sample of the sensor while it calibrates
Sample(s) ==
  \/ Begin(s) \/ Apply(s)
  \/ \E ok \in BOOLEAN : Measure(s, ok) \/ Finish(s, ok)
=============================================================================
