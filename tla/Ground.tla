------------------------------- MODULE Ground -------------------------------
(***************************************************************************)
(* A craft on the bench and in the air, as its configuration sees it:      *)
(* commands of the configurator and the terminal, calibrations under way,  *)
(* saves that fail, power cuts, arming and disarming, in any order.        *)
(***************************************************************************)
EXTENDS GroundCommands

Init ==
  /\ flash \in FirstImages
  /\ config = BootConfig(flash) /\ bias = BootBias(flash)
  /\ storageResult = LoadResult(flash)
  /\ cal = AfterBoot /\ samples = NoSamples
  /\ running = config.held
  /\ armed = FALSE /\ rebootRequired = FALSE
  /\ touched = FALSE /\ unasked = FALSE /\ reloaded = FALSE

TakeSample(s) == Sample(s) /\ UNCHANGED <<craftVars, historyVars>>

Msp ==
  \/ \E held \in Held :
       \/ MspSetFeatureConfig(held)
       \/ MspSetSensorConfig(held)
       \/ MspSetCfSerialConfig(held)
       \/ MspCommonSetSerialConfig(held)
       \/ MspSetMotorConfig(held)
       \/ MspSetAdvancedConfig(held)
       \/ MspSetGpsConfig(held)
       \/ MspSetMixerConfig(held)
       \/ MspSetRxConfig(held)
       \/ MspSetSensorAlignment(held)
       \/ MspSetBlackboxConfig(held)
  \/ MspCalibrateAcc
  \/ MspCalibrateMag
  \/ \E committed \in BOOLEAN : MspSave(committed) \/ MspResetConf(committed)

Cli ==
  \/ \E held \in Held : CliSet(held)
  \/ \E acc \in Saved : CliSetCalibration(acc)
  \/ CliDefaults
  \/ \E committed \in BOOLEAN : CliSave(committed)
  \/ CliLoad
  \/ CliCalReset

Next ==
  \/ \E s \in Fitted : TakeSample(s)
  \/ Msp
  \/ Cli
  \/ Arm
  \/ Disarm
  \/ Restart

Spec == Init /\ [][Next]_vars

-----------------------------------------------------------------------------

TypeOK ==
  /\ flash \in Image /\ config \in Config /\ bias \in AccBias
  /\ storageResult \in {"ok", "load error", "save error"}
  /\ cal \in [Sensor -> CalState] /\ samples \in [Sensor -> 0..Samples]
  /\ running \in Held
  /\ armed \in BOOLEAN /\ rebootRequired \in BOOLEAN
  /\ touched \in BOOLEAN /\ unasked \in BOOLEAN /\ reloaded \in BOOLEAN

\* The next boot will find the accelerometer calibrated.
Durable == Loadable(flash) /\ flash.config.acc = "cal"

\* No sensor is being calibrated in flight: neither by the calibration that
\* every boot starts, nor by a command, whenever it comes (Actuator.cpp's
\* ARMING_DISABLED_CALIBRATING and the commands' look at MODE_ARMED, together).
CalibratesOnGround == armed => ~Calibrating

\* A saved accelerometer calibration is lost only after a command that asks for
\* another one, or for the defaults: not by a save in an unlucky moment, a
\* failed save, a power cut, the boot's own calibration of the gyro, or a
\* command that writes the configuration's copy of it.
CalibrationSurvives ==
  [][ Durable /\ ~Durable' =>
        touched \/ \E committed \in BOOLEAN : MspResetConf(committed) ]_vars

\* Once finished, the accelerometer's calibration is in the EEPROM, unless the
\* last access to it failed: finishCalibration saves it on its own, and no
\* order of the three sensors' calibrations and of other commands leaves it
\* only in RAM, where the next power cut takes it away.
CalibrationKept ==
  bias = "cal" /\ cal["accel"] = "IDLE" /\ storageResult = "ok" => Durable

\* When the craft arms, a setting taken at boot is the one its driver took,
\* unless a command that asks for no reboot has changed that setting since.
\* An announced change is never forgotten: not by commands before or after it,
\* a change back and forth, saves, calibrations or the Actuator's updates, which
\* compute the arming flag anew.  (MSP_SET_MIXER_CONFIG, the other setters that
\* stay silent and the CLI do let the craft arm with a setting not in use.)
ArmsAsConfigured ==
  [][ ~armed /\ armed' => running = config.held \/ unasked ]_vars

\* Mode rows left over from an older revision never act, whatever the EEPROM
\* holds and however often it was loaded and saved since; with the exception of
\* the CLI's load, which does not sanitize.
CleanRows == reloaded \/ config.stale = {}
=============================================================================
