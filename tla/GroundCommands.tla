--------------------------- MODULE GroundCommands ---------------------------
(***************************************************************************)
(* What the configurator (MSP) and the terminal (CLI) do to a craft's      *)
(* configuration and calibration, each command from its guard to its reply *)
(* and to the restart that may follow it, and the arming that the commands *)
(* must not disturb.                                                       *)
(*                                                                         *)
(* Commands arrive between two updates of the flight loop: the serial      *)
(* ports are served at its end, on the same task.                          *)
(***************************************************************************)
EXTENDS Calibration

VARIABLES
  running,        \* the setting that its driver took at boot
  armed,          \* MODE_ARMED
  rebootRequired, \* state.rebootRequired
  \* History, of this power cycle:
  touched,        \* a command asked for another accelerometer calibration
  unasked,        \* a command changed the setting taken at boot, without
                  \* asking for a reboot
  reloaded        \* the CLI loaded the configuration, which is not sanitized

craftVars == <<running, armed, rebootRequired>>
historyVars == <<touched, unasked, reloaded>>
vars == <<storeVars, calVars, craftVars, historyVars>>

\* ESP.restart, or a power cut, and the boot from what the EEPROM holds.
StartFrom(image) ==
  /\ flash' = image
  /\ config' = BootConfig(image) /\ bias' = BootBias(image)
  /\ storageResult' = LoadResult(image)
  /\ cal' = AfterBoot /\ samples' = NoSamples
  /\ running' = config'.held
  /\ armed' = FALSE /\ rebootRequired' = FALSE
  /\ touched' = FALSE /\ unasked' = FALSE /\ reloaded' = FALSE

\* also MSP_REBOOT, the end of MSP_SET_PASSTHROUGH, and the CLI's reboot and
\* exit: none of them looks at MODE_ARMED.
Restart == StartFrom(flash)

\* --- arming (ModeSupervisor has its other conditions) ------------------------

\* Mutant: setRebootRequired only sets the arming flag, which the Actuator
\* computes anew from rebootRequired.
MayArmFlagOnly == ~Calibrating

\* ARMING_DISABLED_CALIBRATING and ARMING_DISABLED_REBOOT_REQUIRED
MayArm == ~Calibrating /\ ~rebootRequired

Arm ==
  /\ ~armed /\ MayArm
  /\ armed' = TRUE
  /\ UNCHANGED <<storeVars, calVars, running, rebootRequired, historyVars>>

Disarm ==
  /\ armed
  /\ armed' = FALSE
  /\ UNCHANGED <<storeVars, calVars, running, rebootRequired, historyVars>>

\* --- MSP -----------------------------------------------------------------------

\* What a setter writes: the value there is, if its payload is rejected or the
\* setting is another one.
Put(held) == [config EXCEPT !.held = held]

\* A setter of settings that need a reboot, and its reload (Model::begin, which
\* sanitizes).
SetAndReload(held) ==
  /\ config' = Sanitize(Put(held))
  /\ rebootRequired' = TRUE
  /\ UNCHANGED <<flash, bias, storageResult, calVars, running, armed, historyVars>>

\* Mutant: the setter forgets setRebootRequired.
SetMotorQuietly(held) ==
  /\ config' = Sanitize(Put(held))
  /\ UNCHANGED <<flash, bias, storageResult, calVars, craftVars, historyVars>>

MspSetFeatureConfig(held) == SetAndReload(held)
MspSetSensorConfig(held) == SetAndReload(held)
MspSetCfSerialConfig(held) == SetAndReload(held)
MspCommonSetSerialConfig(held) == SetAndReload(held)
MspSetMotorConfig(held) == SetAndReload(held)
MspSetAdvancedConfig(held) == SetAndReload(held)

\* It does not reload.
MspSetGpsConfig(held) ==
  /\ config' = Put(held)
  /\ rebootRequired' = TRUE
  /\ UNCHANGED <<flash, bias, storageResult, calVars, running, armed, historyVars>>

\* The setting is changed, and no reboot asked for.  If it is another one, this
\* is no step: unasked speaks of the one that held is.
SetUnasked(held) ==
  /\ config' = Put(held)
  /\ unasked' = TRUE
  /\ UNCHANGED <<flash, bias, storageResult, calVars, craftVars, touched, reloaded>>

\* MSP_SET_MIXER_CONFIG: mixer.type, of which Mixer::begin made the mixer.
MspSetMixerConfig(held) == SetUnasked(held)

\* MSP_SET_RX_CONFIG: serialRxProvider, for which getInputDevice chose a driver;
\* its notification renews the filters only.
MspSetRxConfig(held) == SetUnasked(held)

\* MSP_SET_SENSOR_ALIGNMENT: gyro.dev, by which the gyro was looked for
MspSetSensorAlignment(held) == SetUnasked(held)

\* MSP_SET_BLACKBOX_CONFIG: blackbox.dev, for which the log was opened
MspSetBlackboxConfig(held) == SetUnasked(held)

\* Mutant: a calibration can start in flight.
MspCalibrateAccInFlight ==
  /\ CalibrateGyro
  /\ touched' = TRUE
  /\ UNCHANGED <<storeVars, samples, craftVars, unasked, reloaded>>

\* MSP_ACC_CALIBRATION; also the CLI's cal gyro
MspCalibrateAcc ==
  /\ ~armed
  /\ CalibrateGyro
  /\ touched' = TRUE
  /\ UNCHANGED <<storeVars, samples, craftVars, unasked, reloaded>>

\* MSP_MAG_CALIBRATION; also the CLI's cal mag
MspCalibrateMag ==
  /\ ~armed
  /\ CalibrateMag
  /\ UNCHANGED <<storeVars, samples, craftVars, historyVars>>

\* MSP_EEPROM_WRITE
MspSave(committed) ==
  /\ ~armed
  /\ Save(committed)
  /\ UNCHANGED <<calVars, craftVars, historyVars>>

\* what Model::reset leaves for Model::save to write
ResetConfig == PreSave(Sanitize(Default), PostLoad(Default))

\* MSP_RESET_CONF: reset, save, reply, restart
MspResetConf(committed) ==
  /\ ~armed
  /\ StartFrom(IF committed THEN ImageOf(ResetConfig) ELSE flash)

\* --- the CLI, which asks nothing of MODE_ARMED ------------------------------------

\* set, of a setting that is taken at boot
CliSet(held) == SetUnasked(held)

\* set accel_offset_x and so on: the configuration's copy, not the one in use
CliSetCalibration(acc) ==
  /\ config' = [config EXCEPT !.acc = acc]
  /\ UNCHANGED <<flash, bias, storageResult, calVars, craftVars, historyVars>>

CliDefaults ==
  /\ Reset
  /\ touched' = TRUE /\ unasked' = TRUE
  /\ UNCHANGED <<calVars, craftVars, reloaded>>

CliSave(committed) ==
  /\ Save(committed)
  /\ UNCHANGED <<calVars, craftVars, historyVars>>

CliLoad ==
  /\ Load
  /\ unasked' = TRUE /\ reloaded' = TRUE
  /\ UNCHANGED <<calVars, craftVars, touched>>

\* cal reset_accel, cal reset_all
CliCalReset ==
  /\ bias' = "zero"
  /\ touched' = TRUE
  /\ UNCHANGED <<flash, config, storageResult, calVars, craftVars, unasked, reloaded>>
=============================================================================
