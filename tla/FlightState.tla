--------------------------- MODULE FlightState ---------------------------
(***************************************************************************)
(* The part of Espfc::Model that the flight loop's supervisors share:      *)
(* the receiver buffers, the failsafe record, the mode masks, the arming   *)
(* flags that outlive one Actuator update, the thrust command and the      *)
(* motor outputs.  The supervisors themselves are RxInput (Input.cpp),     *)
(* ModeSupervisor (Actuator.cpp) and ThrustControl (Controller.cpp and     *)
(* Mixer.cpp); FlightLoop composes them in the order Espfc::update calls   *)
(* them.                                                                   *)
(*                                                                         *)
(* Time advances in ticks of 100 ms, the greatest common divisor of the    *)
(* supervisor's deadlines.  The code keeps time stamps and subtracts them  *)
(* from micros(); the model keeps the differences, as ages that saturate   *)
(* at the largest value the code compares them with.                       *)
(***************************************************************************)
EXTENDS Integers

CONSTANTS
  AutoLand,     \* config.failsafe.procedure = FAILSAFE_PROCEDURE_AUTO_LAND (else DROP)
  MotorStop,    \* FEATURE_MOTOR_STOP
  Statuses,     \* the InputStatus values the receiver driver returns
  Frames,       \* the channel vectors a frame can leave in input.buffer
  Estimates,    \* what the altitude estimator can report
  MspCommands,  \* arguments of MSP_SET_ARMING_DISABLED that may arrive
  Blocks,       \* whether an arming flag outside this model may be up
  MinFrames,    \* frames ignored after boot (5 in processInputs)
  RecoveryGap,  \* RX_RECOVERY_GAP_US, ticks
  StageTwo,     \* clamp(config.failsafe.delay, 2, 200), ticks
  RxRecovery,   \* RX_RECOVERY_US, ticks
  GyroStale,    \* GYRO_STALE_US, ticks
  MinLanding,   \* MIN_LANDING_TIME_US, ticks
  Dwell,        \* TOUCHDOWN_DWELL_US, ticks
  LandTimeout,  \* landingTimeoutUs, ticks
  MaxThrust,    \* thrust steps 0..MaxThrust stand for output.ch = -1..1
  Hover,        \* configuredHoverThrust
  StrictMargin, \* TOUCHDOWN_THRUST_MARGIN
  HoldMargin,   \* TOUCHDOWN_HOLD_THRUST_MARGIN
  PidThrusts    \* what the vertical PID can command

Thrusts == 0..MaxThrust

\* input.buffer and input.us, reduced to the channels the supervisors read:
\* the throttle, and whether the ARM and the FAILSAFE mode condition hold of
\* the AUX value.  Throttle 0 is below config.input.minCheck (isThrottleLow).
Channels == [thrust : Thrusts, arm : BOOLEAN, box : BOOLEAN]

Status == {"IDLE", "RECEIVED", "LOST", "FAILSAFE", "DROPPED"}

\* altitudeEstimateHealthy() fails; or it holds and height and vario show
\* flight, contact within the hold band, or contact within the strict band.
\* The estimators are an input: each caller reads what they show at that time.
Estimate == {"unhealthy", "airborne", "settling", "ground"}

\* RX_LOSS_RECOVERED is passed through within one call of Input::failsafe.
Phase == {"IDLE", "RX_LOSS_DETECTED", "LANDING", "LANDED", "RX_LOSS_MONITORING"}

Reason == {"SYSTEM", "SWITCH", "FAILSAFE", "ARMING_DISABLED"}

\* The supervisor's deadlines in the order the code has them.  A tick can pass
\* between a disarm and the Actuator's next update, so the receiver's
\* qualification has to be longer than one.
ASSUME TimingAssumption ==
  /\ {MinFrames, RecoveryGap, StageTwo, RxRecovery, GyroStale, MinLanding,
      Dwell, LandTimeout} \subseteq Nat \ {0}
  /\ RecoveryGap <= StageTwo
  /\ RxRecovery > 1
  /\ MinLanding + Dwell <= LandTimeout

ASSUME ConfigAssumption ==
  /\ AutoLand \in BOOLEAN
  /\ MotorStop \in BOOLEAN
  /\ Statuses \subseteq Status
  /\ Frames \subseteq Channels
  /\ Estimates \subseteq Estimate
  /\ MspCommands \subseteq BOOLEAN
  /\ Blocks \subseteq BOOLEAN

ASSUME ThrustAssumption ==
  /\ MaxThrust \in Nat
  /\ Hover \in Thrusts
  /\ {StrictMargin, HoldMargin} \subseteq Nat
  /\ HoldMargin <= StrictMargin
  /\ PidThrusts \subseteq Thrusts

VARIABLES
  loop,           \* the next stage of Espfc::update
  actuated,       \* actuatorTimer fired since the last tick
  frameCount,     \* input.frameCount, saturating at MinFrames
  channelsValid,  \* input.channelsValid
  frameAge,       \* micros() - input.frameTime
  rxLoss,         \* input.rxLoss
  rxFailSafe,     \* input.rxFailSafe
  buffer,         \* input.buffer
  us,             \* input.us
  handed,         \* the last Input::update passed the sticks to filterInputs
  phase,          \* failsafe.phase
  rxEverValid,    \* failsafe.rxEverValid
  recoveryActive, \* failsafe.recoveryActive
  healthyFor,     \* micros() - failsafe.recoveryStartedUs while recoveryActive
  land,           \* the failsafe.landing* fields
  armed,          \* mode.mask, bit MODE_ARMED
  maskSwitch,     \* mode.maskSwitch, bits MODE_ARMED and MODE_FAILSAFE
  armSwitchFlag,  \* armingDisabledFlags, bit ARMING_DISABLED_ARM_SWITCH
  mspFlag,        \* armingDisabledFlags, bit ARMING_DISABLED_MSP
  disarmReason,   \* mode.disarmReason
  outThrust,      \* output.ch[AXIS_THRUST]
  vertOwned,      \* Controller::_altHoldV2OutputWasActive
  motors,         \* output.us: the disarmed values ("stop") or a mix ("run")
  gyroAge         \* micros() - gyro.lastUpdateUs

clockVars == <<loop, actuated>>
linkVars == <<frameCount, channelsValid, frameAge, buffer>>
lossVars == <<rxLoss, rxFailSafe>>
qualifyVars == <<rxEverValid, recoveryActive, healthyFor>>
armVars == <<armed, disarmReason>>
switchVars == <<maskSwitch, armSwitchFlag, mspFlag>>
controlVars == <<outThrust, vertOwned>>
vars == <<clockVars, linkVars, lossVars, us, handed, phase, qualifyVars, land,
          armVars, switchVars, controlVars, motors, gyroAge>>

\* The landing record with no request outstanding.  elapsed is the age of
\* landingRequestedUs and dwell that of landingTouchdownStartedUs; they are 0
\* while the code does not read the time stamp.
NoLand ==
  [requested |-> FALSE, active |-> FALSE, blocked |-> TRUE, fault |-> FALSE,
   candidate |-> FALSE, elapsed |-> 0, dwell |-> 0, entryThrust |-> 0]

Landing ==
  [requested : BOOLEAN, active : BOOLEAN, blocked : BOOLEAN, fault : BOOLEAN,
   candidate : BOOLEAN, elapsed : 0..LandTimeout, dwell : 0..Dwell,
   entryThrust : Thrusts]

\* a micros() difference one tick later, saturating at the bound it is
\* compared with
Age(age, bound) == IF age < bound THEN age + 1 ELSE age

GyroFresh == gyroAge < GyroStale

ThrottleLow == us.thrust = 0

\* Model::disarm: the reason is recorded and the ARMED bit cleared.  (AIRMODE
\* is not configured; EVENT_DISARM has no consumer that acts on it.)
Disarm(reason) == armed' = FALSE /\ disarmReason' = reason

\* Mutant: the last motor command stays resident after a disarm.
WriteNothing == UNCHANGED motors

\* Espfc::update pushes the disarmed outputs when a supervisor has disarmed
\* (Mixer::writeDisarmed, through Mixer::_stop).
WriteIfDisarmed == motors' = IF armed /\ ~armed' THEN "stop" ELSE motors

TypeOK ==
  /\ loop \in {"input", "control", "actuator", "serial"}
  /\ actuated \in BOOLEAN
  /\ frameCount \in 0..MinFrames
  /\ channelsValid \in BOOLEAN
  /\ frameAge \in 0..(StageTwo + 1)
  /\ rxLoss \in BOOLEAN /\ rxFailSafe \in BOOLEAN
  /\ buffer \in Channels /\ us \in Channels
  /\ handed \in BOOLEAN
  /\ phase \in Phase
  /\ rxEverValid \in BOOLEAN /\ recoveryActive \in BOOLEAN
  /\ healthyFor \in 0..RxRecovery
  /\ land \in Landing
  /\ armed \in BOOLEAN /\ disarmReason \in Reason
  /\ maskSwitch \in [arm : BOOLEAN, box : BOOLEAN]
  /\ armSwitchFlag \in BOOLEAN /\ mspFlag \in BOOLEAN
  /\ outThrust \in Thrusts /\ vertOwned \in BOOLEAN
  /\ motors \in {"stop", "run"}
  /\ gyroAge \in 0..GyroStale
=============================================================================
