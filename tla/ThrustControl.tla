--------------------------- MODULE ThrustControl ---------------------------
(***************************************************************************)
(* The thrust path of Controller::update and Mixer::update, run when the   *)
(* gyro transaction of this loop succeeded.  Attitude, rates and the       *)
(* mixing table are left out: the supervisors neither read nor write them. *)
(* ALTHOLD is not configured, so LAND alone can own the vertical output.   *)
(***************************************************************************)
EXTENDS FlightState

\* landingV2OwnsControl
LandOwnsControl ==
  /\ land.requested
  /\ phase = "LANDING"
  /\ land.active
  /\ ~land.blocked

\* assistedMode.altitudeActive
AltitudeActive(estimate) == LandOwnsControl /\ estimate # "unhealthy"

\* outerLoop and innerLoop: manual thrust; or LAND without an estimate, which
\* keeps the command; or the first authoritative cycle, which keeps it too
\* (bumpless entry); or the vertical PID.
ThrustCommands(estimate) ==
  IF ~LandOwnsControl THEN {us.thrust}
  ELSE IF ~AltitudeActive(estimate) \/ ~vertOwned THEN {outThrust}
  ELSE PidThrusts

Controller(estimate) ==
  /\ outThrust' \in ThrustCommands(estimate)
  /\ vertOwned' = AltitudeActive(estimate)

\* Mixer::_stop
Stop == ~armed \/ (MotorStop /\ ThrottleLow)

Mixer == motors' = IF Stop THEN "stop" ELSE "run"

\* One pass of the sensor, controller and mixer stages: the gyro transaction
\* succeeds, or the control cycle is skipped and the last outputs stay resident.
UpdateControl(estimate) ==
  /\ loop = "control"
  /\ \/ gyroAge' = 0 /\ Controller(estimate) /\ Mixer
     \/ UNCHANGED <<gyroAge, controlVars, motors>>
  /\ loop' = "actuator"
  /\ UNCHANGED <<actuated, linkVars, lossVars, us, handed, phase, qualifyVars,
                 land, armVars, switchVars>>
=============================================================================
