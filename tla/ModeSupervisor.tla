-------------------------- MODULE ModeSupervisor --------------------------
(***************************************************************************)
(* Actuator::update (Actuator.cpp): the arming flags, the ARM and FAILSAFE *)
(* modes and their switches, and the LAND supervisor.                      *)
(*                                                                         *)
(* Configuration: one unlinked OR row each for MODE_ARMED and              *)
(* MODE_FAILSAFE and none for the other modes.  The flags raised by        *)
(* calibration, tilt, GPS, the motor protocol, a pending reboot, I2C       *)
(* errors and pin conflicts are one input, "other"; the altitude estimate  *)
(* is another, "est".                                                      *)
(***************************************************************************)
EXTENDS FlightState

\* --- updateArmingDisabled, updateModeMask, updateArmed -----------------------

\* Mutant: the gyro's age is not looked at.
StillArmedBlind == armed

\* A stale gyro disarms before the modes are evaluated.
StillArmed == armed /\ GyroFresh

\* Mutant: ARMING_DISABLED_ARM_SWITCH is cleared before it is set again.
ArmingBlockedUnlatched(other, est) ==
  \/ ~GyroFresh
  \/ phase # "IDLE"
  \/ rxLoss \/ rxFailSafe
  \/ ~ThrottleLow
  \/ (AutoLand /\ us.arm /\ est = "unhealthy")
  \/ us.box
  \/ mspFlag
  \/ other

\* armingDisabled() when updateModeMask reaches ARMING_DISABLED_ARM_SWITCH.
\* The old ARM_SWITCH flag is one of the flags it sees, so the flag holds
\* itself up for as long as the switch is on.
ArmingBlocked(other, est) ==
  \/ ~GyroFresh
  \/ phase # "IDLE"
  \/ rxLoss \/ rxFailSafe
  \/ ~ThrottleLow
  \/ (AutoLand /\ us.arm /\ est = "unhealthy")
  \/ us.box
  \/ mspFlag
  \/ armSwitchFlag
  \/ other

\* The ARMED bit of the new mask: an armed craft follows the switch, a
\* disarmed one also needs canActivateMode.
ModeArmed(other, est) == us.arm /\ (StillArmed \/ ~ArmingBlocked(other, est))

Arming(other, est) == ModeArmed(other, est) /\ ~StillArmed

SwitchedOff == StillArmed /\ ~us.arm

\* disarmReason after updateArmed
ReasonNow(other, est) ==
  IF (armed /\ ~GyroFresh) \/ Arming(other, est) THEN "SYSTEM"
  ELSE IF SwitchedOff /\ disarmReason = "SYSTEM" THEN "SWITCH"
  ELSE disarmReason

\* A new arm starts a new LAND lifecycle.
LandNow(other, est) == IF Arming(other, est) THEN NoLand ELSE land

\* --- updateFailsafeLand ------------------------------------------------------

Eligible(est) == rxEverValid /\ est # "unhealthy"

\* touchdownReferenceThrust
Reference(l) == IF l.entryThrust < Hover THEN l.entryThrust ELSE Hover

\* Mutant: contact counts from the first update of a landing.
TouchdownEvidenceAtOnce(l, est) ==
  /\ est = "ground"
  /\ outThrust + StrictMargin <= Reference(l)

\* touchdownEvidence and the wider touchdownHoldEvidence
TouchdownEvidence(l, est) ==
  /\ l.elapsed >= MinLanding
  /\ est = "ground"
  /\ outThrust + StrictMargin <= Reference(l)

HoldEvidence(l, est) ==
  /\ l.elapsed >= MinLanding
  /\ est \in {"ground", "settling"}
  /\ outThrust + HoldMargin <= Reference(l)

Keep(on, why) == armed' = on /\ disarmReason' = why /\ UNCHANGED phase

EndLand == phase' = "LANDED" /\ Disarm("FAILSAFE")

Terminated(l) ==
  [l EXCEPT !.requested = FALSE, !.active = FALSE, !.blocked = TRUE,
            !.elapsed = 0, !.dwell = 0]

NoRequest(on, why, l) ==
  /\ ~l.requested
  /\ land' = [l EXCEPT !.active = FALSE, !.blocked = TRUE, !.candidate = FALSE,
                       !.dwell = 0]
  /\ Keep(on, why)

\* A request exists but the phase has left LANDING or the craft is disarmed.
RequestIdle(on, why, l, est) ==
  /\ l.requested /\ ~(on /\ phase = "LANDING")
  /\ land' = [l EXCEPT !.active = Eligible(est), !.blocked = TRUE,
                       !.fault = (@ \/ ~Eligible(est))]
  /\ Keep(on, why)

Descending(on, l) == l.requested /\ on /\ phase = "LANDING"

LandAborted(on, l, est) ==
  /\ Descending(on, l) /\ ~Eligible(est)
  /\ land' = [Terminated(l) EXCEPT !.fault = TRUE, !.candidate = FALSE]
  /\ EndLand

LandTimedOut(on, l, est) ==
  /\ Descending(on, l) /\ Eligible(est)
  /\ l.elapsed >= LandTimeout
  /\ land' = [Terminated(l) EXCEPT !.fault = TRUE, !.candidate = FALSE]
  /\ EndLand

InTime(on, l, est) == Descending(on, l) /\ Eligible(est) /\ l.elapsed < LandTimeout

Owning(l) == [l EXCEPT !.active = TRUE, !.blocked = FALSE]

AwaitTouchdown(on, why, l, est) ==
  /\ InTime(on, l, est) /\ ~l.candidate
  /\ land' = [Owning(l) EXCEPT !.candidate = TouchdownEvidence(l, est)]
  /\ Keep(on, why)

TouchdownLost(on, why, l, est) ==
  /\ InTime(on, l, est) /\ l.candidate /\ ~HoldEvidence(l, est)
  /\ land' = [Owning(l) EXCEPT !.candidate = FALSE, !.dwell = 0]
  /\ Keep(on, why)

TouchdownHeld(on, why, l, est) ==
  /\ InTime(on, l, est) /\ l.candidate /\ HoldEvidence(l, est)
  /\ l.dwell < Dwell
  /\ land' = Owning(l)
  /\ Keep(on, why)

\* The candidate flag survives until the next update clears it.
TouchdownConfirmed(on, l, est) ==
  /\ InTime(on, l, est) /\ l.candidate /\ HoldEvidence(l, est)
  /\ l.dwell >= Dwell
  /\ land' = Terminated(l)
  /\ EndLand

FailsafeLand(on, why, l, est) ==
  \/ NoRequest(on, why, l)
  \/ RequestIdle(on, why, l, est)
  \/ LandAborted(on, l, est)
  \/ LandTimedOut(on, l, est)
  \/ AwaitTouchdown(on, why, l, est)
  \/ TouchdownLost(on, why, l, est)
  \/ TouchdownHeld(on, why, l, est)
  \/ TouchdownConfirmed(on, l, est)

\* --- the whole update --------------------------------------------------------

UpdateActuator(other, est) ==
  /\ loop = "actuator"
  /\ maskSwitch' = [arm |-> us.arm, box |-> us.box]
  /\ armSwitchFlag' = (us.arm /\ ArmingBlocked(other, est))
  /\ FailsafeLand(ModeArmed(other, est), ReasonNow(other, est),
                  LandNow(other, est), est)
  /\ WriteIfDisarmed
  /\ actuated' = TRUE
  /\ loop' = "serial"
  /\ UNCHANGED <<linkVars, lossVars, us, handed, qualifyVars, mspFlag,
                 controlVars, gyroAge>>
=============================================================================
