----------------------------- MODULE RxInput -----------------------------
(***************************************************************************)
(* Input::update (Input.cpp): read the receiver, qualify the link, run the *)
(* failsafe stages, and pass the sticks to the controller or withhold      *)
(* them.  Input::failsafe is one action per way out of it.                 *)
(*                                                                         *)
(* Configuration: every channel is mapped; the throttle has fsMode AUTO    *)
(* and the AUX channels HOLD (the defaults); the stick interpolation       *)
(* filter is off (input.filterEnable = 0).                                 *)
(***************************************************************************)
EXTENDS FlightState

\* --- readInputs, processInputs and updateFrameRate --------------------------

\* The driver returns status s; f is what processInputs leaves in the buffer
\* and ok whether every stick was mapped and inside minRc..maxRc.  Any status
\* but IDLE counts as a frame and refreshes the buffer, a lost one included.
ReadInputs(s, f, ok) ==
  /\ frameCount' = IF s = "IDLE" THEN frameCount ELSE Age(frameCount, MinFrames)
  /\ IF s # "IDLE" /\ frameCount' >= MinFrames
       THEN buffer' = f /\ channelsValid' = ok
       ELSE UNCHANGED <<buffer, channelsValid>>
  /\ frameAge' = IF s = "RECEIVED" /\ channelsValid' THEN 0 ELSE frameAge

\* input.rxLoss and input.rxFailSafe as readInputs leaves them
LossRead(s) == IF s = "IDLE" THEN rxLoss ELSE s \in {"LOST", "FAILSAFE"}
FailSafeRead(s) == IF s = "IDLE" THEN rxFailSafe ELSE s = "FAILSAFE"

\* --- what the branches of Input::failsafe assign ----------------------------

ValidFrame(s) == s = "RECEIVED" /\ channelsValid'

Interrupted(s) ==
  \/ s = "RECEIVED" /\ ~channelsValid'
  \/ s \in {"DROPPED", "LOST", "FAILSAFE"}

BoxRequested == maskSwitch.box /\ rxEverValid

LandOngoing == phase = "LANDING" /\ land.requested

\* healthyForUs: a valid frame opens the window if it is not open
QualifiedFor == IF recoveryActive THEN healthyFor ELSE 0

Window(open, age) ==
  /\ recoveryActive' = open
  /\ healthyFor' = IF open THEN age ELSE 0

Loss(lost, failsafe) == rxLoss' = lost /\ rxFailSafe' = failsafe

\* return true: the sticks do not reach the controller
Gate == handed' = FALSE /\ UNCHANGED us

\* return false, and Input::update calls filterInputs: the throttle follows
\* the buffer, an AUX channel only when a frame has arrived
Hand(s) ==
  /\ handed' = TRUE
  /\ us' = IF s = "IDLE" THEN [us EXCEPT !.thrust = buffer'.thrust] ELSE buffer'

\* failsafeStage1: the sticks take their failsafe values, AUTO for the
\* throttle (PWM_RANGE_MIN) and HOLD for the AUX channels (the buffer).
Stage1 ==
  /\ Window(FALSE, 0)
  /\ phase' = "RX_LOSS_DETECTED"
  /\ rxLoss' = TRUE
  /\ us' = [buffer' EXCEPT !.thrust = 0]

\* Mutant: every Stage-2 call of a landing restarts its timeout.
RequestLandAnew ==
  /\ armed /\ AutoLand
  /\ phase' = "LANDING"
  /\ land' = IF land.requested THEN [land EXCEPT !.elapsed = 0]
             ELSE [NoLand EXCEPT !.requested = TRUE, !.entryThrust = outThrust]
  /\ UNCHANGED armVars

\* Mutant: the phase is set inside the edge-triggered block.
RequestLandOnce ==
  /\ armed /\ AutoLand
  /\ IF land.requested THEN UNCHANGED <<phase, land>>
     ELSE /\ phase' = "LANDING"
          /\ land' = [NoLand EXCEPT !.requested = TRUE, !.entryThrust = outThrust]
  /\ UNCHANGED armVars

\* failsafeStage2 of an armed craft configured to land; a request in progress
\* keeps its supervisor state.
RequestLand ==
  /\ armed /\ AutoLand
  /\ phase' = "LANDING"
  /\ land' = IF land.requested THEN land
             ELSE [NoLand EXCEPT !.requested = TRUE, !.entryThrust = outThrust]
  /\ UNCHANGED armVars

\* failsafeStage2 of an armed craft configured to drop
Drop ==
  /\ armed /\ ~AutoLand
  /\ phase' = "LANDED"
  /\ land' = NoLand
  /\ Disarm("FAILSAFE")

\* failsafeStage2 of a craft that is already disarmed
StayDown ==
  /\ ~armed
  /\ phase' = IF phase = "LANDED" THEN phase ELSE "RX_LOSS_DETECTED"
  /\ UNCHANGED <<land, armVars>>

Stage2 ==
  /\ Window(FALSE, 0)
  /\ Loss(TRUE, TRUE)
  /\ RequestLand \/ Drop \/ StayDown
  /\ Gate
  /\ UNCHANGED rxEverValid

\* --- the branches ------------------------------------------------------------

BoxFailsafe == BoxRequested /\ Stage2

\* First qualification of a receiver since boot.
Qualifying(s) ==
  /\ ~BoxRequested /\ ValidFrame(s) /\ ~rxEverValid
  /\ QualifiedFor < RxRecovery
  /\ Window(TRUE, QualifiedFor)
  /\ Loss(TRUE, FALSE)
  /\ Gate
  /\ UNCHANGED <<phase, rxEverValid, land, armVars>>

Qualified(s) ==
  /\ ~BoxRequested /\ ValidFrame(s) /\ ~rxEverValid
  /\ QualifiedFor >= RxRecovery
  /\ rxEverValid' = TRUE
  /\ Window(FALSE, 0)
  /\ Loss(FALSE, FALSE)
  /\ phase' = "IDLE"
  /\ Hand(s)
  /\ UNCHANGED <<land, armVars>>

\* Mutant: only the receiver's own flags ask for recovery.
MustRecoverByFlags(s) == LossRead(s) \/ FailSafeRead(s)

\* A qualified receiver sends a valid frame while the failsafe is not idle.
MustRecover(s) == phase # "IDLE" \/ LossRead(s) \/ FailSafeRead(s)

LandCommitted(s) ==
  /\ ~BoxRequested /\ ValidFrame(s) /\ rxEverValid /\ MustRecover(s)
  /\ LandOngoing
  /\ Window(TRUE, QualifiedFor)
  /\ Loss(QualifiedFor < RxRecovery, FALSE)
  /\ Gate
  /\ UNCHANGED <<phase, rxEverValid, land, armVars>>

\* Mutant: every valid frame restarts the window.
RecoveringAnew(s) ==
  /\ ~BoxRequested /\ ValidFrame(s) /\ rxEverValid /\ MustRecover(s)
  /\ ~LandOngoing
  /\ QualifiedFor < RxRecovery
  /\ Window(TRUE, 0)
  /\ phase' = "RX_LOSS_MONITORING"
  /\ Loss(TRUE, FALSE)
  /\ Gate
  /\ UNCHANGED <<rxEverValid, land, armVars>>

Recovering(s) ==
  /\ ~BoxRequested /\ ValidFrame(s) /\ rxEverValid /\ MustRecover(s)
  /\ ~LandOngoing
  /\ QualifiedFor < RxRecovery
  /\ Window(TRUE, QualifiedFor)
  /\ phase' = "RX_LOSS_MONITORING"
  /\ Loss(TRUE, FALSE)
  /\ Gate
  /\ UNCHANGED <<rxEverValid, land, armVars>>

\* Mutant: recovery also forgets the landing.
RecoveredForgets(s) ==
  /\ ~BoxRequested /\ ValidFrame(s) /\ rxEverValid /\ MustRecover(s)
  /\ ~LandOngoing
  /\ QualifiedFor >= RxRecovery
  /\ Window(FALSE, 0)
  /\ phase' = "IDLE"
  /\ Loss(FALSE, FALSE)
  /\ Hand(s)
  /\ land' = NoLand
  /\ UNCHANGED <<rxEverValid, armVars>>

\* Mutant: the call of failsafeIdle is missing, so RECOVERED stays.
RecoveredHalfway(s) ==
  /\ ~BoxRequested /\ ValidFrame(s) /\ rxEverValid /\ MustRecover(s)
  /\ ~LandOngoing
  /\ QualifiedFor >= RxRecovery
  /\ Window(FALSE, 0)
  /\ phase' = "RX_LOSS_RECOVERED"
  /\ Loss(FALSE, FALSE)
  /\ Hand(s)
  /\ UNCHANGED <<rxEverValid, land, armVars>>

\* MONITORING, then RECOVERED, then failsafeIdle, all in one call
Recovered(s) ==
  /\ ~BoxRequested /\ ValidFrame(s) /\ rxEverValid /\ MustRecover(s)
  /\ ~LandOngoing
  /\ QualifiedFor >= RxRecovery
  /\ Window(FALSE, 0)
  /\ phase' = "IDLE"
  /\ Loss(FALSE, FALSE)
  /\ Hand(s)
  /\ UNCHANGED <<rxEverValid, land, armVars>>

LinkHealthy(s) ==
  /\ ~BoxRequested /\ ValidFrame(s) /\ rxEverValid /\ ~MustRecover(s)
  /\ Window(FALSE, 0)
  /\ Loss(FALSE, FALSE)
  /\ Hand(s)
  /\ UNCHANGED <<phase, rxEverValid, land, armVars>>

\* No valid frame: an invalid or reported one closes the window.
WindowOpen(s) == recoveryActive /\ ~Interrupted(s)

NeverQualified(s) ==
  /\ ~ValidFrame(s) /\ ~rxEverValid
  /\ Window(WindowOpen(s) /\ frameAge' < RecoveryGap, healthyFor)
  /\ Loss(TRUE, s = "FAILSAFE")
  /\ phase' = "IDLE"
  /\ Gate
  /\ UNCHANGED <<rxEverValid, land, armVars>>

ReportedFailsafe(s) ==
  /\ ~BoxRequested /\ rxEverValid
  /\ s = "FAILSAFE"
  /\ Stage2

StageTwoTimeout(s) ==
  /\ ~BoxRequested /\ ~ValidFrame(s) /\ rxEverValid
  /\ s # "FAILSAFE"
  /\ frameAge' > StageTwo
  /\ Stage2

StageOneTimeout(s) ==
  /\ ~BoxRequested /\ ~ValidFrame(s) /\ rxEverValid
  /\ s # "FAILSAFE"
  /\ frameAge' >= RecoveryGap /\ frameAge' <= StageTwo
  /\ Stage1
  /\ rxFailSafe' = FailSafeRead(s)
  /\ handed' = FALSE
  /\ UNCHANGED <<rxEverValid, land, armVars>>

\* Mutant: the gap is tested with <= instead of <.
FreshMissInclusive(s) ==
  /\ ~BoxRequested /\ ~ValidFrame(s) /\ rxEverValid
  /\ s # "FAILSAFE"
  /\ frameAge' <= RecoveryGap

\* The frame is missing or bad but the link is not stale.
FreshMiss(s) ==
  /\ ~BoxRequested /\ ~ValidFrame(s) /\ rxEverValid
  /\ s # "FAILSAFE"
  /\ frameAge' < RecoveryGap

RecoveryGate(s) ==
  /\ FreshMiss(s)
  /\ phase = "RX_LOSS_MONITORING" \/ LandOngoing
  /\ Window(WindowOpen(s), healthyFor)
  /\ Loss(LossRead(s), FailSafeRead(s))
  /\ Gate
  /\ UNCHANGED <<phase, rxEverValid, land, armVars>>

\* Mutant: a missing frame passes the sticks on whatever the phase is.
PassThroughUngated(s) ==
  /\ FreshMiss(s)
  /\ Window(WindowOpen(s), healthyFor)
  /\ Loss(LossRead(s), FailSafeRead(s))
  /\ Hand(s)
  /\ UNCHANGED <<phase, rxEverValid, land, armVars>>

PassThrough(s) ==
  /\ FreshMiss(s)
  /\ phase # "RX_LOSS_MONITORING" /\ ~LandOngoing
  /\ Window(WindowOpen(s), healthyFor)
  /\ Loss(LossRead(s), FailSafeRead(s))
  /\ Hand(s)
  /\ UNCHANGED <<phase, rxEverValid, land, armVars>>

Failsafe(s) ==
  \/ BoxFailsafe
  \/ Qualifying(s)
  \/ Qualified(s)
  \/ LandCommitted(s)
  \/ Recovering(s)
  \/ Recovered(s)
  \/ LinkHealthy(s)
  \/ NeverQualified(s)
  \/ ReportedFailsafe(s)
  \/ StageTwoTimeout(s)
  \/ StageOneTimeout(s)
  \/ RecoveryGate(s)
  \/ PassThrough(s)

\* Input::update as Espfc::update calls it.
UpdateInput(s, f, ok) ==
  /\ loop = "input"
  /\ s = "IDLE" => f = buffer /\ ok = channelsValid
  /\ ReadInputs(s, f, ok)
  /\ Failsafe(s)
  /\ WriteIfDisarmed
  /\ loop' = "control"
  /\ UNCHANGED <<actuated, switchVars, controlVars, gyroAge>>
=============================================================================
