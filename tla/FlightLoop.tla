----------------------------- MODULE FlightLoop -----------------------------
(***************************************************************************)
(* Espfc::update of the ESP32 (ESPFC_MULTI_CORE) build: each pass runs the *)
(* receiver, then sensors, controller and mixer, then the Actuator when    *)
(* its 50 Hz timer is due, then the serial ports.  A tick of 100 ms may    *)
(* fall between two passes, but only when the Actuator has run since the   *)
(* last one: the pass takes well under a millisecond and the Actuator's    *)
(* period is 20 ms.                                                        *)
(***************************************************************************)
EXTENDS RxInput, ThrustControl, ModeSupervisor

\* Model::begin and the begin() of Input, Actuator, Controller and Mixer.
Init ==
  /\ loop = "input" /\ actuated = FALSE
  /\ frameCount = 0 /\ channelsValid = FALSE /\ frameAge = 0
  /\ buffer = [thrust |-> 0, arm |-> FALSE, box |-> FALSE]
  /\ us = buffer
  /\ rxLoss = TRUE /\ rxFailSafe = FALSE
  /\ handed = FALSE
  /\ phase = "IDLE"
  /\ rxEverValid = FALSE /\ recoveryActive = FALSE /\ healthyFor = 0
  /\ land = NoLand
  /\ armed = FALSE /\ disarmReason = "ARMING_DISABLED"  \* the zero of the enum
  /\ maskSwitch = [arm |-> FALSE, box |-> FALSE]
  /\ armSwitchFlag = FALSE /\ mspFlag = FALSE
  /\ outThrust = 0 /\ vertOwned = FALSE
  /\ motors = "stop"
  /\ gyroAge = GyroStale

Input ==
  \E s \in Statuses, f \in Frames \cup {buffer}, ok \in BOOLEAN :
    UpdateInput(s, f, ok)

Control == \E est \in Estimates : UpdateControl(est)

Actuator == \E other \in Blocks, est \in Estimates : UpdateActuator(other, est)

ActuatorNotDue ==
  /\ loop = "actuator"
  /\ loop' = "serial"
  /\ UNCHANGED <<actuated, linkVars, lossVars, us, handed, phase, qualifyVars,
                 land, armVars, switchVars, controlVars, motors, gyroAge>>

\* MSP_SET_ARMING_DISABLED: whatever the argument, an armed craft is disarmed,
\* and nothing writes the disarmed outputs here.
SetArmingDisabled ==
  /\ mspFlag' \in MspCommands
  /\ IF armed THEN Disarm("ARMING_DISABLED") ELSE UNCHANGED armVars

Serial ==
  /\ loop = "serial"
  /\ SetArmingDisabled \/ UNCHANGED <<mspFlag, armVars>>
  /\ loop' = "input"
  /\ UNCHANGED <<actuated, linkVars, lossVars, us, handed, phase, qualifyVars,
                 land, maskSwitch, armSwitchFlag, controlVars, motors,
                 gyroAge>>

LandAged ==
  IF ~land.requested THEN land
  ELSE [land EXCEPT
          !.elapsed = Age(@, LandTimeout),
          !.dwell = IF land.candidate THEN Age(@, Dwell) ELSE @]

Tick ==
  /\ loop = "input" /\ actuated
  /\ actuated' = FALSE
  /\ frameAge' = Age(frameAge, StageTwo + 1)
  /\ healthyFor' = IF recoveryActive THEN Age(healthyFor, RxRecovery) ELSE healthyFor
  /\ land' = LandAged
  /\ gyroAge' = Age(gyroAge, GyroStale)
  /\ UNCHANGED <<loop, frameCount, channelsValid, buffer, lossVars, us, handed,
                 phase, rxEverValid, recoveryActive, armVars, switchVars,
                 controlVars, motors>>

Next ==
  \/ Input
  \/ Control
  \/ Actuator
  \/ ActuatorNotDue
  \/ Serial
  \/ Tick

Spec == Init /\ [][Next]_vars

\* The scheduler's guarantees: the loop keeps running, the Actuator timer is
\* never starved and time passes.  Nothing is assumed of the receiver, the
\* sensors, the sticks or MSP.
Fairness ==
  /\ WF_vars(Input) /\ WF_vars(Control) /\ WF_vars(Serial)
  /\ SF_vars(Actuator)
  /\ SF_vars(Tick)

FairSpec == Spec /\ Fairness

-----------------------------------------------------------------------------

(* Safety *)

\* While an armed craft is in any failsafe phase the sticks are withheld from
\* the controller, through every path by which Input::failsafe returns false.
SticksWithheld == armed /\ handed => phase = "IDLE"

\* Sticks older than RX_RECOVERY_GAP_US never reach the controller: once the
\* receiver has run in this pass, handed sticks come with a fresh frame, and
\* nothing the Actuator or MSP does in the rest of the pass changes that.
NoStaleSticks == handed /\ loop # "input" => frameAge < RecoveryGap

\* Past the Stage-2 delay an armed craft belongs to LAND; with DROP there is
\* none, so it is disarmed.  The Actuator may not arm one either.
LostLinkIsLanding ==
  armed /\ loop # "input" /\ frameAge > StageTwo => AutoLand /\ phase = "LANDING"

\* A supervisor that disarms stops the motors in the same call, on control
\* cycles skipped by a failing gyro too (Espfc::update, writeDisarmed).
DisarmedIsStopped ==
  ~armed /\ disarmReason # "ARMING_DISABLED" => motors = "stop"

\* After GYRO_STALE_US without a gyro sample the Actuator's next run leaves
\* the craft disarmed.
NoBlindFlight == armed /\ actuated => GyroFresh

\* After a failsafe disarm the craft arms again only at an update that finds
\* the ARM switch on when the one before had found it off; recovering the link
\* with the switch still on is not enough.
NoRearmAfterFailsafe ==
  [][~armed /\ armed' /\ disarmReason = "FAILSAFE" => ~maskSwitch.arm]_vars

\* A LAND that ends in touchdown, not by timeout or estimator loss, took at
\* least the minimum landing time and the dwell time.
CleanTouchdown ==
  [][phase = "LANDING" /\ phase' = "LANDED" /\ ~land'.fault
       => land.elapsed >= MinLanding + Dwell]_vars

\* A craft that stays armed keeps its LAND request, through link glitches and
\* repeated Stage-2 calls alike.
RequestOutlivesGlitches ==
  [][armed /\ land.requested /\ armed' => land'.requested]_vars

(* Liveness *)

\* A LAND in progress ends: by touchdown, estimator loss, disarming or timeout.
LandEnds == (armed /\ phase = "LANDING") ~> ~(armed /\ phase = "LANDING")

\* From some point on the receiver delivers a valid frame in every tick and
\* nothing bad, and the FAILSAFE switch is off.
LinkRestored ==
  <>[][loop = "input" /\ loop' = "control" =>
         /\ UpdateInput("RECEIVED", buffer', TRUE)
            \/ UpdateInput("IDLE", buffer, channelsValid)
         /\ frameAge' = 0
         /\ ~BoxRequested]_vars

\* With DROP, a restored link always ends the failsafe.
RestoredLinkRecovers == LinkRestored => <>[](phase = "IDLE")

(* The promise of the failsafe supervisor, stated abstractly in LinkGuard. *)
Guard == INSTANCE LinkGuard WITH
  Qualify <- RxRecovery,
  flying <- armed,
  trusted <- rxEverValid /\ phase = "IDLE",
  streak <- healthyFor,
  sticks <- handed

GuardsLink == Guard!Spec

-----------------------------------------------------------------------------

(* What the documentation says of LAND; see the README's findings. *)

\* docs/ASSISTED_V2_INTEGRATION.md: once Stage-2 AUTO_LAND begins, LAND remains
\* authoritative for that armed flight; a recovered receiver is qualified, but
\* the pilot's sticks are not handed back during the descent.
LandIsTerminal == armed /\ land.requested => ~handed

\* Actuator.cpp: touchdown is primarily confirmed from near-ground height and
\* low vertical speed.  On the ground, with thrust at its minimum and the
\* minimum landing time over, the Actuator starts confirming a LAND whose last
\* frame was valid and had the throttle at hover or above.
GroundContactCounts ==
  [][(\E other \in Blocks : UpdateActuator(other, "ground"))
       /\ LandOwnsControl /\ land.elapsed >= MinLanding
       /\ outThrust = 0 /\ frameAge > StageTwo
       /\ channelsValid /\ buffer.thrust >= Hover
       => land'.candidate \/ ~armed']_vars

\* Input.cpp: LAND stays in control through touchdown and disarm; the pilot can
\* re-arm afterward.  A craft disarmed during LAND leaves the phase.
LandReleases == (~armed /\ phase = "LANDING") ~> phase # "LANDING"
=============================================================================
