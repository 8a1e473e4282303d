------------------------------- MODULE Assist -------------------------------
(***************************************************************************)
(* The assisted modes: what the Actuator (Actuator.cpp) makes of the mode  *)
(* conditions, ANGLE, ALTHOLD and AIRMODE included, and which of pilot,    *)
(* ALTHOLD and LAND commands the thrust in the Controller.  FlightLoop     *)
(* models the same two functions with ARM and FAILSAFE rows alone but with *)
(* every deadline; here time is left out, and the receiver supervisor,     *)
(* detailed in RxInput, is reduced to the phases told apart here.          *)
(*                                                                         *)
(* The loop calls the Controller some twenty times or more between two     *)
(* Actuator updates and MSP may come after each, so the actions interleave *)
(* freely.  What an update reads of sticks, sensors and estimators is an   *)
(* input of its action.                                                    *)
(***************************************************************************)
EXTENDS ModeRows, Integers

CONSTANTS
  Procedures,  \* what config.failsafe.procedure may be
  Conditions,  \* ACTUATOR_CONDITIONS
  Tables,      \* mode conditions the craft may boot with
  Edits,       \* what MSP_SET_MODE_RANGE may ask for
  Readings,    \* what one Actuator update can read
  MaxThrust,   \* thrust steps 0..MaxThrust, 0 is a low throttle
  AirThrottle, \* airModeActivateThreshold
  PidThrusts   \* what the vertical PID can command

Thrusts == 0..MaxThrust

\* the spring-centred ALTHOLD stick
Stick == {"centred", "deflected", "invalid"}

\* neither estimate is healthy, only the attitude is, or both are
Estimate == {"none", "attitude", "both"}

\* gyro: gyro.lastUpdateUs is fresh; blocked: a flag not named below is up
Reading ==
  [thrust : Thrusts, stick : Stick, est : Estimate, gyro : BOOLEAN,
   blocked : BOOLEAN]

\* MSP_SET_MODE_RANGE: a row for an index, or in the short form its mode and
\* range alone.
Edit == [at : Nat, row : Row, short : BOOLEAN]

ASSUME AssistAssumption ==
  /\ Procedures \subseteq {"DROP", "AUTO_LAND"}
  /\ Present \subseteq Aux
  /\ Conditions \in Nat
  /\ Tables \subseteq [1..Conditions -> Row]
  /\ Edits \subseteq Edit
  /\ Readings \subseteq Reading
  /\ MaxThrust \in Nat /\ AirThrottle \in Nat
  /\ PidThrusts \subseteq Thrusts

VARIABLES
  procedure,      \* config.failsafe.procedure
  rows,           \* config.conditions
  mask,           \* mode.mask without FAILSAFE, which only drives the buzzer
  maskSwitch,     \* mode.maskSwitch
  angleFault,     \* Actuator::_angleFaultLatched
  altFault,       \* Actuator::_altHoldFaultLatched
  airmodeAllowed, \* mode.airmodeAllowed
  armSwitchFlag,  \* ARMING_DISABLED_ARM_SWITCH
  phase,          \* failsafe.phase: "IDLE", "LANDING" or any "OTHER"
  land,           \* failsafe.landingRequested and landingOutputBlocked
  outThrust,      \* output.ch[AXIS_THRUST]
  vertOwned,      \* Controller::_altHoldV2OutputWasActive
  seen,           \* history: an update has seen the phase that is not IDLE
  fell,           \* history: modes taken away while their switch was on
  hand            \* history: the last thrust command was the pilot's or not

modeVars == <<mask, maskSwitch, angleFault, altFault, airmodeAllowed,
              armSwitchFlag, fell>>
failsafeVars == <<phase, land, seen>>
thrustVars == <<outThrust, vertOwned, hand>>
vars == <<procedure, rows, modeVars, failsafeVars, thrustVars>>

NoLand == [requested |-> FALSE, blocked |-> TRUE]

\* Actuator::begin and Model::begin
Init ==
  /\ procedure \in Procedures
  /\ rows \in Tables
  /\ mask = {} /\ maskSwitch = {}
  /\ angleFault = FALSE /\ altFault = FALSE
  /\ airmodeAllowed = FALSE /\ armSwitchFlag = FALSE
  /\ phase = "IDLE" /\ land = NoLand /\ seen = FALSE
  /\ outThrust = 0 /\ vertOwned = FALSE
  /\ fell = {} /\ hand = "pilot"

Armed == "ARMED" \in mask

\* Model::disarm
Disarmed(modes) == modes \ {"ARMED", "AIRMODE"}

\* --- Actuator::update --------------------------------------------------------

\* The modes after updateArmingDisabled: a stale gyro disarms.
Kept(r) == IF Armed /\ ~r.gyro THEN Disarmed(mask) ELSE mask

StickBad(asked, r) == "ALTHOLD" \in asked /\ r.stick = "invalid"

\* Mutant: a deflected stick does not keep the craft from arming.
AltHoldUnsafeEntry(asked, r) ==
  \/ r.est # "both"
     /\ ("ALTHOLD" \in asked \/ (procedure = "AUTO_LAND" /\ "ARMED" \in asked))
  \/ StickBad(asked, r)

\* ARMING_DISABLED_ALTHOLD
AltHoldUnsafe(asked, r) ==
  \/ r.est # "both"
     /\ ("ALTHOLD" \in asked \/ (procedure = "AUTO_LAND" /\ "ARMED" \in asked))
  \/ StickBad(asked, r)
  \/ "ALTHOLD" \in asked \ mask /\ r.stick # "centred"

\* Mutant: ARMING_DISABLED_ARM_SWITCH does not hold itself up.
ArmingDisabledUnlatched(asked, r) ==
  \/ ~r.gyro
  \/ phase # "IDLE"
  \/ r.thrust # 0
  \/ AltHoldUnsafe(asked, r)
  \/ "FAILSAFE" \in asked
  \/ r.blocked

\* armingDisabled() where updateModeMask sets ARMING_DISABLED_ARM_SWITCH,
\* which is one of the flags it sees
ArmingDisabled(asked, r) ==
  \/ ~r.gyro
  \/ phase # "IDLE"
  \/ r.thrust # 0
  \/ AltHoldUnsafe(asked, r)
  \/ "FAILSAFE" \in asked
  \/ armSwitchFlag
  \/ r.blocked

\* The fault latches: set while the mode is requested and its inputs are bad,
\* cleared when its switch is off.
AngleFault(asked, r) == "ANGLE" \in asked /\ (angleFault \/ r.est = "none")

\* Mutant: the ALTHOLD fault lasts as long as its cause.
AltFaultUnlatched(asked, r) ==
  "ALTHOLD" \in asked /\ (r.est # "both" \/ StickBad(asked, r))

AltFault(asked, r) ==
  "ALTHOLD" \in asked /\ (altFault \/ r.est # "both" \/ StickBad(asked, r))

\* The requested modes that the latches keep out; an unhealthy estimate and a
\* bad stick have latched above.
Distrusted(asked, r) ==
  {m \in {"ANGLE", "ALTHOLD"} :
     (m = "ANGLE" /\ AngleFault(asked, r)) \/ (m = "ALTHOLD" /\ AltFault(asked, r))}

\* canActivateMode, for a mode that is not active yet and not distrusted
CanActivate(mode, asked, r) ==
  /\ mode = "ARMED" => ~ArmingDisabled(asked, r)
  /\ mode = "AIRMODE" => airmodeAllowed
  /\ mode = "ALTHOLD" => r.stick = "centred"

\* the mask of updateModes
NewMask(asked, r) ==
  {m \in asked \ ({"FAILSAFE"} \cup Distrusted(asked, r)) :
     m \in Kept(r) \/ CanActivate(m, asked, r)}

\* updateArmed: a new arm starts a new LAND lifecycle.
LandNow(modes, r) == IF "ARMED" \in modes \ Kept(r) THEN NoLand ELSE land

\* updateFailsafeLand; when a descent ends is RxInput's and ModeSupervisor's
\* business, here it may end at any update
Land(modes, l, r) ==
  \/ /\ ~l.requested \/ "ARMED" \notin modes \/ phase # "LANDING"
     /\ land' = [l EXCEPT !.blocked = TRUE]
     /\ mask' = modes
     /\ UNCHANGED phase
  \/ /\ l.requested /\ "ARMED" \in modes /\ phase = "LANDING"
     /\ r.est = "both"
     /\ land' = [l EXCEPT !.blocked = FALSE]
     /\ mask' = modes
     /\ UNCHANGED phase
  \/ /\ l.requested /\ "ARMED" \in modes /\ phase = "LANDING"
     /\ land' = NoLand
     /\ mask' = Disarmed(modes)
     /\ phase' = "OTHER"

UpdateActuator(asked, r) ==
  /\ maskSwitch' = asked
  /\ angleFault' = AngleFault(asked, r)
  /\ altFault' = AltFault(asked, r)
  /\ armSwitchFlag' = ("ARMED" \in asked /\ ArmingDisabled(asked, r))
  /\ Land(NewMask(asked, r), LandNow(NewMask(asked, r), r), r)
  /\ airmodeAllowed' = ("ARMED" \in mask'
                          /\ (airmodeAllowed \/ r.thrust > AirThrottle))
  /\ fell' = (asked \ {"AIRMODE"}) \cap (fell \cup (mask \ mask'))
  /\ seen' = (phase # "IDLE")
  /\ UNCHANGED <<procedure, rows, thrustVars>>

Actuator ==
  \E asked \in {Requested(rows, on) : on \in SUBSET Present}, r \in Readings :
    UpdateActuator(asked, r)

\* --- Controller::update ------------------------------------------------------

\* landingV2OwnsControl; landingActive is set whenever the output is not blocked
LandOwnsControl == land.requested /\ phase = "LANDING" /\ ~land.blocked

\* assistedMode.altitudeActive: the Controller looks at the estimators itself
AltitudeActive(est) == ("ALTHOLD" \in mask \/ LandOwnsControl) /\ est = "both"

\* the first authoritative cycle keeps the command, the next are the PID's
AltitudeThrust ==
  /\ vertOwned' = TRUE
  /\ IF vertOwned THEN outThrust' \in PidThrusts ELSE UNCHANGED outThrust
  /\ hand' = "craft"

\* LAND without an estimate keeps the command
LandWaits ==
  /\ vertOwned' = FALSE
  /\ UNCHANGED outThrust
  /\ hand' = "craft"

\* Mutant: manual thrust leaves _altHoldV2OutputWasActive set.
PilotThrustOwned ==
  /\ UNCHANGED vertOwned
  /\ outThrust' \in Thrusts /\ hand' = "pilot"

\* input.ch[AXIS_THRUST]
PilotThrust ==
  /\ vertOwned' = FALSE
  /\ outThrust' \in Thrusts /\ hand' = "pilot"

UpdateController(est) ==
  /\ \/ AltitudeActive(est) /\ AltitudeThrust
     \/ ~AltitudeActive(est) /\ LandOwnsControl /\ LandWaits
     \/ ~AltitudeActive(est) /\ ~LandOwnsControl /\ PilotThrust
  /\ UNCHANGED <<procedure, rows, modeVars, failsafeVars>>

Controller == \E est \in Estimate : UpdateController(est)

\* --- Input::update, as far as the phase and the ARMED bit go -------------------

\* failsafeStage1 and the branches that leave the craft waiting for its link
LinkLost ==
  /\ phase # "OTHER"
  /\ phase' = "OTHER" /\ seen' = FALSE
  /\ UNCHANGED <<procedure, rows, modeVars, land, thrustVars>>

\* A link takes RX_RECOVERY_US to recover, many Actuator periods.
LinkRecovered ==
  /\ phase = "OTHER" /\ seen
  /\ phase' = "IDLE" /\ seen' = FALSE
  /\ UNCHANGED <<procedure, rows, modeVars, land, thrustVars>>

\* failsafeStage2 of an armed craft: LAND is requested, or the craft drops.
StageTwoLand ==
  /\ Armed /\ procedure = "AUTO_LAND"
  /\ phase' = "LANDING" /\ seen' = FALSE
  /\ land' = IF land.requested THEN land
             ELSE [requested |-> TRUE, blocked |-> TRUE]
  /\ UNCHANGED <<procedure, rows, modeVars, thrustVars>>

StageTwoDrop ==
  /\ Armed /\ procedure = "DROP"
  /\ phase' = "OTHER" /\ seen' = FALSE
  /\ land' = NoLand
  /\ mask' = Disarmed(mask)
  /\ fell' = fell \cup (maskSwitch \cap {"ARMED"})
  /\ UNCHANGED <<procedure, rows, maskSwitch, angleFault, altFault,
                 airmodeAllowed, armSwitchFlag, thrustVars>>

\* --- MSP -----------------------------------------------------------------------

\* The row an edit leaves: the short form keeps logicMode and linkId, and so
\* can turn a linked row into one that no long form may write.
Edited(e) ==
  IF e.short THEN [rows[e.at] EXCEPT !.id = e.row.id, !.aux = e.row.aux]
  ELSE e.row

Accepted(e) ==
  e.short \/ (e.row.link # e.row.id /\ (e.row.id = "ARMED" => ~HasLink(e.row)))

\* Mutant: the row's index is not checked.
SetModeRangeAnywhere ==
  /\ \E e \in Edits :
       /\ Accepted(e)
       /\ rows' = [i \in DOMAIN rows \cup {e.at} |->
                    IF i = e.at THEN e.row ELSE rows[i]]
  /\ UNCHANGED <<procedure, modeVars, failsafeVars, thrustVars>>

\* The row takes effect at the next update.
SetModeRange ==
  /\ \E e \in Edits :
       /\ e.at \in 1..Conditions
       /\ Accepted(e)
       /\ rows' = [rows EXCEPT ![e.at] = Edited(e)]
  /\ UNCHANGED <<procedure, modeVars, failsafeVars, thrustVars>>

\* MSP_SET_ARMING_DISABLED; its flag is one of those behind "blocked"
SetArmingDisabled ==
  /\ Armed
  /\ mask' = Disarmed(mask)
  /\ UNCHANGED <<procedure, rows, maskSwitch, angleFault, altFault, airmodeAllowed,
                 armSwitchFlag, fell, failsafeVars, thrustVars>>

Next ==
  \/ Actuator
  \/ Controller
  \/ LinkLost
  \/ LinkRecovered
  \/ StageTwoLand
  \/ StageTwoDrop
  \/ SetModeRange
  \/ SetArmingDisabled

Spec == Init /\ [][Next]_vars

-----------------------------------------------------------------------------

TypeOK ==
  /\ procedure \in {"DROP", "AUTO_LAND"}
  /\ rows \in [1..Conditions -> Row]
  /\ mask \subseteq Modes \ {"FAILSAFE"} /\ maskSwitch \subseteq Modes
  /\ angleFault \in BOOLEAN /\ altFault \in BOOLEAN
  /\ airmodeAllowed \in BOOLEAN /\ armSwitchFlag \in BOOLEAN
  /\ phase \in {"IDLE", "LANDING", "OTHER"}
  /\ land \in [requested : BOOLEAN, blocked : BOOLEAN]
  /\ outThrust \in Thrusts /\ vertOwned \in BOOLEAN
  /\ seen \in BOOLEAN
  /\ fell \subseteq {"ARMED", "ANGLE", "ALTHOLD"}
  /\ hand \in {"pilot", "craft"}

\* Whatever table MSP has put together, in whatever order, and wherever the
\* switches are, folding the rows into masks requests what the rows mean.
RequestedAsMeant ==
  \A on \in SUBSET Present : Requested(rows, on) = Meant(rows, on)

\* A mode that a supervisor took away while its switch was on, for a fault, a
\* stale gyro, the end of a LAND or a lost link, does not come back before an
\* update has found the switch off.
ReentryNeedsSwitchCycle == [][fell \cap mask' \subseteq mask]_vars

\* The thrust leaves the pilot's hands without a step: the cycle after his last
\* command repeats it, however often ALTHOLD, LAND and the estimates come and go.
BumplessEntry ==
  [][hand = "pilot" /\ hand' = "craft" => outThrust' = outThrust]_vars

\* A craft that arms with ALTHOLD on its switch has ALTHOLD, unless a fault
\* found at an earlier update keeps it out; it never arms into ALTHOLD in
\* waiting, or at the update that finds the estimate or the stick bad.
ArmsIntoAltHold ==
  [][~Armed /\ Armed' /\ "ALTHOLD" \in maskSwitch'
       => "ALTHOLD" \in mask' \/ altFault]_vars
=============================================================================
