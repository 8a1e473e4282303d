-------------------------- MODULE FlightLoop_proofs --------------------------
(***************************************************************************)
(* Proofs about FlightLoop, for every value of its constants.              *)
(***************************************************************************)
EXTENDS FlightLoop, TLAPS

\* An age one tick later stays within the bound it saturates at (every
\* micros() difference of the model).
LEMMA AgeBounded ==
  ASSUME NEW bound \in Nat, NEW age \in 0..bound
  PROVE  /\ Age(age, bound) \in 0..bound
         /\ Age(age, bound) >= age /\ Age(age, bound) <= age + 1
  BY DEF Age

\* What readInputs leaves behind is well typed, and only a valid frame makes
\* the link younger.
LEMMA ReadInputsType ==
  ASSUME TypeOK, NEW s \in Statuses, NEW f \in Frames \cup {buffer},
         NEW ok \in BOOLEAN, ReadInputs(s, f, ok)
  PROVE  /\ frameCount' \in 0..MinFrames
         /\ channelsValid' \in BOOLEAN
         /\ buffer' \in Channels
         /\ frameAge' \in 0..(StageTwo + 1)
         /\ ValidFrame(s) => frameAge' = 0
         /\ ~ValidFrame(s) => frameAge' = frameAge
<1>1. frameCount' \in 0..MinFrames
  BY TimingAssumption, AgeBounded DEF ReadInputs, TypeOK
<1>2. channelsValid' \in BOOLEAN /\ buffer' \in Channels
  BY ConfigAssumption DEF ReadInputs, TypeOK
<1>3. QED
  BY <1>1, <1>2, TimingAssumption DEF ReadInputs, TypeOK, ValidFrame

\* Every branch of Input::failsafe leaves its own record well typed.
LEMMA FailsafeType ==
  ASSUME TypeOK, NEW s \in Statuses, buffer' \in Channels, Failsafe(s)
  PROVE  /\ rxLoss' \in BOOLEAN /\ rxFailSafe' \in BOOLEAN
         /\ us' \in Channels
         /\ handed' \in BOOLEAN
         /\ phase' \in Phase
         /\ rxEverValid' \in BOOLEAN /\ recoveryActive' \in BOOLEAN
         /\ healthyFor' \in 0..RxRecovery
         /\ land' \in Landing
         /\ armed' \in BOOLEAN /\ disarmReason' \in Reason
<1> DEFINE Typed ==
         /\ rxLoss' \in BOOLEAN /\ rxFailSafe' \in BOOLEAN
         /\ us' \in Channels
         /\ handed' \in BOOLEAN
         /\ phase' \in Phase
         /\ rxEverValid' \in BOOLEAN /\ recoveryActive' \in BOOLEAN
         /\ healthyFor' \in 0..RxRecovery
         /\ land' \in Landing
         /\ armed' \in BOOLEAN /\ disarmReason' \in Reason
<1>1. 0 \in 0..RxRecovery /\ 0 \in 0..LandTimeout /\ 0 \in 0..Dwell /\ 0 \in Thrusts
  BY TimingAssumption, ThrustAssumption DEF Thrusts
<1>2. QualifiedFor \in 0..RxRecovery
  BY <1>1 DEF QualifiedFor, TypeOK
<1>3. Hand(s) => us' \in Channels /\ handed' \in BOOLEAN
  BY DEF Hand, TypeOK, Channels
<1>4. Gate => us' \in Channels /\ handed' \in BOOLEAN
  BY DEF Gate, TypeOK
<1>5. ASSUME Stage2 PROVE Typed
  <2>1. NoLand \in Landing /\ [NoLand EXCEPT !.requested = TRUE, !.entryThrust = outThrust] \in Landing
    BY <1>1 DEF NoLand, Landing, TypeOK
  <2>2. land' \in Landing /\ armed' \in BOOLEAN /\ disarmReason' \in Reason /\ phase' \in Phase
    BY <1>5, <2>1 DEF Stage2, RequestLand, Drop, StayDown, Disarm, armVars, TypeOK, Phase, Reason
  <2>3. QED
    BY <1>5, <2>2, <1>1, <1>4 DEF Stage2, Window, Loss, TypeOK
<1>6. CASE BoxFailsafe \/ ReportedFailsafe(s) \/ StageTwoTimeout(s)
  BY <1>5, <1>6 DEF BoxFailsafe, ReportedFailsafe, StageTwoTimeout
<1>7. CASE Qualifying(s)
  BY <1>7, <1>2, <1>4, <1>1 DEF Qualifying, Window, Loss, armVars, TypeOK
<1>8. CASE Qualified(s)
  BY <1>8, <1>3, <1>1 DEF Qualified, Window, Loss, armVars, TypeOK, Phase
<1>9. CASE LandCommitted(s)
  <2>1. rxLoss' \in BOOLEAN /\ rxFailSafe' \in BOOLEAN
    <3>1. (QualifiedFor < RxRecovery) \in BOOLEAN
      OBVIOUS
    <3>2. QED
      BY <1>9, <3>1, Zenon DEF LandCommitted, Loss
  <2>2. QED
    BY <1>9, <2>1, <1>2, <1>4, <1>1 DEF LandCommitted, Window, armVars, TypeOK
<1>10. CASE Recovering(s)
  BY <1>10, <1>2, <1>4, <1>1 DEF Recovering, Window, Loss, armVars, TypeOK, Phase
<1>11. CASE Recovered(s)
  BY <1>11, <1>3, <1>1 DEF Recovered, Window, Loss, armVars, TypeOK, Phase
<1>12. CASE LinkHealthy(s)
  BY <1>12, <1>3, <1>1 DEF LinkHealthy, Window, Loss, armVars, TypeOK
<1>13. CASE NeverQualified(s)
  BY <1>13, <1>4, <1>1 DEF NeverQualified, Window, WindowOpen, Loss, armVars, TypeOK, Phase
<1>14. CASE StageOneTimeout(s)
  <2>1. us' \in Channels
    BY <1>14, <1>1 DEF StageOneTimeout, Stage1, Channels
  <2>2. QED
    BY <1>14, <2>1, <1>1 DEF StageOneTimeout, Stage1, Window, FailSafeRead, armVars, TypeOK, Phase
<1>15. LossRead(s) \in BOOLEAN /\ FailSafeRead(s) \in BOOLEAN
  <2>1. CASE s = "IDLE"
    BY <2>1 DEF LossRead, FailSafeRead, TypeOK
  <2>2. CASE s # "IDLE"
    <3>1. (s \in {"LOST", "FAILSAFE"}) \in BOOLEAN /\ (s = "FAILSAFE") \in BOOLEAN
      OBVIOUS
    <3>2. QED
      BY <2>2, <3>1 DEF LossRead, FailSafeRead
  <2>3. QED
    BY <2>1, <2>2
<1>16. CASE RecoveryGate(s)
  <2>1. rxLoss' \in BOOLEAN /\ rxFailSafe' \in BOOLEAN
    BY <1>16, <1>15 DEF RecoveryGate, Loss
  <2>2. QED
    BY <1>16, <2>1, <1>4, <1>1 DEF RecoveryGate, Window, WindowOpen, armVars, TypeOK
<1>17. CASE PassThrough(s)
  <2>1. rxLoss' \in BOOLEAN /\ rxFailSafe' \in BOOLEAN
    BY <1>17, <1>15 DEF PassThrough, Loss
  <2>2. QED
    BY <1>17, <2>1, <1>3, <1>1 DEF PassThrough, Window, WindowOpen, armVars, TypeOK
<1>18. QED
  BY <1>6, <1>7, <1>8, <1>9, <1>10, <1>11, <1>12, <1>13, <1>14, <1>16, <1>17 DEF Failsafe

-----------------------------------------------------------------------------

\* What updateModeMask and updateArmed pass on to the LAND supervisor.
LEMMA ArmingType ==
  ASSUME TypeOK, NEW other \in BOOLEAN, NEW est \in Estimate
  PROVE  /\ ModeArmed(other, est) \in BOOLEAN
         /\ ReasonNow(other, est) \in Reason
         /\ LandNow(other, est) \in Landing
<1>1. ModeArmed(other, est) \in BOOLEAN
  BY Zenon DEF ModeArmed
<1>2. ReasonNow(other, est) \in Reason
  BY DEF ReasonNow, TypeOK, Reason
<1>3. NoLand \in Landing
  BY TimingAssumption, ThrustAssumption DEF NoLand, Landing, Thrusts
<1>4. LandNow(other, est) \in Landing
  BY <1>3 DEF LandNow, TypeOK
<1>5. QED
  BY <1>1, <1>2, <1>4

\* Every branch of updateFailsafeLand leaves its record well typed.
LEMMA FailsafeLandType ==
  ASSUME TypeOK, NEW on \in BOOLEAN, NEW why \in Reason, NEW l \in Landing,
         NEW est \in Estimate, FailsafeLand(on, why, l, est)
  PROVE  /\ land' \in Landing
         /\ phase' \in Phase
         /\ armed' \in BOOLEAN /\ disarmReason' \in Reason
<1>1. 0 \in 0..LandTimeout /\ 0 \in 0..Dwell
  BY TimingAssumption
<1>2. Keep(on, why) => phase' \in Phase /\ armed' \in BOOLEAN /\ disarmReason' \in Reason
  BY DEF Keep, TypeOK
<1>3. EndLand => phase' \in Phase /\ armed' \in BOOLEAN /\ disarmReason' \in Reason
  BY DEF EndLand, Disarm, Phase, Reason
<1>4. Owning(l) \in Landing /\ Terminated(l) \in Landing
  BY <1>1 DEF Owning, Terminated, Landing
<1>5. TouchdownEvidence(l, est) \in BOOLEAN /\ Eligible(est) \in BOOLEAN
  BY Zenon DEF TouchdownEvidence, Eligible
<1>6. (l.fault \/ ~Eligible(est)) \in BOOLEAN
  OBVIOUS
<1>7. CASE NoRequest(on, why, l)
  BY <1>7, <1>1, <1>2 DEF NoRequest, Landing
<1>8. CASE RequestIdle(on, why, l, est)
  BY <1>8, <1>2, <1>5, <1>6 DEF RequestIdle, Landing
<1>9. CASE LandAborted(on, l, est) \/ LandTimedOut(on, l, est)
  BY <1>9, <1>3, <1>4 DEF LandAborted, LandTimedOut, Landing
<1>10. CASE AwaitTouchdown(on, why, l, est)
  BY <1>10, <1>2, <1>4, <1>5 DEF AwaitTouchdown, Landing
<1>11. CASE TouchdownLost(on, why, l, est)
  BY <1>11, <1>1, <1>2, <1>4 DEF TouchdownLost, Landing
<1>12. CASE TouchdownHeld(on, why, l, est)
  BY <1>12, <1>2, <1>4 DEF TouchdownHeld
<1>13. CASE TouchdownConfirmed(on, l, est)
  BY <1>13, <1>3, <1>4 DEF TouchdownConfirmed
<1>14. QED
  BY <1>7, <1>8, <1>9, <1>10, <1>11, <1>12, <1>13 DEF FailsafeLand

\* Every variable of the flight loop keeps its type (FlightState, TypeOK).
THEOREM TypeCorrect == Spec => []TypeOK
<1>1. Init => TypeOK
  <2> SUFFICES ASSUME Init PROVE TypeOK
    OBVIOUS
  <2>1. NoLand \in Landing
    BY TimingAssumption, ThrustAssumption DEF NoLand, Landing, Thrusts
  <2>2. buffer \in Channels /\ us \in Channels /\ outThrust \in Thrusts
    BY ThrustAssumption DEF Init, Channels, Thrusts
  <2>3. /\ frameCount \in 0..MinFrames /\ frameAge \in 0..(StageTwo + 1)
        /\ healthyFor \in 0..RxRecovery /\ gyroAge \in 0..GyroStale
    BY TimingAssumption DEF Init
  <2>4. QED
    BY <2>1, <2>2, <2>3 DEF Init, TypeOK, Phase, Reason
<1>2. TypeOK /\ [Next]_vars => TypeOK'
  <2> SUFFICES ASSUME TypeOK, [Next]_vars PROVE TypeOK'
    OBVIOUS
  <2>1. ASSUME Input PROVE TypeOK'
    <3>1. PICK s \in Statuses, f \in Frames \cup {buffer}, ok \in BOOLEAN :
            UpdateInput(s, f, ok)
      BY <2>1 DEF Input
    <3>2. /\ frameCount' \in 0..MinFrames
          /\ channelsValid' \in BOOLEAN
          /\ buffer' \in Channels
          /\ frameAge' \in 0..(StageTwo + 1)
      BY <3>1, ReadInputsType DEF UpdateInput
    <3>3. Failsafe(s) /\ WriteIfDisarmed
      BY <3>1 DEF UpdateInput
    <3>4. motors' \in {"stop", "run"}
      BY <3>3 DEF WriteIfDisarmed, TypeOK
    <3>5. QED
      BY <3>1, <3>2, <3>3, <3>4, FailsafeType
      DEF UpdateInput, TypeOK, switchVars, controlVars
  <2>2. ASSUME Control PROVE TypeOK'
    <3>1. PICK est \in Estimates : UpdateControl(est)
      BY <2>2 DEF Control
    <3>2. us.thrust \in Thrusts /\ gyroAge' \in 0..GyroStale
      BY <3>1, TimingAssumption DEF TypeOK, Channels, UpdateControl
    <3>3. outThrust' \in Thrusts /\ vertOwned' \in BOOLEAN /\ motors' \in {"stop", "run"}
      <4>1. CASE Controller(est) /\ Mixer
        <5>1. ThrustCommands(est) \subseteq Thrusts
          BY <3>2, ThrustAssumption DEF ThrustCommands, TypeOK
        <5>2. AltitudeActive(est) \in BOOLEAN
          BY Zenon DEF AltitudeActive
        <5>3. QED
          BY <4>1, <5>1, <5>2 DEF Controller, Mixer
      <4>2. CASE UNCHANGED <<gyroAge, controlVars, motors>>
        BY <4>2 DEF TypeOK, controlVars
      <4>3. QED
        BY <3>1, <4>1, <4>2 DEF UpdateControl
    <3>4. QED
      BY <3>1, <3>2, <3>3
      DEF UpdateControl, TypeOK, linkVars, lossVars, qualifyVars, armVars, switchVars
  <2>3. ASSUME Actuator PROVE TypeOK'
    <3>1. PICK other \in Blocks, est \in Estimates : UpdateActuator(other, est)
      BY <2>3 DEF Actuator
    <3>2. other \in BOOLEAN /\ est \in Estimate
      BY ConfigAssumption
    <3>3. /\ land' \in Landing /\ phase' \in Phase
          /\ armed' \in BOOLEAN /\ disarmReason' \in Reason
      BY <3>1, <3>2, ArmingType, FailsafeLandType DEF UpdateActuator
    <3>4. motors' \in {"stop", "run"}
      BY <3>1 DEF UpdateActuator, WriteIfDisarmed, TypeOK
    <3>5. maskSwitch' \in [arm : BOOLEAN, box : BOOLEAN]
      BY <3>1 DEF UpdateActuator, TypeOK, Channels
    <3>6. armSwitchFlag' \in BOOLEAN
      BY <3>1, Zenon DEF UpdateActuator
    <3>7. QED
      BY <3>1, <3>3, <3>4, <3>5, <3>6
      DEF UpdateActuator, TypeOK, linkVars, lossVars, qualifyVars, controlVars
  <2>4. ASSUME ActuatorNotDue PROVE TypeOK'
    BY <2>4 DEF ActuatorNotDue, TypeOK, linkVars, lossVars, qualifyVars, armVars,
       switchVars, controlVars
  <2>5. ASSUME Serial PROVE TypeOK'
    <3>1. mspFlag' \in BOOLEAN /\ armed' \in BOOLEAN /\ disarmReason' \in Reason
      BY <2>5, ConfigAssumption DEF Serial, SetArmingDisabled, Disarm, armVars, TypeOK, Reason
    <3>2. QED
      BY <2>5, <3>1 DEF Serial, TypeOK, linkVars, lossVars, qualifyVars, controlVars
  <2>6. ASSUME Tick PROVE TypeOK'
    <3>1. /\ frameAge' \in 0..(StageTwo + 1)
          /\ healthyFor' \in 0..RxRecovery
          /\ gyroAge' \in 0..GyroStale
      BY <2>6, TimingAssumption, AgeBounded DEF Tick, TypeOK
    <3>2. land' \in Landing
      <4>1. Age(land.elapsed, LandTimeout) \in 0..LandTimeout
        BY TimingAssumption, AgeBounded DEF TypeOK, Landing
      <4>2. Age(land.dwell, Dwell) \in 0..Dwell
        BY TimingAssumption, AgeBounded DEF TypeOK, Landing
      <4>3. QED
        BY <2>6, <4>1, <4>2 DEF Tick, LandAged, TypeOK, Landing
    <3>3. /\ loop' = loop /\ actuated' \in BOOLEAN
          /\ UNCHANGED <<frameCount, channelsValid, buffer, rxLoss, rxFailSafe, us,
                         handed, phase, rxEverValid, recoveryActive, armed,
                         disarmReason, maskSwitch, armSwitchFlag, mspFlag,
                         outThrust, vertOwned, motors>>
      BY <2>6 DEF Tick, lossVars, armVars, switchVars, controlVars
    <3>4. QED
      BY <3>1, <3>2, <3>3 DEF TypeOK
  <2>7. CASE UNCHANGED vars
    BY <2>7 DEF vars, clockVars, linkVars, lossVars, qualifyVars, armVars, switchVars,
       controlVars, TypeOK
  <2>8. QED
    BY <2>1, <2>2, <2>3, <2>4, <2>5, <2>6, <2>7 DEF Next
<1>3. QED
  BY <1>1, <1>2, PTL DEF Spec

-----------------------------------------------------------------------------

(* The inductive invariant of the flight loop. *)

\* Before its first qualification the receiver counts as lost, and nothing is
\* armed.
UnqualifiedIsIdle == ~rxEverValid => phase = "IDLE" /\ rxLoss /\ ~armed

\* An armed craft is never in LANDED; it stays in stage 1 only while no valid
\* frame has come back; and a LANDING it is in has its request.
ArmedPhase ==
  armed => /\ phase # "LANDED"
           /\ phase = "RX_LOSS_DETECTED" => frameAge >= RecoveryGap
           /\ phase = "LANDING" => land.requested

\* The qualification window is closed over a trusted link, and a closed window
\* has no age.
WindowClosed ==
  /\ ~recoveryActive => healthyFor = 0
  /\ rxEverValid /\ phase = "IDLE" => ~recoveryActive

\* Past the Stage-2 delay the loss flag is up when the Actuator looks at it.
LossSeen == loop # "input" /\ frameAge > StageTwo => rxLoss

\* After a failsafe disarm an ARM switch that was on is latched by the arming
\* flags, unless the Actuator has not run since; then the link cannot have
\* been qualified again, for at most one tick has passed.
SwitchLatched ==
  ~armed /\ disarmReason = "FAILSAFE" =>
    /\ rxEverValid
    /\ maskSwitch.arm /\ ~armSwitchFlag =>
         phase # "IDLE" /\ healthyFor <= 1 /\ (actuated => healthyFor = 0)

IInv ==
  /\ UnqualifiedIsIdle
  /\ ArmedPhase
  /\ WindowClosed
  /\ LossSeen
  /\ SwitchLatched
  /\ SticksWithheld
  /\ NoStaleSticks
  /\ LostLinkIsLanding
  /\ DisarmedIsStopped
  /\ NoBlindFlight

\* Input::update keeps the invariant, whichever way Input::failsafe returns.
LEMMA InputKeeps ==
  ASSUME TypeOK, IInv, NEW s \in Statuses, NEW f \in Frames \cup {buffer},
         NEW ok \in BOOLEAN, UpdateInput(s, f, ok)
  PROVE  IInv'
<1> USE DEF IInv, UnqualifiedIsIdle, ArmedPhase, WindowClosed, LossSeen,
        SwitchLatched, SticksWithheld, NoStaleSticks, LostLinkIsLanding,
        DisarmedIsStopped, NoBlindFlight, armVars, GyroFresh
<1>1. /\ frameAge \in Int /\ RecoveryGap \in Int /\ StageTwo \in Int
      /\ RecoveryGap > 0 /\ RecoveryGap <= StageTwo
      /\ healthyFor \in 0..RxRecovery /\ RxRecovery \in Nat /\ RxRecovery > 1
      /\ armed \in BOOLEAN /\ phase \in Phase
  BY TimingAssumption DEF TypeOK
<1>2. /\ ValidFrame(s) => frameAge' = 0
      /\ ~ValidFrame(s) => frameAge' = frameAge
  BY ReadInputsType DEF UpdateInput
<1>3. /\ loop = "input" /\ loop' = "control"
      /\ motors' = IF armed /\ ~armed' THEN "stop" ELSE motors
      /\ UNCHANGED <<actuated, maskSwitch, armSwitchFlag, gyroAge>>
      /\ Failsafe(s)
  BY DEF UpdateInput, WriteIfDisarmed, switchVars
<1>4. ASSUME Stage2, rxEverValid PROVE IInv'
  <2>1. /\ ~recoveryActive' /\ healthyFor' = 0 /\ rxLoss' /\ ~handed'
        /\ rxEverValid'
    BY <1>4 DEF Stage2, Window, Loss, Gate
  <2>2. CASE RequestLand
    BY <1>1, <1>3, <2>1, <2>2 DEF RequestLand, NoLand
  <2>3. CASE Drop
    BY <1>1, <1>3, <2>1, <2>3 DEF Drop, Disarm
  <2>4. CASE StayDown
    BY <1>1, <1>3, <2>1, <2>4 DEF StayDown
  <2>5. QED
    BY <1>4, <2>2, <2>3, <2>4 DEF Stage2
<1>5. CASE BoxFailsafe \/ ReportedFailsafe(s) \/ StageTwoTimeout(s)
  BY <1>4, <1>5 DEF BoxFailsafe, BoxRequested, ReportedFailsafe, StageTwoTimeout
<1>6. CASE Qualifying(s)
  BY <1>1, <1>2, <1>3, <1>6 DEF Qualifying, Window, QualifiedFor, Loss, Gate
<1>7. CASE Qualified(s)
  BY <1>1, <1>2, <1>3, <1>7 DEF Qualified, Window, Loss, Hand
<1>8. CASE LandCommitted(s)
  BY <1>1, <1>2, <1>3, <1>8
  DEF LandCommitted, LandOngoing, Window, QualifiedFor, Gate
<1>9. CASE Recovering(s)
  BY <1>1, <1>2, <1>3, <1>9
  DEF Recovering, Window, QualifiedFor, Loss, Gate
<1>10. CASE Recovered(s)
  BY <1>1, <1>2, <1>3, <1>10 DEF Recovered, Window, QualifiedFor, Loss, Hand
<1>11. CASE LinkHealthy(s)
  BY <1>1, <1>2, <1>3, <1>11 DEF LinkHealthy, MustRecover, Window, Loss, Hand
<1>12. CASE NeverQualified(s)
  BY <1>1, <1>2, <1>3, <1>12 DEF NeverQualified, Window, Loss, Gate
<1>13. CASE StageOneTimeout(s)
  BY <1>1, <1>2, <1>3, <1>13 DEF StageOneTimeout, Stage1, Window
<1>14. ASSUME Window(WindowOpen(s), healthyFor)
       PROVE  /\ recoveryActive' => recoveryActive
              /\ ~recoveryActive' => healthyFor' = 0
              /\ healthyFor' = 0 \/ healthyFor' = healthyFor
  BY <1>14 DEF Window, WindowOpen
<1>15. CASE RecoveryGate(s)
  BY <1>1, <1>2, <1>3, <1>14, <1>15 DEF RecoveryGate, FreshMiss, LandOngoing, Gate
<1>16. CASE PassThrough(s)
  BY <1>1, <1>2, <1>3, <1>14, <1>16 DEF PassThrough, FreshMiss, LandOngoing, Hand, Phase
<1>17. QED
  BY <1>3, <1>5, <1>6, <1>7, <1>8, <1>9, <1>10, <1>11, <1>12, <1>13, <1>15, <1>16
  DEF Failsafe

\* What the Actuator can do to the armed state, whatever the LAND supervisor
\* decides: a craft armed afterwards was armed with a fresh gyro, or passed
\* every arming check; and LAND only moves the phase when it disarms.
LEMMA ActuatorOutcome ==
  ASSUME TypeOK, NEW other \in BOOLEAN, NEW est \in Estimate,
         UpdateActuator(other, est)
  PROVE  /\ armed' => GyroFresh /\ us.arm
         /\ armed' /\ ~armed => ~ArmingBlocked(other, est) /\ land'.requested = FALSE
         /\ armed' /\ armed => land'.requested = land.requested
         /\ us.arm /\ ~ArmingBlocked(other, est) /\ phase = "IDLE" => armed'
         /\ \/ phase' = phase
            \/ phase = "LANDING" /\ phase' = "LANDED" /\ armed /\ ~armed'
         /\ ~armed /\ ~armed' => disarmReason' = disarmReason
<1> DEFINE on == ModeArmed(other, est)
           why == ReasonNow(other, est)
           l == LandNow(other, est)
<1>1. FailsafeLand(on, why, l, est)
  BY DEF UpdateActuator
<1>2. /\ on => GyroFresh /\ us.arm
      /\ on /\ ~armed => ~ArmingBlocked(other, est) /\ ~l.requested
      /\ on /\ armed => l = land
      /\ us.arm /\ ~ArmingBlocked(other, est) => on
      /\ ~armed /\ ~on => why = disarmReason
  BY DEF ModeArmed, StillArmed, ReasonNow, Arming, SwitchedOff, LandNow, NoLand,
     ArmingBlocked, TypeOK
<1>3. l \in Landing /\ on \in BOOLEAN
  BY ArmingType
<1> HIDE DEF on, why, l
<1>4. ASSUME Keep(on, why), land'.requested = l.requested
      PROVE  /\ armed' = on /\ disarmReason' = why /\ phase' = phase
             /\ land'.requested = l.requested
  BY <1>4 DEF Keep
<1>5. CASE armed' = on /\ disarmReason' = why /\ phase' = phase
           /\ land'.requested = l.requested
  BY <1>2, <1>3, <1>5 DEF TypeOK, Landing
<1>6. CASE EndLand /\ Descending(on, l)
  BY <1>2, <1>3, <1>6 DEF EndLand, Disarm, Descending, TypeOK
<1>7. CASE NoRequest(on, why, l) \/ RequestIdle(on, why, l, est)
  BY <1>3, <1>4, <1>5, <1>7 DEF NoRequest, RequestIdle, Landing
<1>8. CASE AwaitTouchdown(on, why, l, est) \/ TouchdownLost(on, why, l, est)
           \/ TouchdownHeld(on, why, l, est)
  BY <1>3, <1>4, <1>5, <1>8
  DEF AwaitTouchdown, TouchdownLost, TouchdownHeld, Owning, Landing
<1>9. CASE LandAborted(on, l, est) \/ LandTimedOut(on, l, est)
           \/ TouchdownConfirmed(on, l, est)
  BY <1>6, <1>9 DEF LandAborted, LandTimedOut, TouchdownConfirmed, InTime
<1>10. QED
  BY <1>1, <1>7, <1>8, <1>9 DEF FailsafeLand

\* Actuator::update keeps the invariant.
LEMMA ActuatorKeeps ==
  ASSUME TypeOK, IInv, NEW other \in BOOLEAN, NEW est \in Estimate,
         UpdateActuator(other, est)
  PROVE  IInv'
<1> USE DEF IInv
<1>1. /\ armed' => GyroFresh /\ us.arm
      /\ armed' /\ ~armed => ~ArmingBlocked(other, est) /\ land'.requested = FALSE
      /\ armed' /\ armed => land'.requested = land.requested
      /\ us.arm /\ ~ArmingBlocked(other, est) /\ phase = "IDLE" => armed'
      /\ \/ phase' = phase
         \/ phase = "LANDING" /\ phase' = "LANDED" /\ armed /\ ~armed'
      /\ ~armed /\ ~armed' => disarmReason' = disarmReason
  BY ActuatorOutcome
<1>2. /\ loop = "actuator" /\ loop' = "serial" /\ actuated'
      /\ maskSwitch'.arm = us.arm
      /\ armSwitchFlag' = (us.arm /\ ArmingBlocked(other, est))
      /\ motors' = IF armed /\ ~armed' THEN "stop" ELSE motors
      /\ UNCHANGED <<frameAge, rxLoss, handed, rxEverValid, recoveryActive,
                     healthyFor, gyroAge>>
  BY DEF UpdateActuator, WriteIfDisarmed, linkVars, lossVars, qualifyVars
<1>3. armed \in BOOLEAN /\ armed' \in BOOLEAN
  <2>1. FailsafeLand(ModeArmed(other, est), ReasonNow(other, est),
                     LandNow(other, est), est)
    BY DEF UpdateActuator
  <2>2. QED
    BY <2>1, ArmingType, FailsafeLandType DEF TypeOK
<1>4. armed' /\ ~armed => phase = "IDLE" /\ ~rxLoss
  BY <1>1 DEF ArmingBlocked
<1>5. UnqualifiedIsIdle' /\ ArmedPhase'
  BY <1>1, <1>2, <1>3, <1>4 DEF UnqualifiedIsIdle, ArmedPhase
<1>6. WindowClosed' /\ LossSeen'
  BY <1>1, <1>2 DEF WindowClosed, LossSeen
<1>7. SwitchLatched'
  <2> SUFFICES ASSUME ~armed', disarmReason' = "FAILSAFE"
               PROVE  rxEverValid' /\ (maskSwitch'.arm => armSwitchFlag')
    BY DEF SwitchLatched
  <2>1. rxEverValid'
    BY <1>1, <1>2, <1>3 DEF UnqualifiedIsIdle, SwitchLatched
  <2>2. us.arm => ArmingBlocked(other, est)
    BY <1>1 DEF ArmingBlocked
  <2>3. QED
    BY <1>2, <2>1, <2>2
<1>8. SticksWithheld' /\ NoStaleSticks'
  BY <1>1, <1>2, <1>3, <1>4 DEF SticksWithheld, NoStaleSticks
<1>9. LostLinkIsLanding'
  BY <1>1, <1>2, <1>3, <1>4 DEF LostLinkIsLanding, LossSeen
<1>10. DisarmedIsStopped'
  BY <1>1, <1>2, <1>3 DEF DisarmedIsStopped
<1>11. NoBlindFlight'
  BY <1>1, <1>2 DEF NoBlindFlight, GyroFresh
<1>12. QED
  BY <1>5, <1>6, <1>7, <1>8, <1>9, <1>10, <1>11

\* The safety invariants the runs check, and the facts they rest on.
THEOREM Invariance == Spec => []IInv
<1>1. Init => IInv
  BY TimingAssumption
  DEF Init, IInv, UnqualifiedIsIdle, ArmedPhase, WindowClosed, LossSeen, SwitchLatched,
      SticksWithheld, NoStaleSticks, LostLinkIsLanding, DisarmedIsStopped, NoBlindFlight
<1>2. TypeOK /\ TypeOK' /\ IInv /\ [Next]_vars => IInv'
  <2> SUFFICES ASSUME TypeOK, TypeOK', IInv, [Next]_vars PROVE IInv'
    OBVIOUS
  <2> USE DEF IInv
  <2>1. CASE Input
    BY <2>1, InputKeeps DEF Input
  <2>2. CASE Control
    <3>1. PICK est \in Estimates : UpdateControl(est)
      BY <2>2 DEF Control
    <3>2. /\ loop = "control" /\ loop' = "actuator"
          /\ UNCHANGED <<actuated, frameAge, rxLoss, handed, phase, rxEverValid,
                         recoveryActive, healthyFor, land, armed, disarmReason,
                         maskSwitch, armSwitchFlag>>
      BY <3>1 DEF UpdateControl, linkVars, lossVars, qualifyVars, armVars, switchVars
    <3>3. motors' = motors \/ motors' = IF Stop THEN "stop" ELSE "run"
      BY <3>1 DEF UpdateControl, Mixer
    <3>4. NoBlindFlight'
      <4>1. gyroAge' = 0 \/ gyroAge' = gyroAge
        BY <3>1 DEF UpdateControl
      <4>2. QED
        BY <3>2, <4>1, TimingAssumption DEF NoBlindFlight, GyroFresh
    <3>5. DisarmedIsStopped'
      BY <3>2, <3>3 DEF DisarmedIsStopped, Stop
    <3>6. QED
      BY <3>2, <3>4, <3>5
      DEF UnqualifiedIsIdle, ArmedPhase, WindowClosed, LossSeen, SwitchLatched,
          SticksWithheld, NoStaleSticks, LostLinkIsLanding
  <2>3. CASE Actuator
    BY <2>3, ActuatorKeeps, ConfigAssumption DEF Actuator
  <2>4. CASE ActuatorNotDue
    BY <2>4
    DEF ActuatorNotDue, linkVars, lossVars, qualifyVars, armVars, switchVars,
        UnqualifiedIsIdle, ArmedPhase, WindowClosed, LossSeen, SwitchLatched,
        SticksWithheld, NoStaleSticks, LostLinkIsLanding, DisarmedIsStopped,
        NoBlindFlight, GyroFresh
  <2>5. CASE Serial
    <3>1. /\ loop = "serial" /\ loop' = "input"
          /\ UNCHANGED <<actuated, frameAge, rxLoss, handed, phase, rxEverValid,
                         recoveryActive, healthyFor, land, maskSwitch, armSwitchFlag,
                         motors, gyroAge>>
      BY <2>5 DEF Serial, linkVars, lossVars, qualifyVars
    <3>2. \/ armed /\ ~armed' /\ disarmReason' = "ARMING_DISABLED"
          \/ armed' = armed /\ disarmReason' = disarmReason
      BY <2>5 DEF Serial, SetArmingDisabled, Disarm, armVars
    <3>3. QED
      BY <3>1, <3>2
      DEF UnqualifiedIsIdle, ArmedPhase, WindowClosed, LossSeen, SwitchLatched,
          SticksWithheld, NoStaleSticks, LostLinkIsLanding, DisarmedIsStopped,
          NoBlindFlight, GyroFresh
  <2>6. CASE Tick
    <3>1. /\ loop = "input" /\ actuated /\ ~actuated' /\ loop' = loop
          /\ UNCHANGED <<rxLoss, handed, phase, rxEverValid, recoveryActive, armed,
                         disarmReason, maskSwitch, armSwitchFlag, motors>>
          /\ land'.requested = land.requested
      BY <2>6
      DEF Tick, LandAged, lossVars, armVars, switchVars, TypeOK, Landing
    <3>2. /\ frameAge' >= frameAge /\ healthyFor' <= healthyFor + 1
          /\ ~recoveryActive => healthyFor' = healthyFor
          /\ frameAge \in Int /\ frameAge' \in Int /\ RecoveryGap \in Int
          /\ healthyFor \in Int /\ healthyFor' \in Int
      <4>1. frameAge' >= frameAge /\ frameAge \in Int /\ frameAge' \in Int
        BY <2>6, TimingAssumption, AgeBounded DEF Tick, TypeOK
      <4>2. /\ healthyFor' <= healthyFor + 1
            /\ ~recoveryActive => healthyFor' = healthyFor
            /\ healthyFor \in Int /\ healthyFor' \in Int
        BY <2>6, TimingAssumption DEF Tick, TypeOK, Age
      <4>3. QED
        BY <4>1, <4>2, TimingAssumption
    <3>3. QED
      BY <3>1, <3>2
      DEF UnqualifiedIsIdle, ArmedPhase, WindowClosed, LossSeen, SwitchLatched,
          SticksWithheld, NoStaleSticks, LostLinkIsLanding, DisarmedIsStopped,
          NoBlindFlight, GyroFresh
  <2>7. CASE UNCHANGED vars
    BY <2>7
    DEF vars, clockVars, linkVars, lossVars, qualifyVars, armVars, switchVars,
        UnqualifiedIsIdle, ArmedPhase, WindowClosed, LossSeen, SwitchLatched,
        SticksWithheld, NoStaleSticks, LostLinkIsLanding, DisarmedIsStopped,
        NoBlindFlight, GyroFresh
  <2>8. QED
    BY <2>1, <2>2, <2>3, <2>4, <2>5, <2>6, <2>7 DEF Next
<1>3. QED
  BY <1>1, <1>2, TypeCorrect, PTL DEF Spec

\* The failsafe gate: an armed craft in a failsafe phase is not flown by the
\* sticks.
THEOREM SticksGated == Spec => []SticksWithheld
  BY Invariance, PTL DEF IInv

\* Sticks that reach the controller are younger than RX_RECOVERY_GAP_US.
THEOREM SticksFresh == Spec => []NoStaleSticks
  BY Invariance, PTL DEF IInv

\* A receiver silent beyond the Stage-2 delay leaves the craft to LAND or
\* disarmed.
THEOREM LossHandled == Spec => []LostLinkIsLanding
  BY Invariance, PTL DEF IInv

\* A disarm by a supervisor stops the motors at once.
THEOREM DisarmStops == Spec => []DisarmedIsStopped
  BY Invariance, PTL DEF IInv

\* The Actuator never leaves a craft armed on a stale gyro.
THEOREM GyroGuard == Spec => []NoBlindFlight
  BY Invariance, PTL DEF IInv

-----------------------------------------------------------------------------

\* Only the Actuator arms: every other step keeps armed or clears it.
LEMMA OnlyActuatorArms ==
  ASSUME TypeOK, [Next]_vars, ~Actuator
  PROVE  armed' => armed
<1>1. CASE Input
  <2>1. PICK s \in Statuses : Failsafe(s)
    BY <1>1 DEF Input, UpdateInput
  <2>2. Stage2 => (armed' => armed)
    BY DEF Stage2, RequestLand, Drop, StayDown, Disarm, armVars
  <2>3. QED
    BY <2>1, <2>2
    DEF Failsafe, BoxFailsafe, Qualifying, Qualified, LandCommitted, Recovering,
        Recovered, LinkHealthy, NeverQualified, ReportedFailsafe, StageTwoTimeout,
        StageOneTimeout, RecoveryGate, PassThrough, armVars
<1>2. CASE Control
  BY <1>2 DEF Control, UpdateControl, armVars
<1>3. CASE ActuatorNotDue \/ Tick \/ UNCHANGED vars
  BY <1>3 DEF ActuatorNotDue, Tick, vars, armVars
<1>4. CASE Serial
  BY <1>4 DEF Serial, SetArmingDisabled, Disarm, armVars
<1>5. QED
  BY <1>1, <1>2, <1>3, <1>4 DEF Next

\* After a failsafe disarm, only an ARM switch seen off and on again arms.
THEOREM RearmNeedsEdge == Spec => NoRearmAfterFailsafe
<1> DEFINE Step == ~armed /\ armed' /\ disarmReason = "FAILSAFE" => ~maskSwitch.arm
<1>1. TypeOK /\ IInv /\ [Next]_vars => [Step]_vars
  <2> SUFFICES ASSUME TypeOK, IInv, [Next]_vars,
                      ~armed, armed', disarmReason = "FAILSAFE"
               PROVE  ~maskSwitch.arm
    OBVIOUS
  <2>1. PICK other \in Blocks, est \in Estimates : UpdateActuator(other, est)
    BY OnlyActuatorArms DEF Actuator
  <2>2. ~ArmingBlocked(other, est)
    BY <2>1, ActuatorOutcome, ConfigAssumption
  <2>3. phase = "IDLE" /\ ~armSwitchFlag
    BY <2>2 DEF ArmingBlocked
  <2>4. QED
    BY <2>3 DEF IInv, SwitchLatched
<1>2. QED
  BY <1>1, TypeCorrect, Invariance, PTL DEF Spec, NoRearmAfterFailsafe

\* The LAND request of a craft that stays armed survives every step.
THEOREM RequestSurvives == Spec => RequestOutlivesGlitches
<1> DEFINE Step == armed /\ land.requested /\ armed' => land'.requested
<1>1. TypeOK /\ [Next]_vars => [Step]_vars
  <2> SUFFICES ASSUME TypeOK, [Next]_vars, armed, land.requested, armed'
               PROVE  land'.requested
    OBVIOUS
  <2>1. CASE Input
    <3>1. PICK s \in Statuses : Failsafe(s)
      BY <2>1 DEF Input, UpdateInput
    <3>2. Stage2 => land'.requested
      BY DEF Stage2, RequestLand, Drop, StayDown, Disarm
    <3>3. QED
      BY <3>1, <3>2
      DEF Failsafe, BoxFailsafe, Qualifying, Qualified, LandCommitted, Recovering,
          Recovered, LinkHealthy, NeverQualified, ReportedFailsafe, StageTwoTimeout,
          StageOneTimeout, RecoveryGate, PassThrough
  <2>2. CASE Control \/ ActuatorNotDue \/ Serial \/ UNCHANGED vars
    BY <2>2 DEF Control, UpdateControl, ActuatorNotDue, Serial, vars
  <2>3. CASE Actuator
    BY <2>3, ActuatorOutcome, ConfigAssumption DEF Actuator
  <2>4. CASE Tick
    BY <2>4 DEF Tick, LandAged, TypeOK, Landing
  <2>5. QED
    BY <2>1, <2>2, <2>3, <2>4 DEF Next
<1>2. QED
  BY <1>1, TypeCorrect, PTL DEF Spec, RequestOutlivesGlitches

-----------------------------------------------------------------------------

\* A touchdown candidate began after the minimum landing time, and its dwell
\* timer has not run ahead of the landing's.
TouchdownTimed ==
  /\ phase = "LANDING" => AutoLand
  /\ land.requested /\ land.candidate => land.elapsed >= MinLanding + land.dwell
  /\ land.requested /\ ~land.candidate => land.dwell = 0

\* The Actuator keeps the touchdown bookkeeping, and confirms a touchdown only
\* after the full dwell.
LEMMA TouchdownStep ==
  ASSUME TypeOK, TouchdownTimed, NEW other \in BOOLEAN, NEW est \in Estimate,
         UpdateActuator(other, est)
  PROVE  /\ TouchdownTimed'
         /\ phase = "LANDING" /\ phase' = "LANDED" /\ ~land'.fault
              => land.elapsed >= MinLanding + Dwell
<1> DEFINE on == ModeArmed(other, est)
           why == ReasonNow(other, est)
           l == LandNow(other, est)
<1>1. FailsafeLand(on, why, l, est)
  BY DEF UpdateActuator
<1>2. l \in Landing
  BY ArmingType
<1>3. /\ l.requested => l = land
      /\ l.requested /\ l.candidate => l.elapsed >= MinLanding + l.dwell
      /\ l.requested /\ ~l.candidate => l.dwell = 0
  BY DEF LandNow, NoLand, TouchdownTimed
<1>4. /\ MinLanding \in Nat /\ Dwell \in Nat
      /\ l.elapsed \in Nat /\ l.dwell \in 0..Dwell
  BY <1>2, TimingAssumption DEF Landing
<1>5. phase = "LANDING" => AutoLand
  BY DEF TouchdownTimed
<1> HIDE DEF on, why, l
<1>6. Keep(on, why) => phase' = phase
  BY DEF Keep
<1>7. EndLand => phase' = "LANDED"
  BY DEF EndLand
<1>8. CASE NoRequest(on, why, l)
  BY <1>2, <1>5, <1>6, <1>8 DEF NoRequest, TouchdownTimed, Landing
<1>9. CASE RequestIdle(on, why, l, est)
  BY <1>2, <1>3, <1>5, <1>6, <1>9 DEF RequestIdle, TouchdownTimed, Landing
<1>10. CASE LandAborted(on, l, est) \/ LandTimedOut(on, l, est)
  BY <1>2, <1>7, <1>10
  DEF LandAborted, LandTimedOut, Terminated, TouchdownTimed, Landing
<1>11. CASE AwaitTouchdown(on, why, l, est)
  <2>1. TouchdownEvidence(l, est) => l.elapsed >= MinLanding
    BY DEF TouchdownEvidence
  <2>2. /\ land'.dwell = l.dwell /\ land'.elapsed = l.elapsed
        /\ land'.candidate => TouchdownEvidence(l, est)
        /\ l.dwell = 0
    BY <1>2, <1>3, <1>11 DEF AwaitTouchdown, InTime, Descending, Owning, Landing
  <2>3. Keep(on, why)
    BY <1>11 DEF AwaitTouchdown
  <2>4. QED
    BY <1>4, <1>5, <1>6, <2>1, <2>2, <2>3 DEF TouchdownTimed
<1>12. CASE TouchdownLost(on, why, l, est) \/ TouchdownHeld(on, why, l, est)
  BY <1>2, <1>3, <1>5, <1>6, <1>12
  DEF TouchdownLost, TouchdownHeld, InTime, Descending, Owning, TouchdownTimed, Landing
<1>13. CASE TouchdownConfirmed(on, l, est)
  <2>1. ~land'.requested /\ phase' = "LANDED"
    BY <1>2, <1>7, <1>13 DEF TouchdownConfirmed, Terminated, Landing
  <2>2. l.requested /\ l.candidate /\ l.dwell >= Dwell
    BY <1>13 DEF TouchdownConfirmed, InTime, Descending
  <2>3. QED
    BY <1>3, <1>4, <2>1, <2>2 DEF TouchdownTimed
<1>14. QED
  BY <1>1, <1>8, <1>9, <1>10, <1>11, <1>12, <1>13 DEF FailsafeLand

\* Input::update starts a landing only where AUTO_LAND is configured, with a
\* record that has no candidate, and never completes one.
LEMMA TouchdownInput ==
  ASSUME TouchdownTimed, NEW s \in Statuses, Failsafe(s)
  PROVE  /\ TouchdownTimed'
         /\ ~(phase = "LANDING" /\ phase' = "LANDED")
<1>1. ASSUME Stage2
      PROVE  TouchdownTimed' /\ ~(phase = "LANDING" /\ phase' = "LANDED")
  <2>1. CASE RequestLand
    BY <2>1 DEF RequestLand, NoLand, TouchdownTimed
  <2>2. CASE Drop
    BY <2>2 DEF Drop, NoLand, TouchdownTimed
  <2>3. CASE StayDown
    BY <2>3 DEF StayDown, TouchdownTimed
  <2>4. QED
    BY <1>1, <2>1, <2>2, <2>3 DEF Stage2
<1>2. ASSUME UNCHANGED land, phase' = phase \/ phase' \notin {"LANDING", "LANDED"}
      PROVE  TouchdownTimed' /\ ~(phase = "LANDING" /\ phase' = "LANDED")
  BY <1>2 DEF TouchdownTimed
<1>3. CASE BoxFailsafe \/ ReportedFailsafe(s) \/ StageTwoTimeout(s)
  BY <1>1, <1>3 DEF BoxFailsafe, ReportedFailsafe, StageTwoTimeout
<1>4. CASE Qualifying(s) \/ Qualified(s) \/ LandCommitted(s) \/ Recovering(s)
           \/ Recovered(s) \/ LinkHealthy(s) \/ NeverQualified(s)
           \/ StageOneTimeout(s) \/ RecoveryGate(s) \/ PassThrough(s)
  <2>1. UNCHANGED land /\ (phase' = phase \/ phase' \notin {"LANDING", "LANDED"})
    BY <1>4
    DEF Qualifying, Qualified, LandCommitted, Recovering, Recovered, LinkHealthy,
        NeverQualified, StageOneTimeout, Stage1, RecoveryGate, PassThrough
  <2>2. QED
    BY <1>2, <2>1
<1>5. QED
  BY <1>3, <1>4 DEF Failsafe

\* A LAND that ends without a fault ran for the minimum time and the dwell.
THEOREM TouchdownIsClean == Spec => CleanTouchdown
<1> DEFINE Step == phase = "LANDING" /\ phase' = "LANDED" /\ ~land'.fault
                     => land.elapsed >= MinLanding + Dwell
<1>1. Init => TouchdownTimed
  BY DEF Init, NoLand, TouchdownTimed
<1>2. TypeOK /\ TouchdownTimed /\ [Next]_vars => TouchdownTimed' /\ Step
  <2> SUFFICES ASSUME TypeOK, TouchdownTimed, [Next]_vars
               PROVE  TouchdownTimed' /\ Step
    OBVIOUS
  <2>1. CASE Input
    BY <2>1, TouchdownInput DEF Input, UpdateInput
  <2>2. CASE Actuator
    BY <2>2, TouchdownStep, ConfigAssumption DEF Actuator
  <2>3. CASE Control \/ ActuatorNotDue \/ Serial \/ UNCHANGED vars
    <3>1. UNCHANGED <<land, phase>>
      BY <2>3 DEF Control, UpdateControl, ActuatorNotDue, Serial, vars
    <3>2. QED
      BY <3>1 DEF TouchdownTimed
  <2>4. CASE Tick
    <3>1. phase' = phase /\ land' = LandAged
      BY <2>4 DEF Tick
    <3>2. /\ land.elapsed \in 0..LandTimeout /\ land.dwell \in 0..Dwell
          /\ LandTimeout \in Nat /\ Dwell \in Nat /\ MinLanding \in Nat
          /\ MinLanding + Dwell <= LandTimeout
      BY TimingAssumption DEF TypeOK, Landing
    <3>3. ASSUME land.requested
          PROVE  /\ land'.requested = land.requested
                 /\ land'.candidate = land.candidate
                 /\ land'.elapsed = Age(land.elapsed, LandTimeout)
                 /\ land'.dwell = IF land.candidate THEN Age(land.dwell, Dwell)
                                  ELSE land.dwell
      BY <3>1, <3>3 DEF LandAged, TypeOK, Landing
    <3>4. QED
      BY <3>1, <3>2, <3>3 DEF LandAged, TouchdownTimed, Age
  <2>5. QED
    BY <2>1, <2>2, <2>3, <2>4 DEF Next
<1>3. QED
  BY <1>1, <1>2, TypeCorrect, PTL DEF Spec, CleanTouchdown

\* No update of the Actuator leaves a craft armed in a LAND whose time is up,
\* through whatever glitches, arms and re-entries the request has come.
LandInTime ==
  [][Actuator /\ armed' /\ phase' = "LANDING" => land'.elapsed < LandTimeout]_vars

\* The safety half of LandEnds: LAND outlives its timeout by an Actuator period
\* at most.
THEOREM LandKeepsItsTime == Spec => LandInTime
<1> DEFINE Step == Actuator /\ armed' /\ phase' = "LANDING" => land'.elapsed < LandTimeout
<1>1. TypeOK /\ IInv /\ [Next]_vars => [Step]_vars
  <2> SUFFICES ASSUME TypeOK, IInv, Actuator, armed', phase' = "LANDING"
               PROVE  land'.elapsed < LandTimeout
    OBVIOUS
  <2>1. PICK other \in Blocks, est \in Estimates : UpdateActuator(other, est)
    BY DEF Actuator
  <2>2. other \in BOOLEAN /\ est \in Estimate
    BY ConfigAssumption
  <2> DEFINE on == ModeArmed(other, est)
             why == ReasonNow(other, est)
             l == LandNow(other, est)
  <2>3. FailsafeLand(on, why, l, est) /\ l \in Landing
    BY <2>1, <2>2, ArmingType DEF UpdateActuator
  <2>4. phase = "LANDING" /\ GyroFresh
    BY <2>1, <2>2, ActuatorOutcome
  <2>5. armed
    <3>1. ~armed => ~ArmingBlocked(other, est)
      BY <2>1, <2>2, ActuatorOutcome
    <3> QED BY <2>4, <3>1 DEF ArmingBlocked
  <2>6. l = land /\ l.requested
    BY <2>4, <2>5 DEF IInv, ArmedPhase, LandNow, Arming, StillArmed
  <2> HIDE DEF on, why, l
  <2>7. CASE NoRequest(on, why, l)
    BY <2>6, <2>7 DEF NoRequest
  <2>8. CASE RequestIdle(on, why, l, est)
    BY <2>4, <2>8 DEF RequestIdle, Keep
  <2>9. CASE LandAborted(on, l, est) \/ LandTimedOut(on, l, est) \/ TouchdownConfirmed(on, l, est)
    BY <2>9 DEF LandAborted, LandTimedOut, TouchdownConfirmed, EndLand
  <2>10. CASE \/ AwaitTouchdown(on, why, l, est)
              \/ TouchdownLost(on, why, l, est)
              \/ TouchdownHeld(on, why, l, est)
    <3>1. land'.elapsed = l.elapsed /\ l.elapsed < LandTimeout
      BY <2>3, <2>10
      DEF AwaitTouchdown, TouchdownLost, TouchdownHeld, InTime, Owning, Landing
    <3> QED BY <3>1
  <2> QED BY <2>3, <2>7, <2>8, <2>9, <2>10 DEF FailsafeLand
<1> QED BY <1>1, TypeCorrect, Invariance, PTL DEF Spec, LandInTime

-----------------------------------------------------------------------------

\* Input::update takes an abstract step, or none: it proves, withholds,
\* regains, loses or flies the link.
LEMMA InputImplements ==
  ASSUME TypeOK, IInv, NEW s \in Statuses, NEW f \in Frames \cup {buffer},
         NEW ok \in BOOLEAN, UpdateInput(s, f, ok)
  PROVE  [Guard!Next]_(Guard!guard)
<1> DEFINE trust == rxEverValid /\ phase = "IDLE"
<1>1. /\ phase \in Phase /\ rxEverValid \in BOOLEAN /\ armed \in BOOLEAN
      /\ handed \in BOOLEAN
      /\ healthyFor \in 0..RxRecovery /\ RxRecovery \in Nat /\ RxRecovery > 1
  BY TimingAssumption DEF TypeOK
<1>2. trust => healthyFor = 0
  BY DEF IInv, WindowClosed
<1>3. QualifiedFor = 0 \/ QualifiedFor = healthyFor
  BY DEF QualifiedFor
<1>4. Failsafe(s) /\ handed' \in BOOLEAN
  BY FailsafeType, ReadInputsType DEF UpdateInput
<1>5. ASSUME ~trust, ~trust', healthyFor' \in {0, healthyFor}, armed' \in {armed, FALSE},
             ~(armed' /\ handed')
      PROVE  Guard!Next
  BY <1>4, <1>5 DEF Guard!Next, Guard!Withhold
<1>6. ASSUME ~trust', healthyFor' = 0, ~handed', armed' \in {armed, FALSE}
      PROVE  Guard!Next
  <2>1. CASE trust
    <3>1. handed' = FALSE
      BY <1>4, <1>6
    <3>2. QED
      BY <1>6, <2>1, <3>1 DEF Guard!Next, Guard!Lose
  <2>2. CASE ~trust
    BY <1>5, <1>6, <2>2
  <2>3. QED
    BY <2>1, <2>2
<1>7. ASSUME trust, rxEverValid', phase' = "IDLE", healthyFor' = 0, handed' = TRUE,
             UNCHANGED armed
      PROVE  Guard!Next
  BY <1>2, <1>7, Zenon DEF Guard!Next, Guard!Fly
<1>8. ASSUME ~trust, QualifiedFor >= RxRecovery, rxEverValid', phase' = "IDLE",
             healthyFor' = 0, handed' = TRUE, UNCHANGED armed
      PROVE  Guard!Next
  <2>1. healthyFor = RxRecovery
    BY <1>1, <1>3, <1>8
  <2>2. (rxEverValid /\ phase = "IDLE")' = TRUE
    BY <1>8
  <2>3. QED
    BY <1>8, <2>1, <2>2 DEF Guard!Next, Guard!Regain
<1>9. ASSUME Stage2, rxEverValid PROVE Guard!Next
  <2>1. ~trust'
    BY <1>9 DEF Stage2, RequestLand, Drop, StayDown
  <2>2. healthyFor' = 0 /\ ~handed'
    BY <1>9 DEF Stage2, Window, Gate
  <2>3. armed' \in {armed, FALSE}
    BY <1>9 DEF Stage2, RequestLand, Drop, StayDown, Disarm, armVars
  <2>4. QED
    BY <1>6, <2>1, <2>2, <2>3
<1>10. CASE BoxFailsafe \/ ReportedFailsafe(s) \/ StageTwoTimeout(s)
  BY <1>9, <1>10 DEF BoxFailsafe, BoxRequested, ReportedFailsafe, StageTwoTimeout
<1>11. CASE Qualifying(s)
  <2>1. ~trust /\ ~trust' /\ ~handed'
    BY <1>11 DEF Qualifying, Gate
  <2>2. healthyFor' \in {0, healthyFor} /\ armed' = armed
    BY <1>3, <1>11 DEF Qualifying, Window, armVars
  <2>3. QED
    BY <1>5, <2>1, <2>2
<1>12. CASE Qualified(s)
  BY <1>8, <1>12 DEF Qualified, Window, Hand, armVars
<1>13. CASE LandCommitted(s)
  <2>1. ~trust /\ ~trust' /\ ~handed'
    BY <1>13 DEF LandCommitted, LandOngoing, Gate
  <2>2. healthyFor' \in {0, healthyFor} /\ armed' = armed
    BY <1>3, <1>13 DEF LandCommitted, Window, armVars
  <2>3. QED
    BY <1>5, <2>1, <2>2
<1>14. CASE Recovering(s)
  <2>1. ~trust' /\ ~handed' /\ armed' = armed
    BY <1>14 DEF Recovering, Gate, armVars
  <2>2. healthyFor' \in {0, healthyFor}
    BY <1>3, <1>14 DEF Recovering, Window
  <2>3. QED
    BY <1>2, <1>5, <1>6, <2>1, <2>2
<1>15. CASE Recovered(s)
  <2>1. ~trust
    BY <1>1, <1>2, <1>3, <1>15 DEF Recovered
  <2>2. QED
    BY <1>8, <1>15, <2>1 DEF Recovered, Window, Hand, armVars
<1>16. CASE LinkHealthy(s)
  BY <1>7, <1>16 DEF LinkHealthy, MustRecover, Window, Hand, armVars
<1>17. CASE NeverQualified(s)
  <2>1. ~trust /\ ~trust' /\ ~handed'
    BY <1>17 DEF NeverQualified, Gate
  <2>2. healthyFor' \in {0, healthyFor} /\ armed' = armed
    BY <1>17 DEF NeverQualified, Window, armVars
  <2>3. QED
    BY <1>5, <2>1, <2>2
<1>18. CASE StageOneTimeout(s)
  <2>1. ~trust' /\ ~handed' /\ healthyFor' = 0 /\ armed' = armed
    BY <1>18 DEF StageOneTimeout, Stage1, Window, armVars
  <2>2. QED
    BY <1>6, <2>1
<1>19. CASE RecoveryGate(s)
  <2>1. ~trust /\ ~trust' /\ ~handed'
    BY <1>19 DEF RecoveryGate, LandOngoing, Gate
  <2>2. healthyFor' \in {0, healthyFor} /\ armed' = armed
    BY <1>19 DEF RecoveryGate, Window, armVars
  <2>3. QED
    BY <1>5, <2>1, <2>2
<1>20. CASE PassThrough(s)
  <2>1. /\ handed' = TRUE /\ healthyFor' \in {0, healthyFor} /\ armed' = armed
        /\ UNCHANGED <<rxEverValid, phase>>
    BY <1>20 DEF PassThrough, Window, Hand, armVars
  <2>2. CASE trust
    BY <1>2, <1>7, <2>1, <2>2
  <2>3. CASE ~trust
    <3>1. ~armed'
      BY <1>20, InputKeeps, <2>1, <2>3 DEF IInv, SticksWithheld, PassThrough, FreshMiss
    <3>2. QED
      BY <1>5, <2>1, <2>3, <3>1
  <2>4. QED
    BY <2>2, <2>3
<1>21. QED
  BY <1>4, <1>10, <1>11, <1>12, <1>13, <1>14, <1>15, <1>16, <1>17, <1>18, <1>19, <1>20
  DEF Failsafe

\* The flight loop implements the abstract link guard: trust is regained only
\* by a full streak, sticks fly an armed craft only over a trusted link, and
\* only a trusted link arms.
THEOREM Refinement == Spec => GuardsLink
<1>1. Init => Guard!Init
  BY DEF Init, Guard!Init
<1>2. TypeOK /\ IInv /\ [Next]_vars => [Guard!Next]_(Guard!guard)
  <2> SUFFICES ASSUME TypeOK, IInv, [Next]_vars PROVE [Guard!Next]_(Guard!guard)
    OBVIOUS
  <2>1. CASE Input
    BY <2>1, InputImplements DEF Input
  <2>2. CASE Control \/ ActuatorNotDue \/ UNCHANGED vars
    BY <2>2
    DEF Control, UpdateControl, ActuatorNotDue, vars, qualifyVars, armVars, Guard!guard
  <2>3. CASE Actuator
    <3>1. PICK other \in Blocks, est \in Estimates : UpdateActuator(other, est)
      BY <2>3 DEF Actuator
    <3>2. UNCHANGED <<rxEverValid, healthyFor, handed, rxLoss>>
      BY <3>1 DEF UpdateActuator, qualifyVars, lossVars
    <3>3. /\ armed' /\ ~armed => ~ArmingBlocked(other, est)
          /\ \/ phase' = phase
             \/ phase = "LANDING" /\ phase' = "LANDED" /\ armed /\ ~armed'
      BY <3>1, ActuatorOutcome, ConfigAssumption
    <3>4. armed \in BOOLEAN /\ armed' \in BOOLEAN
      <4>1. FailsafeLand(ModeArmed(other, est), ReasonNow(other, est),
                         LandNow(other, est), est)
        BY <3>1 DEF UpdateActuator
      <4>2. QED
        BY <4>1, ArmingType, FailsafeLandType, ConfigAssumption DEF TypeOK
    <3>5. CASE armed' /\ ~armed
      <4>1. rxEverValid /\ phase = "IDLE" /\ phase' = phase
        BY <3>3, <3>5 DEF ArmingBlocked, IInv, UnqualifiedIsIdle
      <4>2. armed' = TRUE
        BY <3>4, <3>5
      <4>3. QED
        BY <3>2, <4>1, <4>2 DEF Guard!Next, Guard!Arm
    <3>6. CASE ~armed'
      <4>1. armed' = FALSE
        BY <3>4, <3>6
      <4>2. (rxEverValid /\ phase = "IDLE")' = (rxEverValid /\ phase = "IDLE")
        BY <3>2, <3>3
      <4>3. QED
        BY <3>2, <4>1, <4>2 DEF Guard!Next, Guard!Disarm
    <3>7. CASE armed' /\ armed
      BY <3>2, <3>3, <3>4, <3>7 DEF Guard!guard
    <3>8. QED
      BY <3>5, <3>6, <3>7
  <2>4. CASE Serial
    <3>1. UNCHANGED <<rxEverValid, phase, healthyFor, handed>>
      BY <2>4 DEF Serial, qualifyVars
    <3>2. armed' = FALSE \/ armed' = armed
      BY <2>4 DEF Serial, SetArmingDisabled, Disarm, armVars
    <3>3. QED
      BY <3>1, <3>2 DEF Guard!Next, Guard!Disarm, Guard!guard
  <2>5. CASE Tick
    <3>1. UNCHANGED <<rxEverValid, phase, handed, armed>>
      BY <2>5 DEF Tick, armVars
    <3>2. CASE healthyFor' = healthyFor
      BY <3>1, <3>2 DEF Guard!guard
    <3>3. CASE healthyFor' # healthyFor
      <4>1. recoveryActive /\ healthyFor < RxRecovery /\ healthyFor' = healthyFor + 1
        BY <2>5, <3>3 DEF Tick, Age
      <4>2. ~(rxEverValid /\ phase = "IDLE")
        BY <4>1 DEF IInv, WindowClosed
      <4>3. QED
        BY <3>1, <4>1, <4>2 DEF Guard!Next, Guard!Prove
    <3>4. QED
      BY <3>2, <3>3
  <2>6. QED
    BY <2>1, <2>2, <2>3, <2>4, <2>5 DEF Next
<1>3. QED
  BY <1>1, <1>2, TypeCorrect, Invariance, PTL DEF Spec, GuardsLink, Guard!Spec
=============================================================================
