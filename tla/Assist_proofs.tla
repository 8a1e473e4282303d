---------------------------- MODULE Assist_proofs ----------------------------
(***************************************************************************)
(* Proofs about Assist for every table of mode conditions, every edit and  *)
(* every set of readings.  The first part needs of Requested only that it  *)
(* is a set of modes.  The second shows what it computes: the modes that   *)
(* the rows mean, for a table of any length.                               *)
(***************************************************************************)
EXTENDS Assist, WellFoundedInduction, SequenceTheorems, TLAPS

\* Every loss of a mode is remembered by what will keep the mode out: the two
\* fault latches, the self-holding flag of the ARM switch, or a failsafe phase
\* that no update has seen yet and that the link cannot leave before one has.
LossIsLatched ==
  /\ "ANGLE" \in fell => angleFault
  /\ "ALTHOLD" \in fell => altFault
  /\ "ARMED" \in fell => armSwitchFlag \/ (phase # "IDLE" /\ ~seen)

\* The vertical PID's entry flag never outlives a cycle of manual thrust.
PilotIsNotOwned == hand = "pilot" => ~vertOwned

IInv == TypeOK /\ LossIsLatched /\ PilotIsNotOwned

LEMMA RequestsAreModes == \A table, on : Requested(table, on) \subseteq Modes
BY Zenon DEF Requested

\* What an update can do to the modes: it keeps requested ones that it trusts,
\* adds those it may activate, and the end of a LAND takes ARMED and AIRMODE.
LEMMA UpdateMasks ==
  ASSUME NEW asked, NEW r, UpdateActuator(asked, r)
  PROVE  /\ mask' = NewMask(asked, r)
            \/ (mask' = Disarmed(NewMask(asked, r)) /\ phase = "LANDING")
         /\ phase' = phase \/ phase' = "OTHER"
         /\ land' \in {NoLand, [land EXCEPT !.blocked = TRUE],
                       [land EXCEPT !.blocked = FALSE],
                       [NoLand EXCEPT !.blocked = TRUE],
                       [NoLand EXCEPT !.blocked = FALSE]}
BY DEF UpdateActuator, Land, LandNow

THEOREM Initial == Init => IInv
<1> SUFFICES ASSUME Init PROVE IInv
  OBVIOUS
<1>1. procedure \in {"DROP", "AUTO_LAND"} /\ rows \in [1..Conditions -> Row]
  BY AssistAssumption DEF Init
<1>2. outThrust \in Thrusts
  BY AssistAssumption DEF Init, Thrusts
<1>3. land \in [requested : BOOLEAN, blocked : BOOLEAN]
  BY DEF Init, NoLand
<1>4. TypeOK
  BY <1>1, <1>2, <1>3 DEF Init, TypeOK
<1> QED BY <1>4 DEF Init, IInv, LossIsLatched, PilotIsNotOwned

-----------------------------------------------------------------------------
(* The Actuator *)

\* The type of what an update leaves.
LEMMA ActuatorType ==
  ASSUME TypeOK, NEW asked \in SUBSET Modes, NEW r \in Readings,
         UpdateActuator(asked, r)
  PROVE  TypeOK'
<1>1. mask' \subseteq Modes \ {"FAILSAFE"}
  BY UpdateMasks DEF NewMask, Disarmed
<1>2. phase' \in {"IDLE", "LANDING", "OTHER"}
  BY UpdateMasks DEF TypeOK
<1>3. land' \in [requested : BOOLEAN, blocked : BOOLEAN]
  <2>1. ASSUME NEW l \in [requested : BOOLEAN, blocked : BOOLEAN]
        PROVE  /\ [l EXCEPT !.blocked = TRUE] \in [requested : BOOLEAN, blocked : BOOLEAN]
               /\ [l EXCEPT !.blocked = FALSE] \in [requested : BOOLEAN, blocked : BOOLEAN]
    OBVIOUS
  <2>2. /\ NoLand \in [requested : BOOLEAN, blocked : BOOLEAN]
        /\ land \in [requested : BOOLEAN, blocked : BOOLEAN]
    BY DEF NoLand, TypeOK
  <2> QED BY <2>1, <2>2, UpdateMasks
<1>4. /\ angleFault' \in BOOLEAN /\ altFault' \in BOOLEAN /\ seen' \in BOOLEAN
  BY DEF UpdateActuator, AngleFault, AltFault
<1>5. armSwitchFlag' \in BOOLEAN
  BY DEF UpdateActuator
<1>6. airmodeAllowed' \in BOOLEAN
  BY Zenon DEF UpdateActuator
<1>7. fell' \subseteq {"ARMED", "ANGLE", "ALTHOLD"}
  BY DEF UpdateActuator, TypeOK, Modes
<1> QED
  BY <1>1, <1>2, <1>3, <1>4, <1>5, <1>6, <1>7 DEF UpdateActuator, thrustVars, TypeOK

\* Neither a fault latch nor the ARM switch's flag lets a lost mode back in.
LEMMA ActuatorKeepsOut ==
  ASSUME TypeOK, LossIsLatched, NEW asked, NEW r, UpdateActuator(asked, r)
  PROVE  fell \cap mask' \subseteq mask
<1>1. mask' \subseteq NewMask(asked, r)
  BY UpdateMasks DEF Disarmed
<1>2. Kept(r) \subseteq mask
  BY DEF Kept, Disarmed
<1>3. ASSUME "ANGLE" \in fell, "ANGLE" \in mask' PROVE FALSE
  <2>1. "ANGLE" \in asked /\ "ANGLE" \notin Distrusted(asked, r)
    BY <1>1, <1>3 DEF NewMask
  <2> QED BY <1>3, <2>1 DEF Distrusted, AngleFault, LossIsLatched
<1>4. ASSUME "ALTHOLD" \in fell, "ALTHOLD" \in mask' PROVE FALSE
  <2>1. "ALTHOLD" \in asked /\ "ALTHOLD" \notin Distrusted(asked, r)
    BY <1>1, <1>4 DEF NewMask
  <2> QED BY <1>4, <2>1 DEF Distrusted, AltFault, LossIsLatched
<1>5. ASSUME "ARMED" \in fell, "ARMED" \in mask' PROVE "ARMED" \in mask
  <2>1. "ARMED" \in Kept(r) \/ ~ArmingDisabled(asked, r)
    BY <1>1, <1>5 DEF NewMask, CanActivate
  <2>2. ArmingDisabled(asked, r)
    BY <1>5 DEF LossIsLatched, ArmingDisabled
  <2> QED BY <1>2, <2>1, <2>2
<1> QED BY <1>3, <1>4, <1>5 DEF TypeOK

\* A mode lost at an update leaves its latch behind.
LEMMA ActuatorLatches ==
  ASSUME TypeOK, LossIsLatched, NEW asked, NEW r, UpdateActuator(asked, r)
  PROVE  LossIsLatched'
<1>1. fell' = (asked \ {"AIRMODE"}) \cap (fell \cup (mask \ mask'))
  BY DEF UpdateActuator
<1>2. \A m \in {"ANGLE", "ALTHOLD"} : m \in mask => m \in Kept(r)
  BY DEF Kept, Disarmed
<1>3. \A m \in {"ANGLE", "ALTHOLD"} : m \in NewMask(asked, r) => m \in mask'
  BY UpdateMasks DEF Disarmed
<1>4. \A m \in {"ANGLE", "ALTHOLD"} :
        m \in fell' => m \in asked /\ (m \in fell \/ m \in Distrusted(asked, r))
  BY <1>1, <1>2, <1>3 DEF NewMask
<1>5. "ANGLE" \in fell' => angleFault'
  BY <1>4 DEF Distrusted, AngleFault, UpdateActuator, LossIsLatched
<1>6. "ALTHOLD" \in fell' => altFault'
  BY <1>4 DEF Distrusted, AltFault, UpdateActuator, LossIsLatched
<1>7. ASSUME "ARMED" \in fell' PROVE armSwitchFlag'
  <2>1. "ARMED" \in asked
    BY <1>1, <1>7
  <2>2. CASE "ARMED" \in fell
    BY <2>1, <2>2 DEF LossIsLatched, ArmingDisabled, UpdateActuator
  <2>3. CASE "ARMED" \in mask \ mask'
    <3>1. CASE ~r.gyro
      BY <2>1, <3>1 DEF ArmingDisabled, UpdateActuator
    <3>2. CASE r.gyro
      <4>1. "ARMED" \in NewMask(asked, r)
        BY <2>1, <2>3, <3>2 DEF NewMask, Kept, Distrusted
      <4>2. phase = "LANDING"
        BY <2>3, <4>1, UpdateMasks
      <4> QED BY <2>1, <4>2 DEF ArmingDisabled, UpdateActuator
    <3> QED BY <3>1, <3>2
  <2> QED BY <1>1, <1>7, <2>2, <2>3
<1> QED BY <1>5, <1>6, <1>7 DEF LossIsLatched

\* A craft arms only when ALTHOLD, if requested, is or becomes active.
LEMMA ActuatorArms ==
  ASSUME NEW asked, NEW r, UpdateActuator(asked, r), ~Armed, Armed',
         "ALTHOLD" \in maskSwitch', ~altFault
  PROVE  "ALTHOLD" \in mask'
<1>1. "ALTHOLD" \in asked
  BY DEF UpdateActuator
<1>2. Kept(r) = mask
  BY DEF Kept
<1>3. "ARMED" \in NewMask(asked, r) \ mask
  BY UpdateMasks DEF Armed, Disarmed
<1>4. ~AltHoldUnsafe(asked, r)
  BY <1>2, <1>3 DEF NewMask, CanActivate, ArmingDisabled
<1>5. ~AltFault(asked, r)
  BY <1>1, <1>4 DEF AltHoldUnsafe, AltFault
<1>6. "ALTHOLD" \in mask \/ r.stick = "centred"
  BY <1>1, <1>4 DEF AltHoldUnsafe
<1>7. "ALTHOLD" \in NewMask(asked, r)
  BY <1>1, <1>2, <1>5, <1>6 DEF NewMask, CanActivate, Distrusted
<1> QED BY <1>7, UpdateMasks DEF Disarmed

-----------------------------------------------------------------------------
(* The invariant *)

LEMMA ControllerStep ==
  ASSUME IInv, NEW est, UpdateController(est)
  PROVE  IInv'
<1>1. outThrust' \in Thrusts
  BY AssistAssumption
  DEF UpdateController, AltitudeThrust, LandWaits, PilotThrust, IInv, TypeOK
<1>2. vertOwned' \in BOOLEAN /\ hand' \in {"pilot", "craft"}
  BY DEF UpdateController, AltitudeThrust, LandWaits, PilotThrust
<1>3. PilotIsNotOwned'
  BY DEF UpdateController, AltitudeThrust, LandWaits, PilotThrust, PilotIsNotOwned
<1>4. TypeOK'
  BY <1>1, <1>2
  DEF UpdateController, IInv, TypeOK, modeVars, failsafeVars
<1> QED
  BY <1>3, <1>4
  DEF UpdateController, IInv, LossIsLatched, modeVars, failsafeVars

LEMMA LinkStep ==
  ASSUME IInv, LinkLost \/ LinkRecovered \/ StageTwoLand
  PROVE  IInv'
<1>1. land' \in [requested : BOOLEAN, blocked : BOOLEAN]
  <2>1. land' = land \/ land' = [requested |-> TRUE, blocked |-> TRUE]
    BY DEF LinkLost, LinkRecovered, StageTwoLand
  <2>2. [requested |-> TRUE, blocked |-> TRUE] \in [requested : BOOLEAN, blocked : BOOLEAN]
    OBVIOUS
  <2>3. land \in [requested : BOOLEAN, blocked : BOOLEAN]
    BY DEF IInv, TypeOK
  <2> QED BY <2>1, <2>2, <2>3
<1>2. TypeOK'
  BY <1>1 DEF LinkLost, LinkRecovered, StageTwoLand, IInv, TypeOK, modeVars, thrustVars
<1>3. LossIsLatched'
  BY DEF LinkLost, LinkRecovered, StageTwoLand, IInv, LossIsLatched, modeVars
<1> QED
  BY <1>2, <1>3
  DEF LinkLost, LinkRecovered, StageTwoLand, IInv, PilotIsNotOwned, thrustVars

LEMMA DropStep ==
  ASSUME IInv, StageTwoDrop
  PROVE  IInv'
<1>1. mask' \subseteq Modes \ {"FAILSAFE"}
  BY DEF StageTwoDrop, Disarmed, IInv, TypeOK
<1>2. fell' \subseteq {"ARMED", "ANGLE", "ALTHOLD"}
  BY DEF StageTwoDrop, IInv, TypeOK
<1>3. TypeOK'
  BY <1>1, <1>2 DEF StageTwoDrop, NoLand, IInv, TypeOK, thrustVars
<1>4. LossIsLatched'
  BY DEF StageTwoDrop, IInv, LossIsLatched
<1> QED
  BY <1>3, <1>4 DEF StageTwoDrop, IInv, PilotIsNotOwned, thrustVars

LEMMA EditStep ==
  ASSUME IInv, SetModeRange
  PROVE  IInv'
<1>1. PICK e \in Edits : /\ e.at \in 1..Conditions
                        /\ rows' = [rows EXCEPT ![e.at] = Edited(e)]
  BY DEF SetModeRange
<1>2. e.row \in Row /\ e.at \in 1..Conditions /\ rows[e.at] \in Row
  BY <1>1, AssistAssumption DEF IInv, TypeOK, Edit
<1>3. Edited(e) \in Row
  BY <1>2 DEF Edited, Row
<1>4. rows' \in [1..Conditions -> Row]
  BY <1>1, <1>3 DEF IInv, TypeOK
<1> QED
  BY <1>4
  DEF SetModeRange, IInv, TypeOK, LossIsLatched, PilotIsNotOwned, modeVars,
      failsafeVars, thrustVars

LEMMA MspDisarmStep ==
  ASSUME IInv, SetArmingDisabled
  PROVE  IInv'
BY DEF SetArmingDisabled, Disarmed, IInv, TypeOK, LossIsLatched, PilotIsNotOwned,
       failsafeVars, thrustVars

THEOREM Inductive == IInv /\ [Next]_vars => IInv'
<1> SUFFICES ASSUME IInv, [Next]_vars PROVE IInv'
  OBVIOUS
<1>1. CASE Actuator
  <2>1. PICK asked \in {Requested(rows, on) : on \in SUBSET Present}, r \in Readings :
          UpdateActuator(asked, r)
    BY <1>1 DEF Actuator
  <2>2. asked \in SUBSET Modes
    BY <2>1, RequestsAreModes
  <2>3. TypeOK' /\ LossIsLatched'
    BY <2>1, <2>2, ActuatorType, ActuatorLatches DEF IInv
  <2> QED BY <2>1, <2>3 DEF UpdateActuator, thrustVars, IInv, PilotIsNotOwned
<1>2. CASE Controller
  BY <1>2, ControllerStep DEF Controller
<1>3. CASE LinkLost \/ LinkRecovered \/ StageTwoLand
  BY <1>3, LinkStep
<1>4. CASE StageTwoDrop
  BY <1>4, DropStep
<1>5. CASE SetModeRange
  BY <1>5, EditStep
<1>6. CASE SetArmingDisabled
  BY <1>6, MspDisarmStep
<1>7. CASE UNCHANGED vars
  BY <1>7
  DEF vars, modeVars, failsafeVars, thrustVars, IInv, TypeOK, LossIsLatched,
      PilotIsNotOwned
<1> QED BY <1>1, <1>2, <1>3, <1>4, <1>5, <1>6, <1>7 DEF Next

\* The inductive invariant holds in every reachable state.
THEOREM Invariance == Spec => []IInv
BY Initial, Inductive, PTL DEF Spec

\* Every variable keeps its type, for every table of conditions and every edit.
THEOREM AssistTypeCorrect == Spec => []TypeOK
<1>1. IInv => TypeOK
  BY DEF IInv
<1> QED BY <1>1, Invariance, PTL

-----------------------------------------------------------------------------
(* The action properties *)

LEMMA OtherModes ==
  ASSUME [Next]_vars, ~Actuator
  PROVE  mask' \subseteq mask
BY DEF Next, Controller, UpdateController, LinkLost, LinkRecovered, StageTwoLand,
       StageTwoDrop, SetModeRange, SetArmingDisabled, Disarmed, vars, modeVars

\* A mode taken away while its switch was on stays away until the switch has
\* been seen off, whatever rows, sensors and link do meanwhile.
THEOREM ReentryByTheSwitch == Spec => ReentryNeedsSwitchCycle
<1>1. IInv /\ [Next]_vars => [fell \cap mask' \subseteq mask]_vars
  <2> SUFFICES ASSUME IInv, [Next]_vars PROVE fell \cap mask' \subseteq mask
    OBVIOUS
  <2>1. CASE Actuator
    <3>1. PICK asked \in {Requested(rows, on) : on \in SUBSET Present}, r \in Readings :
            UpdateActuator(asked, r)
      BY <2>1 DEF Actuator
    <3> QED BY <3>1, ActuatorKeepsOut DEF IInv
  <2>2. CASE ~Actuator
    BY <2>2, OtherModes
  <2> QED BY <2>1, <2>2
<1> QED BY <1>1, Invariance, PTL DEF Spec, ReentryNeedsSwitchCycle

\* The first command that is not the pilot's repeats his last one.
THEOREM EntryIsBumpless == Spec => BumplessEntry
<1>1. IInv /\ [Next]_vars
        => [hand = "pilot" /\ hand' = "craft" => outThrust' = outThrust]_vars
  <2> SUFFICES ASSUME IInv, [Next]_vars, hand = "pilot", hand' = "craft"
               PROVE  outThrust' = outThrust
    OBVIOUS
  <2>1. ~vertOwned
    BY DEF IInv, PilotIsNotOwned
  <2>2. CASE Controller
    BY <2>1, <2>2
    DEF Controller, UpdateController, AltitudeThrust, LandWaits, PilotThrust
  <2>3. CASE ~Controller
    BY <2>3
    DEF Next, Actuator, UpdateActuator, LinkLost, LinkRecovered, StageTwoLand,
        StageTwoDrop, SetModeRange, SetArmingDisabled, vars, thrustVars
  <2> QED BY <2>2, <2>3
<1> QED BY <1>1, Invariance, PTL DEF Spec, BumplessEntry

\* Arming with ALTHOLD requested means ALTHOLD is active, or was found faulty
\* at an earlier update.
THEOREM ArmsIntoRequested == Spec => ArmsIntoAltHold
<1>1. [Next]_vars
        => [~Armed /\ Armed' /\ "ALTHOLD" \in maskSwitch'
              => "ALTHOLD" \in mask' \/ altFault]_vars
  <2> SUFFICES ASSUME [Next]_vars, ~Armed, Armed', "ALTHOLD" \in maskSwitch',
                      ~altFault
               PROVE  "ALTHOLD" \in mask'
    OBVIOUS
  <2>1. CASE Actuator
    <3>1. PICK asked \in {Requested(rows, on) : on \in SUBSET Present}, r \in Readings :
            UpdateActuator(asked, r)
      BY <2>1 DEF Actuator
    <3> QED BY <3>1, ActuatorArms
  <2>2. CASE ~Actuator
    BY <2>2, OtherModes DEF Armed
  <2> QED BY <2>1, <2>2
<1> QED BY <1>1, PTL DEF Spec, ArmsIntoAltHold

-----------------------------------------------------------------------------
(* Induction and recursion over the rows. *)

\* A set of rows' numbers, with 0 and with each successor, holds all of them.
LEMMA Induction ==
  ASSUME NEW n \in Nat, NEW T, 0 \in T,
         \A i \in 1..n : i - 1 \in T => i \in T
  PROVE  0..n \subseteq T
<1> DEFINE B == {i \in 0..n : i \notin T}
<1>1. SUFFICES ASSUME B # {} PROVE FALSE
  OBVIOUS
<1>2. \E x \in B : \A y \in B : ~(<<y, x>> \in OpToRel(<, Nat))
  <2>1. B \subseteq Nat
    OBVIOUS
  <2> HIDE DEF B
  <2> QED BY <1>1, <2>1, WFMin, NatLessThanWellFounded, Zenon
<1>3. PICK x \in B : \A y \in B : ~(y < x)
  <2>1. B \subseteq Nat
    OBVIOUS
  <2> HIDE DEF B
  <2> QED BY <1>2, <2>1, Zenon DEF OpToRel
<1>4. x \in 1..n /\ x - 1 \in 0..n /\ x - 1 < x
  BY <1>3
<1>5. x - 1 \in T
  BY <1>3, <1>4
<1> QED BY <1>3, <1>4, <1>5

\* The masks after i rows, when each row is a step from masks to masks.
Runs(g, n, base, step) ==
  g[0] = base /\ \A i \in 1..n : g[i] = step[i][g[i - 1]]

LEMMA RunExists ==
  ASSUME NEW n \in Nat, NEW M, NEW base \in M, NEW step \in [1..n -> [M -> M]]
  PROVE  \E g \in [0..n -> M] : Runs(g, n, base, step)
<1> DEFINE T == {i \in 0..n : \E g \in [0..i -> M] : Runs(g, i, base, step)}
<1>1. 0 \in T
  <2>1. [i \in 0..0 |-> base] \in [0..0 -> M]
    OBVIOUS
  <2>2. Runs([i \in 0..0 |-> base], 0, base, step)
    BY DEF Runs
  <2> QED BY <2>1, <2>2
<1>2. ASSUME NEW i \in 1..n, i - 1 \in T PROVE i \in T
  <2>1. PICK g \in [0..(i - 1) -> M] : Runs(g, i - 1, base, step)
    BY <1>2
  <2>2. g[i - 1] \in M /\ step[i] \in [M -> M]
    BY <1>2
  <2> DEFINE h == [j \in 0..i |-> IF j = i THEN step[i][g[i - 1]] ELSE g[j]]
  <2>3. \A j \in 0..i : j # i => j \in 0..(i - 1)
    OBVIOUS
  <2>4. h \in [0..i -> M]
    BY <2>2, <2>3
  <2>5. h[0] = base
    BY <1>2, <2>1 DEF Runs
  <2>6. ASSUME NEW j \in 1..i PROVE h[j] = step[j][h[j - 1]]
    <3>1. j - 1 \in 0..(i - 1) /\ j - 1 # i /\ j - 1 \in 0..i /\ j \in 0..i
      OBVIOUS
    <3>2. h[j - 1] = g[j - 1]
      BY <3>1
    <3>3. CASE j = i
      BY <3>1, <3>2, <3>3
    <3>4. CASE j # i
      <4>1. j \in 1..(i - 1)
        BY <3>4
      <4>2. g[j] = step[j][g[j - 1]]
        BY <2>1, <4>1 DEF Runs
      <4> QED BY <3>1, <3>2, <3>4, <4>2
    <3> QED BY <3>3, <3>4
  <2> HIDE DEF h
  <2>7. Runs(h, i, base, step)
    BY <2>5, <2>6 DEF Runs
  <2> QED BY <2>4, <2>7
<1>3. 0..n \subseteq T
  <2> HIDE DEF T
  <2> QED BY <1>1, <1>2, Induction
<1> QED BY <1>3

-----------------------------------------------------------------------------
(* The two passes, row by row. *)

Masks == [and : SUBSET Modes, new : SUBSET Modes]

LEMMA MarkType ==
  ASSUME NEW masks \in Masks, NEW row \in Row, NEW active
  PROVE  Mark(masks, row, active) \in Masks
<1>1. row.id \in Modes /\ masks.and \subseteq Modes /\ masks.new \subseteq Modes
  BY DEF Masks, Row
<1> DEFINE anded == [and |-> masks.and \cup {row.id},
                     new |-> IF active THEN masks.new ELSE masks.new \cup {row.id}]
           ored == [and |-> masks.and \ {row.id}, new |-> masks.new \cup {row.id}]
<1>2. anded \in Masks /\ ored \in Masks
  BY <1>1 DEF Masks
<1>3. Mark(masks, row, active) \in {masks, anded, ored}
  BY Zenon DEF Mark
<1> QED BY <1>2, <1>3

LEMMA FirstRuns ==
  ASSUME NEW n \in Nat, NEW table \in [1..n -> Row], NEW on
  PROVE  /\ FirstMasks(table, on) \in [0..n -> Masks]
         /\ FirstMasks(table, on)[0] = NoMasks
         /\ \A i \in 1..n : FirstMasks(table, on)[i] =
              IF Physical(table[i])
              THEN Mark(FirstMasks(table, on)[i - 1], table[i], table[i].aux \in on)
              ELSE FirstMasks(table, on)[i - 1]
<1> DEFINE next(i, masks) ==
             IF Physical(table[i]) THEN Mark(masks, table[i], table[i].aux \in on) ELSE masks
           step == [i \in 1..n |-> [masks \in Masks |-> next(i, masks)]]
<1>1. Len(table) = n
  BY LenProperties
<1>2. NoMasks \in Masks
  BY DEF NoMasks, Masks
<1>3. \A i \in 1..n : \A masks \in Masks : next(i, masks) \in Masks
  BY MarkType
<1>4. step \in [1..n -> [Masks -> Masks]]
  <2> HIDE DEF next
  <2> QED BY <1>3
<1>5. PICK g \in [0..n -> Masks] : Runs(g, n, NoMasks, step)
  <2> HIDE DEF step
  <2> QED BY <1>2, <1>4, RunExists
<1>6. g[0] = NoMasks /\ \A i \in 1..n : g[i] = next(i, g[i - 1])
  <2>1. \A i \in 1..n : i - 1 \in 0..n
    OBVIOUS
  <2>2. \A i \in 1..n : step[i][g[i - 1]] = next(i, g[i - 1])
    <3> HIDE DEF next
    <3> QED BY <2>1
  <2> HIDE DEF step, next
  <2> QED BY <1>5, <2>2 DEF Runs
<1>7. \A i \in 0..n : i = 0 \/ i \in 1..n
  OBVIOUS
<1>8. g = [i \in 0..Len(table) |-> IF i = 0 THEN NoMasks ELSE next(i, g[i - 1])]
  <2> HIDE DEF next
  <2> QED BY <1>1, <1>6, <1>7
<1> DEFINE f == FirstMasks(table, on)
<1>9. f = [i \in 0..Len(table) |-> IF i = 0 THEN NoMasks ELSE next(i, f[i - 1])]
  BY <1>8, Zenon DEF FirstMasks
<1>10. f[0] = NoMasks /\ \A i \in 1..n : f[i] = next(i, f[i - 1])
  <2> HIDE DEF next, f
  <2> QED BY <1>1, <1>9
<1> DEFINE T == {i \in 0..n : f[i] \in Masks}
<1>11. 0..n \subseteq T
  <2>1. 0 \in T
    BY <1>2, <1>10
  <2>2. ASSUME NEW i \in 1..n, i - 1 \in T PROVE i \in T
    BY <1>3, <1>10, <2>2
  <2> HIDE DEF T
  <2> QED BY <2>1, <2>2, Induction
<1>12. f \in [0..n -> Masks]
  <2> HIDE DEF next, f
  <2> QED BY <1>1, <1>9, <1>11
<1> QED BY <1>10, <1>12

LEMMA SecondRuns ==
  ASSUME NEW n \in Nat, NEW table \in [1..n -> Row], NEW masks1 \in Masks
  PROVE  /\ SecondMasks(table, masks1) \in [0..n -> Masks]
         /\ SecondMasks(table, masks1)[0] = masks1
         /\ \A i \in 1..n : SecondMasks(table, masks1)[i] =
              IF LinkValid(table, table[i])
              THEN Mark(SecondMasks(table, masks1)[i - 1], table[i],
                        On(SecondMasks(table, masks1)[i - 1], table[i].link))
              ELSE SecondMasks(table, masks1)[i - 1]
<1> DEFINE next(i, masks) ==
             IF LinkValid(table, table[i])
             THEN Mark(masks, table[i], On(masks, table[i].link)) ELSE masks
           step == [i \in 1..n |-> [masks \in Masks |-> next(i, masks)]]
<1>1. Len(table) = n
  BY LenProperties
<1>2. \A i \in 1..n : \A masks \in Masks : next(i, masks) \in Masks
  BY MarkType
<1>3. step \in [1..n -> [Masks -> Masks]]
  <2> HIDE DEF next
  <2> QED BY <1>2
<1>4. PICK g \in [0..n -> Masks] : Runs(g, n, masks1, step)
  <2> HIDE DEF step
  <2> QED BY <1>3, RunExists
<1>5. g[0] = masks1 /\ \A i \in 1..n : g[i] = next(i, g[i - 1])
  <2>1. \A i \in 1..n : i - 1 \in 0..n
    OBVIOUS
  <2>2. \A i \in 1..n : step[i][g[i - 1]] = next(i, g[i - 1])
    <3> HIDE DEF next
    <3> QED BY <2>1
  <2> HIDE DEF step, next
  <2> QED BY <1>4, <2>2 DEF Runs
<1>6. \A i \in 0..n : i = 0 \/ i \in 1..n
  OBVIOUS
<1>7. g = [i \in 0..Len(table) |-> IF i = 0 THEN masks1 ELSE next(i, g[i - 1])]
  <2> HIDE DEF next
  <2> QED BY <1>1, <1>5, <1>6
<1> DEFINE f == SecondMasks(table, masks1)
<1>8. f = [i \in 0..Len(table) |-> IF i = 0 THEN masks1 ELSE next(i, f[i - 1])]
  BY <1>7, Zenon DEF SecondMasks
<1>9. f[0] = masks1 /\ \A i \in 1..n : f[i] = next(i, f[i - 1])
  <2> HIDE DEF next, f
  <2> QED BY <1>1, <1>8
<1> DEFINE T == {i \in 0..n : f[i] \in Masks}
<1>10. 0..n \subseteq T
  <2>1. 0 \in T
    BY <1>9
  <2>2. ASSUME NEW i \in 1..n, i - 1 \in T PROVE i \in T
    BY <1>2, <1>9, <2>2
  <2> HIDE DEF T
  <2> QED BY <2>1, <2>2, Induction
<1>11. f \in [0..n -> Masks]
  <2> HIDE DEF next, f
  <2> QED BY <1>1, <1>8, <1>10
<1> QED BY <1>9, <1>11

-----------------------------------------------------------------------------
(* What the masks stand for. *)

\* The masks say of a mode what the rows numbered in done, of which those in on
\* are active, ask for: an active OR row sets new alone; without one, AND rows
\* set and, and one that is inactive sets new besides.
Tallied(masks, table, done, on, mode) ==
  LET some == \E i \in done \cap on : table[i].id = mode /\ ~table[i].and
      joint == \E i \in done : table[i].id = mode /\ table[i].and
      missing == \E i \in done \ on : table[i].id = mode /\ table[i].and
  IN  /\ mode \in masks.and <=> joint /\ ~some
      /\ mode \in masks.new <=> some \/ missing

LEMMA NothingTallied ==
  ASSUME NEW table, NEW on, NEW mode
  PROVE  Tallied(NoMasks, table, {}, on, mode)
<1> DEFINE some == \E i \in {} \cap on : table[i].id = mode /\ ~table[i].and
           joint == \E i \in {} : table[i].id = mode /\ table[i].and
           missing == \E i \in {} \ on : table[i].id = mode /\ table[i].and
<1>1. mode \notin NoMasks.and /\ mode \notin NoMasks.new
  BY DEF NoMasks
<1>2. \A i : i \notin {} \cap on /\ i \notin {} \ on /\ i \notin {}
  OBVIOUS
<1>3. ~some /\ ~joint /\ ~missing
  BY <1>2, Zenon
<1>4. /\ mode \in NoMasks.and <=> joint /\ ~some
      /\ mode \in NoMasks.new <=> some \/ missing
  <2> HIDE DEF some, joint, missing
  <2> QED BY <1>1, <1>3
<1> QED BY <1>4, Zenon DEF Tallied

\* A row more is counted once for all, in whatever order the rows come.
LEMMA MarkTallies ==
  ASSUME NEW masks \in Masks, NEW table, NEW done, NEW on, NEW mode, NEW i,
         NEW active, active <=> i \in on, table[i] \in Row,
         Tallied(masks, table, done, on, mode)
  PROVE  Tallied(Mark(masks, table[i], active), table, done \cup {i}, on, mode)
<1> DEFINE row == table[i]
           m2 == Mark(masks, row, active)
           some(d) == \E j \in d \cap on : table[j].id = mode /\ ~table[j].and
           joint(d) == \E j \in d : table[j].id = mode /\ table[j].and
           missing(d) == \E j \in d \ on : table[j].id = mode /\ table[j].and
<1>1. /\ mode \in masks.and <=> joint(done) /\ ~some(done)
      /\ mode \in masks.new <=> some(done) \/ missing(done)
  BY Zenon DEF Tallied
<1>2. missing(done) => joint(done)
  OBVIOUS
<1>3. /\ some(done \cup {i}) <=> some(done) \/ (active /\ row.id = mode /\ ~row.and)
      /\ joint(done \cup {i}) <=> joint(done) \/ (row.id = mode /\ row.and)
      /\ missing(done \cup {i}) <=> missing(done) \/ (~active /\ row.id = mode /\ row.and)
  BY Zenon
<1>4. SUFFICES /\ mode \in m2.and <=> joint(done \cup {i}) /\ ~some(done \cup {i})
               /\ mode \in m2.new <=> some(done \cup {i}) \/ missing(done \cup {i})
  BY Zenon DEF Tallied
<1> HIDE DEF some, joint, missing
<1>5. CASE row.id # mode
  <2>1. (mode \in m2.and <=> mode \in masks.and) /\ (mode \in m2.new <=> mode \in masks.new)
    BY <1>5 DEF Mark
  <2> QED BY <1>1, <1>3, <1>5, <2>1
<1>6. CASE row.id = mode /\ (row.id \in masks.new \ masks.and \/ (~row.and /\ ~active))
  <2>1. m2 = masks
    BY <1>6, Zenon DEF Mark
  <2> QED BY <1>1, <1>2, <1>3, <1>6, <2>1, Zenon
<1>7. CASE row.id = mode /\ ~(row.id \in masks.new \ masks.and) /\ row.and
  <2>1. mode \in m2.and /\ (mode \in m2.new <=> mode \in masks.new \/ ~active)
    BY <1>7 DEF Mark
  <2> QED BY <1>1, <1>2, <1>3, <1>7, <2>1, Zenon
<1>8. CASE row.id = mode /\ ~(row.id \in masks.new \ masks.and) /\ ~row.and /\ active
  <2>1. mode \notin m2.and /\ mode \in m2.new
    BY <1>8 DEF Mark
  <2> QED BY <1>1, <1>2, <1>3, <1>8, <2>1, Zenon
<1> QED BY <1>5, <1>6, <1>7, <1>8, Zenon

\* Resolving the masks gives what the counted rows decide.
LEMMA OnDecides ==
  ASSUME NEW n \in Nat, NEW table \in [1..n -> Row], NEW masks, NEW done \in SUBSET (1..n),
         NEW on, NEW mode, NEW asking \in SUBSET Range(table), NEW holding,
         \A i \in 1..n : table[i] \in asking <=> i \in done /\ table[i].id = mode,
         \A i \in 1..n : table[i] \in asking => (i \in on <=> table[i] \in holding),
         Tallied(masks, table, done, on, mode)
  PROVE  On(masks, mode) <=> Decides(asking, holding)
<1> DEFINE some == \E i \in done \cap on : table[i].id = mode /\ ~table[i].and
           joint == \E i \in done : table[i].id = mode /\ table[i].and
           missing == \E i \in done \ on : table[i].id = mode /\ table[i].and
<1>1. /\ mode \in masks.and <=> joint /\ ~some
      /\ mode \in masks.new <=> some \/ missing
  BY Zenon DEF Tallied
<1>2. missing => joint
  OBVIOUS
<1>3. \A row \in asking : \E i \in 1..n : row = table[i]
  BY DEF Range
<1>4. some <=> \E row \in asking \cap holding : ~row.and
  BY <1>3, Zenon
<1>5. joint <=> \E row \in asking : row.and
  BY <1>3, Zenon
<1>6. missing <=> \E row \in asking : row.and /\ row \notin holding
  BY <1>3, Zenon
<1>7. On(masks, mode) <=> ~(mode \in masks.and <=> mode \in masks.new)
  BY DEF On
<1>8. Decides(asking, holding) <=> some \/ (joint /\ ~missing)
  BY <1>4, <1>5, <1>6, Zenon DEF Decides
<1> HIDE DEF some, joint, missing
<1> QED BY <1>1, <1>2, <1>7, <1>8

\* Rows by number: those on AUX ranges, those whose range is on, and the links.
Ranges(table, i) == {j \in 1..i : Physical(table[j])}
Ranged(table, n, on) == {j \in 1..n : ~HasLink(table[j]) /\ table[j].aux \in on}
Links(table, i) == {j \in 1..i : LinkValid(table, table[j])}

LEMMA FirstTally ==
  ASSUME NEW n \in Nat, NEW table \in [1..n -> Row], NEW on, NEW mode
  PROVE  /\ FirstPass(table, on) \in Masks
         /\ Tallied(FirstPass(table, on), table, Ranges(table, n), Ranged(table, n, on), mode)
<1> DEFINE f == FirstMasks(table, on)
           act == Ranged(table, n, on)
           T == {i \in 0..n : Tallied(f[i], table, Ranges(table, i), act, mode)}
<1>1. Len(table) = n
  BY LenProperties
<1>2. /\ f \in [0..n -> Masks] /\ f[0] = NoMasks
      /\ \A i \in 1..n : f[i] = IF Physical(table[i])
                                THEN Mark(f[i - 1], table[i], table[i].aux \in on)
                                ELSE f[i - 1]
  BY FirstRuns
<1>3. 0 \in T
  <2>1. Ranges(table, 0) = {}
    BY DEF Ranges
  <2>2. Tallied(NoMasks, table, {}, act, mode)
    BY NothingTallied
  <2>3. f[0] = NoMasks /\ 0 \in 0..n
    BY <1>2
  <2> HIDE DEF act, f
  <2> QED BY <2>1, <2>2, <2>3
<1>4. ASSUME NEW i \in 1..n, i - 1 \in T PROVE i \in T
  <2>1. Tallied(f[i - 1], table, Ranges(table, i - 1), act, mode)
    BY <1>4
  <2>2. i - 1 \in 0..n /\ i \in 0..n /\ f[i - 1] \in Masks /\ table[i] \in Row
    BY <1>2
  <2>3. 1..i = 1..(i - 1) \cup {i}
    OBVIOUS
  <2>4. CASE Physical(table[i])
    <3>1. Ranges(table, i) = Ranges(table, i - 1) \cup {i}
      BY <2>3, <2>4 DEF Ranges
    <3>2. table[i].aux \in on <=> i \in act
      BY <2>4 DEF Ranged, Physical
    <3> DEFINE a == table[i].aux \in on
    <3>3. Tallied(Mark(f[i - 1], table[i], a), table, Ranges(table, i - 1) \cup {i}, act, mode)
      <4> HIDE DEF act, f
      <4> QED BY <2>1, <2>2, <3>2, MarkTallies
    <3> QED BY <1>2, <2>2, <2>4, <3>1, <3>3
  <2>5. CASE ~Physical(table[i])
    <3>1. Ranges(table, i) = Ranges(table, i - 1)
      BY <2>3, <2>5 DEF Ranges
    <3> QED BY <1>2, <2>1, <2>2, <2>5, <3>1
  <2> QED BY <2>4, <2>5
<1>5. n \in T
  <2> HIDE DEF T
  <2> QED BY <1>3, <1>4, Induction
<1> QED BY <1>1, <1>2, <1>5 DEF FirstPass

\* Whether a row is active in the end: by its range, or by the mode it follows.
Active(table, n, on) ==
  Ranged(table, n, on) \cup
  {j \in 1..n : HasLink(table[j]) /\ On(FirstPass(table, on), table[j].link)}

LEMMA Retallied ==
  ASSUME NEW masks, NEW table, NEW done, NEW on1, NEW on2, NEW mode,
         \A j \in done : j \in on1 <=> j \in on2,
         Tallied(masks, table, done, on1, mode)
  PROVE  Tallied(masks, table, done, on2, mode)
<1> DEFINE some(on) == \E i \in done \cap on : table[i].id = mode /\ ~table[i].and
           joint == \E i \in done : table[i].id = mode /\ table[i].and
           missing(on) == \E i \in done \ on : table[i].id = mode /\ table[i].and
<1>1. /\ mode \in masks.and <=> joint /\ ~some(on1)
      /\ mode \in masks.new <=> some(on1) \/ missing(on1)
  BY Zenon DEF Tallied
<1>2. some(on1) <=> some(on2)
  BY Zenon
<1>3. missing(on1) <=> missing(on2)
  BY Zenon
<1>4. /\ mode \in masks.and <=> joint /\ ~some(on2)
      /\ mode \in masks.new <=> some(on2) \/ missing(on2)
  <2> HIDE DEF some, joint, missing
  <2> QED BY <1>1, <1>2, <1>3
<1> QED BY <1>4, Zenon DEF Tallied

\* Masks that have counted the same rows of a mode say the same of it.
LEMMA SameRowsSameMode ==
  ASSUME NEW masks1, NEW masks2, NEW table, NEW done1, NEW done2, NEW on, NEW mode,
         Tallied(masks1, table, done1, on, mode), Tallied(masks2, table, done2, on, mode),
         done1 \subseteq done2, \A j \in done2 \ done1 : table[j].id # mode
  PROVE  On(masks1, mode) <=> On(masks2, mode)
<1> DEFINE some(d) == \E i \in d \cap on : table[i].id = mode /\ ~table[i].and
           joint(d) == \E i \in d : table[i].id = mode /\ table[i].and
           missing(d) == \E i \in d \ on : table[i].id = mode /\ table[i].and
<1>1. /\ mode \in masks1.and <=> joint(done1) /\ ~some(done1)
      /\ mode \in masks1.new <=> some(done1) \/ missing(done1)
  BY Zenon DEF Tallied
<1>2. /\ mode \in masks2.and <=> joint(done2) /\ ~some(done2)
      /\ mode \in masks2.new <=> some(done2) \/ missing(done2)
  BY Zenon DEF Tallied
<1>3. some(done1) <=> some(done2)
  BY Zenon
<1>4. joint(done1) <=> joint(done2)
  BY Zenon
<1>5. missing(done1) <=> missing(done2)
  BY Zenon
<1> HIDE DEF some, joint, missing
<1>6. (mode \in masks1.and <=> mode \in masks2.and) /\ (mode \in masks1.new <=> mode \in masks2.new)
  BY <1>1, <1>2, <1>3, <1>4, <1>5
<1>7. /\ On(masks1, mode) <=> ~(mode \in masks1.and <=> mode \in masks1.new)
      /\ On(masks2, mode) <=> ~(mode \in masks2.and <=> mode \in masks2.new)
  BY DEF On
<1> QED BY <1>6, <1>7

\* No row of the mode that a valid link names is itself a link, so the second
\* pass reads of that mode what the first pass left.
LEMMA SecondTally ==
  ASSUME NEW n \in Nat, NEW table \in [1..n -> Row], NEW on, NEW mode \in Modes
  PROVE  Tallied(SecondPass(table, FirstPass(table, on)), table,
                 Ranges(table, n) \cup Links(table, n), Active(table, n, on), mode)
<1> DEFINE masks1 == FirstPass(table, on)
           f == SecondMasks(table, masks1)
           act == Active(table, n, on)
           done(i) == Ranges(table, n) \cup Links(table, i)
           T == {i \in 0..n : \A m \in Modes : Tallied(f[i], table, done(i), act, m)}
<1>1. Len(table) = n
  BY LenProperties
<1>2. masks1 \in Masks
  BY FirstTally
<1>3. /\ f \in [0..n -> Masks] /\ f[0] = masks1
      /\ \A i \in 1..n : f[i] = IF LinkValid(table, table[i])
                                THEN Mark(f[i - 1], table[i], On(f[i - 1], table[i].link))
                                ELSE f[i - 1]
  <2> HIDE DEF masks1
  <2> QED BY <1>2, SecondRuns
<1>4. ASSUME NEW m \in Modes PROVE Tallied(masks1, table, Ranges(table, n), act, m)
  <2>1. Tallied(masks1, table, Ranges(table, n), Ranged(table, n, on), m)
    BY FirstTally
  <2>2. \A j \in Ranges(table, n) : j \in Ranged(table, n, on) <=> j \in act
    BY DEF Ranges, Active, Physical
  <2> HIDE DEF act, masks1
  <2> QED BY <2>1, <2>2, Retallied
<1>5. 0 \in T
  <2>1. done(0) = Ranges(table, n)
    BY DEF Links
  <2> HIDE DEF act, masks1, f, done
  <2> QED BY <1>3, <1>4, <2>1
<1>6. ASSUME NEW i \in 1..n, i - 1 \in T PROVE i \in T
  <2>1. ASSUME NEW m \in Modes PROVE Tallied(f[i - 1], table, done(i - 1), act, m)
    BY <1>6, <2>1
  <2>2. i - 1 \in 0..n /\ i \in 0..n /\ f[i - 1] \in Masks /\ table[i] \in Row
    <3> HIDE DEF f
    <3> QED BY <1>3
  <2>3. 1..i = 1..(i - 1) \cup {i}
    OBVIOUS
  <2>4. CASE LinkValid(table, table[i])
    <3>1. done(i) = done(i - 1) \cup {i}
      BY <2>3, <2>4 DEF Links
    <3> DEFINE link == table[i].link
    <3>2. link \in Modes
      BY <2>2, <2>4 DEF LinkValid, HasLink, Row
    <3>3. ASSUME NEW j \in done(i - 1) \ Ranges(table, n) PROVE table[j].id # link
      <4>1. j \in 1..(i - 1) /\ j \in 1..n /\ LinkValid(table, table[j])
        BY <3>3 DEF Links
      <4>2. table[j] \in Range(table)
        BY <4>1 DEF Range
      <4> QED BY <2>4, <4>1, <4>2 DEF LinkValid
    <3>4. On(masks1, link) <=> On(f[i - 1], link)
      <4>1. Tallied(masks1, table, Ranges(table, n), act, link)
        BY <1>4, <3>2
      <4>2. Tallied(f[i - 1], table, done(i - 1), act, link)
        BY <2>1, <3>2
      <4>3. Ranges(table, n) \subseteq done(i - 1)
        OBVIOUS
      <4> HIDE DEF act, masks1, f, done, link
      <4> QED BY <3>3, <4>1, <4>2, <4>3, SameRowsSameMode
    <3>5. On(f[i - 1], link) <=> i \in act
      BY <2>4, <3>4 DEF Active, Ranged, LinkValid
    <3>6. ASSUME NEW m \in Modes PROVE Tallied(f[i], table, done(i), act, m)
      <4>1. Tallied(f[i - 1], table, done(i - 1), act, m)
        BY <2>1
      <4> DEFINE a == On(f[i - 1], link)
      <4>2. Tallied(Mark(f[i - 1], table[i], a), table, done(i - 1) \cup {i}, act, m)
        <5> HIDE DEF act, f, done, link
        <5> QED BY <2>2, <3>5, <4>1, MarkTallies
      <4> HIDE DEF act, f, done
      <4> QED BY <1>3, <2>4, <3>1, <4>2
    <3> QED BY <2>2, <3>6
  <2>5. CASE ~LinkValid(table, table[i])
    <3>1. done(i) = done(i - 1)
      BY <2>3, <2>5 DEF Links
    <3>2. f[i] = f[i - 1]
      BY <1>3, <2>5
    <3>3. ASSUME NEW m \in Modes PROVE Tallied(f[i], table, done(i), act, m)
      BY <2>1, <3>1, <3>2
    <3> QED BY <2>2, <3>3
  <2> QED BY <2>4, <2>5
<1>7. n \in T
  <2> HIDE DEF T
  <2> QED BY <1>5, <1>6, Induction
<1>8. Tallied(f[n], table, done(n), act, mode)
  BY <1>7
<1> QED BY <1>1, <1>8 DEF SecondPass

-----------------------------------------------------------------------------
(* The table means what its rows say. *)

\* The rows of a mode by number and as a set.
LEMMA AskingRows ==
  ASSUME NEW n \in Nat, NEW table \in [1..n -> Row], NEW mode
  PROVE  /\ Asking(table, mode) \in SUBSET Range(table)
         /\ \A i \in 1..n : table[i] \in Asking(table, mode) <=>
              i \in Ranges(table, n) \cup Links(table, n) /\ table[i].id = mode
<1>1. \A i \in 1..n : table[i] \in Range(table)
  BY DEF Range
<1> QED BY <1>1 DEF Asking, Ranges, Links

\* A mode that a valid link names is on after the first pass when its rows ask
\* for it.
LEMMA LinkedModes ==
  ASSUME NEW n \in Nat, NEW table \in [1..n -> Row], NEW on, NEW mode,
         \A i \in Links(table, n) : table[i].id # mode
  PROVE  On(FirstPass(table, on), mode) <=>
           Decides(Asking(table, mode), InRange(table, on))
<1> DEFINE masks1 == FirstPass(table, on)
           done == Ranges(table, n)
           act == Ranged(table, n, on)
           asking == Asking(table, mode)
           holding == InRange(table, on)
<1>1. Tallied(masks1, table, done, act, mode)
  BY FirstTally
<1>2. done \in SUBSET (1..n)
  BY DEF Ranges
<1>3. asking \in SUBSET Range(table)
  BY AskingRows
<1>4. \A i \in 1..n : table[i] \in asking <=> i \in done /\ table[i].id = mode
  BY AskingRows
<1>5. \A i \in 1..n : table[i] \in Range(table)
  BY DEF Range
<1>6. \A i \in 1..n : i \in act <=> table[i] \in holding
  BY <1>5 DEF Ranged, InRange
<1> HIDE DEF masks1, done, act, asking, holding
<1>7. On(masks1, mode) <=> Decides(asking, holding)
  BY <1>1, <1>2, <1>3, <1>4, <1>6, OnDecides
<1> QED BY <1>7 DEF masks1, asking, holding

\* updateModeMask, for every table: whatever the order of the rows, its two
\* passes over the masks request the modes that the rows ask for.
LEMMA PassesMeanTheRows ==
  ASSUME NEW n \in Nat, NEW table \in [1..n -> Row], NEW on
  PROVE  Requested(table, on) = Meant(table, on)
<1> DEFINE masks2 == SecondPass(table, FirstPass(table, on))
           done == Ranges(table, n) \cup Links(table, n)
           act == Active(table, n, on)
           holding == InRange(table, on) \cup Followed(table, on)
<1>1. \A i \in 1..n : table[i] \in Range(table)
  BY DEF Range
<1>2. done \in SUBSET (1..n)
  BY DEF Ranges, Links
<1>3. ASSUME NEW i \in 1..n, i \in done PROVE i \in act <=> table[i] \in holding
  <2>1. CASE ~HasLink(table[i])
    BY <1>1, <2>1 DEF Active, Ranged, InRange, Followed
  <2>2. CASE HasLink(table[i])
    <3> DEFINE link == table[i].link
    <3>1. LinkValid(table, table[i])
      BY <1>3, <2>2 DEF Ranges, Links, Physical
    <3>2. \A j \in Links(table, n) : table[j].id # link
      BY <1>1, <3>1 DEF Links, LinkValid
    <3>3. On(FirstPass(table, on), link) <=>
            Decides(Asking(table, link), InRange(table, on))
      <4> HIDE DEF link
      <4> QED BY <3>2, LinkedModes
    <3>4. i \in act <=> On(FirstPass(table, on), link)
      BY <2>2 DEF Active, Ranged
    <3>5. table[i] \in holding <=> Decides(Asking(table, link), InRange(table, on))
      BY <1>1, <2>2 DEF InRange, Followed
    <3> QED BY <3>3, <3>4, <3>5
  <2> QED BY <2>1, <2>2
<1>4. ASSUME NEW mode \in Modes
      PROVE  On(masks2, mode) <=> Decides(Asking(table, mode), holding)
  <2> DEFINE asking == Asking(table, mode)
  <2>1. Tallied(masks2, table, done, act, mode)
    BY SecondTally
  <2>2. asking \in SUBSET Range(table)
    BY AskingRows
  <2>3. \A i \in 1..n : table[i] \in asking <=> i \in done /\ table[i].id = mode
    BY AskingRows
  <2> HIDE DEF masks2, done, act, asking, holding
  <2>4. \A i \in 1..n : table[i] \in asking => (i \in act <=> table[i] \in holding)
    BY <1>3, <2>3
  <2>5. On(masks2, mode) <=> Decides(asking, holding)
    BY <1>2, <2>1, <2>2, <2>3, <2>4, OnDecides
  <2> QED BY <2>5 DEF asking
<1> QED BY <1>4, Zenon DEF Requested, Meant

\* Two tables with the same rows request the same modes, whatever the order of
\* their rows and however often one is repeated: the two masks of
\* updateModeMask, though folded row by row, do not depend on it.
THEOREM RowOrderDoesNotMatter ==
  ASSUME NEW n1 \in Nat, NEW n2 \in Nat,
         NEW table1 \in [1..n1 -> Row], NEW table2 \in [1..n2 -> Row],
         Range(table1) = Range(table2), NEW on
  PROVE  Requested(table1, on) = Requested(table2, on)
<1>1. \A row : LinkValid(table1, row) <=> LinkValid(table2, row)
  BY Zenon DEF LinkValid
<1>2. \A mode : Asking(table1, mode) = Asking(table2, mode)
  BY <1>1 DEF Asking
<1>3. InRange(table1, on) = InRange(table2, on)
  BY DEF InRange
<1>4. Followed(table1, on) = Followed(table2, on)
  BY <1>2, <1>3 DEF Followed
<1>5. Meant(table1, on) = Meant(table2, on)
  BY <1>2, <1>3, <1>4 DEF Meant
<1> QED BY <1>5, PassesMeanTheRows

\* In every reachable state, with the switches anywhere, the modes requested are
\* those that the rows mean, whatever table MSP has made of them.
THEOREM RowsMeanWhatTheySay == Spec => []RequestedAsMeant
<1>1. IInv => RequestedAsMeant
  <2> SUFFICES ASSUME IInv, NEW on \in SUBSET Present
               PROVE  Requested(rows, on) = Meant(rows, on)
    BY DEF RequestedAsMeant
  <2>1. PICK t : t = rows
    OBVIOUS
  <2>2. Conditions \in Nat /\ t \in [1..Conditions -> Row]
    BY <2>1, AssistAssumption DEF IInv, TypeOK
  <2>3. Requested(t, on) = Meant(t, on)
    BY <2>2, PassesMeanTheRows
  <2> QED BY <2>1, <2>3
<1> QED BY <1>1, Invariance, PTL
=============================================================================
