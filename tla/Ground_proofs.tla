---------------------------- MODULE Ground_proofs ----------------------------
(***************************************************************************)
(* Proofs about Ground, for every value of its constants: however many     *)
(* samples a calibration takes, whatever the first EEPROM holds, whichever *)
(* sensors are fitted.                                                     *)
(***************************************************************************)
EXTENDS Ground, TLAPS

\* No row is stale but one of Anti-Gravity, in a configuration without its tag.
OnlyUntagged(c) == c.stale \subseteq {"gravity"} /\ (c.tagged => c.stale = {})

\* What the EEPROM and the configuration in RAM may be: every load and every
\* save keeps the stale rows where the next boot recognises them.
StaleKnown == StaleWhereIgnored(flash) /\ OnlyUntagged(config)

\* A setting the drivers have not taken is waiting for a reboot, or was changed
\* by a command that asks for none.
HeldNeedsReboot ==
  rebootRequired \/ running = config.held \/ unasked

\* Without a command that asks for another calibration, the accelerometer is
\* not being calibrated, and a saved calibration is the one in use: the next
\* save writes it again.
InUse == touched \/ (cal["accel"] = "IDLE" /\ (Durable => bias = "cal"))

\* A calibration that still measures has a sample to take.
Counting == \A s \in Sensor : cal[s] = "UPDATE" => samples[s] > 0

IInv ==
  /\ Counting
  /\ TypeOK /\ CalibratesOnGround /\ CalibrationKept /\ CleanRows
  /\ StaleKnown /\ HeldNeedsReboot /\ InUse

-----------------------------------------------------------------------------
(* What the operators of the store preserve. *)

LEMMA ConfigFields ==
  ASSUME NEW c \in Config
  PROVE  /\ c.held \in Held /\ c.stale \in SUBSET StaleRows
         /\ c.tagged \in BOOLEAN /\ c.acc \in Saved
         /\ c = [held |-> c.held, stale |-> c.stale, tagged |-> c.tagged, acc |-> c.acc]
  BY DEF Config

\* The constructor's configuration is one, and needs no scrubbing.
LEMMA DefaultType == Default \in Config /\ Default.stale = {} /\ Default.acc = "zero"
  BY StoreAssumption DEF Default, Config, Saved

\* Model::sanitize leaves a configuration whose rows are all the user's own.
LEMMA SanitizeType ==
  ASSUME NEW c \in Config
  PROVE  /\ Sanitize(c) \in Config
         /\ Sanitize(c).held = c.held /\ Sanitize(c).acc = c.acc
         /\ Sanitize(c).tagged
         /\ OnlyUntagged(c) => Sanitize(c).stale = {}
  BY ConfigFields DEF Sanitize, Config, OnlyUntagged

\* Storage::load scrubs what the layout of the image lets it recognise.
LEMMA LoadType ==
  ASSUME NEW c \in Config, OnlyUntagged(c), NEW image \in Image, StaleWhereIgnored(image)
  PROVE  /\ LoadInto(c, image) \in Config
         /\ OnlyUntagged(LoadInto(c, image))
         /\ Loadable(image) => LoadInto(c, image).acc = image.config.acc
<1>1. image.config \in Config /\ image.version \in {"V2", "V3", "V4", "other"}
  BY DEF Image
<1>2. CASE Loadable(image) /\ image.version = "V2"
  <2>1. LoadInto(c, image) = [image.config EXCEPT !.stale = @ \ {"shadow"}]
    BY <1>2 DEF LoadInto, Decode
  <2> QED BY <1>1, <2>1, ConfigFields
          DEF Config, OnlyUntagged, StaleWhereIgnored, StaleRows
<1>3. CASE Loadable(image) /\ image.version # "V2"
  <2>1. LoadInto(c, image) = image.config
    BY <1>3 DEF LoadInto, Decode
  <2>2. image.version \in {"V3", "V4"}
    BY <1>1, <1>3 DEF Loadable
  <2> QED BY <1>1, <2>1, <2>2, ConfigFields DEF OnlyUntagged, StaleWhereIgnored, StaleRows
<1>4. CASE ~Loadable(image)
  BY <1>4 DEF LoadInto
<1> QED BY <1>2, <1>3, <1>4

\* What Model::save writes can be loaded, with the calibration in use.
LEMMA SaveType ==
  ASSUME NEW c \in Config, NEW b \in AccBias
  PROVE  /\ PreSave(c, b) \in Config
         /\ PreSave(c, b).held = c.held
         /\ PreSave(c, b).stale = c.stale /\ PreSave(c, b).tagged = c.tagged
         /\ (PreSave(c, b).acc = "cal") = (b = "cal")
  BY ConfigFields DEF PreSave, Config, AccBias, Saved

LEMMA ImageType ==
  ASSUME NEW c \in Config
  PROVE  /\ ImageOf(c) \in Image /\ Loadable(ImageOf(c)) /\ ImageOf(c).config = c
         /\ OnlyUntagged(c) => StaleWhereIgnored(ImageOf(c))
  BY DEF ImageOf, Image, Loadable, OnlyUntagged, StaleWhereIgnored

\* Every boot starts clean, whatever sound image it finds.
LEMMA BootType ==
  ASSUME NEW image \in Image, StaleWhereIgnored(image)
  PROVE  /\ BootConfig(image) \in Config /\ BootConfig(image).stale = {}
         /\ BootBias(image) \in Saved
         /\ Loadable(image) => BootBias(image) = image.config.acc
         /\ ~Loadable(image) => BootBias(image) = "zero"
<1>1. OnlyUntagged(Default)
  BY DefaultType DEF OnlyUntagged
<1>2. LoadInto(Default, image) \in Config /\ OnlyUntagged(LoadInto(Default, image))
  BY <1>1, DefaultType, LoadType
<1>3. BootConfig(image) \in Config /\ BootConfig(image).stale = {}
  BY <1>2, SanitizeType DEF BootConfig
<1>4. BootBias(image) \in Saved
  BY <1>2, ConfigFields DEF BootBias, PostLoad
<1>5. Loadable(image) => BootBias(image) = image.config.acc
  BY <1>1, DefaultType, LoadType DEF BootBias, PostLoad
<1>6. ~Loadable(image) => BootBias(image) = "zero"
  BY DefaultType DEF BootBias, PostLoad, LoadInto
<1> QED BY <1>3, <1>4, <1>5, <1>6

-----------------------------------------------------------------------------
(* The initial states and the boots. *)

\* Only the gyro is calibrated by a boot.
LEMMA AfterBootType ==
  /\ AfterBoot \in [Sensor -> CalState] /\ AfterBoot["accel"] = "IDLE"
  /\ \A s \in Sensor : AfterBoot[s] # "UPDATE"
  /\ NoSamples \in [Sensor -> 0..Samples]
<1>1. 0 \in 0..Samples
  BY SamplesAssumption
<1> QED BY <1>1 DEF AfterBoot, NoSamples, Sensor, CalState

\* What Init and StartFrom have in common, of the booted state's parts.
LEMMA BootIInv ==
  ASSUME NEW image \in Image, StaleWhereIgnored(image),
         flash = image, config = BootConfig(image), bias = BootBias(image),
         storageResult = LoadResult(image), cal = AfterBoot, samples = NoSamples,
         running = config.held, armed = FALSE, rebootRequired = FALSE,
         touched = FALSE, unasked = FALSE, reloaded = FALSE
  PROVE  IInv
<1>1. TypeOK
  BY BootType, ConfigFields, AfterBootType DEF TypeOK, AccBias, LoadResult
<1>2. cal["accel"] = "IDLE"
  BY AfterBootType
<1>3. CalibrationKept /\ InUse
  BY <1>2, BootType DEF CalibrationKept, InUse, Durable, LoadResult
<1>4. CleanRows /\ StaleKnown
  BY BootType DEF CleanRows, StaleKnown, OnlyUntagged
<1> QED BY <1>1, <1>3, <1>4, AfterBootType
        DEF IInv, CalibratesOnGround, HeldNeedsReboot, Counting

LEMMA InitIInv == Init => IInv
  BY BootIInv, StoreAssumption DEF Init

LEMMA StartIInv ==
  ASSUME NEW image \in Image, StaleWhereIgnored(image), StartFrom(image)
  PROVE  IInv'
<1> USE DEF StartFrom
<1>1. TypeOK'
  BY BootType, ConfigFields, AfterBootType DEF TypeOK, AccBias, LoadResult
<1>2. cal'["accel"] = "IDLE"
  BY AfterBootType
<1>3. CalibrationKept' /\ InUse'
  BY <1>2, BootType DEF CalibrationKept, InUse, Durable, LoadResult
<1>4. CleanRows' /\ StaleKnown'
  BY BootType DEF CleanRows, StaleKnown, OnlyUntagged
<1> QED BY <1>1, <1>3, <1>4, AfterBootType
        DEF IInv, CalibratesOnGround, HeldNeedsReboot, Counting

-----------------------------------------------------------------------------
(* The commands. *)

\* Model::save, on whoever's behalf.
LEMMA SaveStep ==
  ASSUME IInv, NEW committed \in BOOLEAN, Save(committed),
         UNCHANGED <<samples, craftVars, historyVars>>,
         cal' \in [Sensor -> CalState],
         \A s \in Sensor : cal'[s] \in {cal[s], "IDLE"},
         cal'["accel"] = cal["accel"] \/ cal["accel"] = "SAVE"
  PROVE  IInv'
<1> USE DEF IInv, Save, craftVars, historyVars
<1>1. /\ config' \in Config /\ config'.held = config.held
      /\ config'.stale = config.stale /\ config'.tagged = config.tagged
      /\ (config'.acc = "cal") = (bias = "cal")
  BY SaveType DEF TypeOK
<1>2. flash' \in Image /\ StaleWhereIgnored(flash') /\ OnlyUntagged(config')
  BY <1>1, ImageType DEF TypeOK, StaleKnown, OnlyUntagged
<1>3. committed => (Durable' = (bias = "cal"))
  BY <1>1, ImageType DEF Durable
<1>4. ~committed => Durable' = Durable
  BY DEF Durable
<1>5. TypeOK'
  BY <1>1, <1>2 DEF TypeOK
<1>6. CalibrationKept'
  BY <1>3 DEF CalibrationKept
<1>7. InUse'
  BY <1>3, <1>4 DEF InUse
<1>8. CalibratesOnGround' /\ Counting'
  BY DEF CalibratesOnGround, Calibrating, Counting
<1> QED BY <1>1, <1>2, <1>5, <1>6, <1>7, <1>8
        DEF CleanRows, StaleKnown, HeldNeedsReboot

\* The commands that change neither the EEPROM nor a calibration.
LEMMA SetStep ==
  ASSUME IInv, UNCHANGED <<flash, bias, storageResult, calVars, running, armed, touched>>,
         config' \in Config, OnlyUntagged(config'),
         unasked' \in BOOLEAN, rebootRequired' \in BOOLEAN,
         reloaded' = reloaded, reloaded \/ config'.stale = {}, HeldNeedsReboot'
  PROVE  IInv'
<1> USE DEF IInv, calVars
<1>1. TypeOK'
  BY DEF TypeOK
<1>2. CalibratesOnGround' /\ CalibrationKept' /\ InUse' /\ Counting'
  BY DEF Counting, CalibratesOnGround, Calibrating, CalibrationKept, Durable, InUse
<1>3. CleanRows' /\ StaleKnown'
  BY DEF CleanRows, StaleKnown
<1> QED BY <1>1, <1>2, <1>3

\* A setter leaves a configuration, and its rows as they were.
LEMMA PutType ==
  ASSUME NEW c \in Config, c = config, NEW held \in Held
  PROVE  /\ Put(held) \in Config
         /\ Put(held).stale = config.stale
         /\ Put(held).tagged = config.tagged
  BY ConfigFields DEF Put, Config

\* The setters of the configurator: they reload, or leave clean rows alone.
LEMMA MspSetStep ==
  ASSUME IInv, NEW held \in Held, SetAndReload(held) \/ MspSetGpsConfig(held)
  PROVE  IInv'
<1> DEFINE changed == Put(held)
<1>1. /\ changed \in Config /\ OnlyUntagged(changed)
      /\ changed.stale = config.stale
  BY PutType DEF IInv, TypeOK, StaleKnown, OnlyUntagged
<1> HIDE DEF changed
<1>2. CASE SetAndReload(held)
  <2>1. /\ Sanitize(changed) \in Config /\ Sanitize(changed).stale = {}
        /\ config' = Sanitize(changed)
    BY <1>1, <1>2, SanitizeType DEF SetAndReload, changed
  <2> QED BY <1>2, <2>1, SetStep
          DEF SetAndReload, OnlyUntagged, historyVars, IInv, TypeOK, HeldNeedsReboot
<1>3. CASE MspSetGpsConfig(held)
  BY <1>1, <1>3, SetStep
  DEF MspSetGpsConfig, changed, historyVars, IInv, TypeOK, CleanRows, HeldNeedsReboot
<1> QED BY <1>2, <1>3

\* The setters that ask for no reboot: unasked remembers them.
LEMMA UnaskedStep ==
  ASSUME IInv, NEW held \in Held, SetUnasked(held)
  PROVE  IInv'
<1>1. /\ config' \in Config
      /\ config'.stale = config.stale /\ config'.tagged = config.tagged
  BY PutType DEF IInv, TypeOK, SetUnasked
<1>2. OnlyUntagged(config')
  BY <1>1 DEF OnlyUntagged, IInv, StaleKnown
<1>3. HeldNeedsReboot'
  BY DEF HeldNeedsReboot, SetUnasked
<1> QED BY <1>1, <1>2, <1>3, SetStep
        DEF SetUnasked, craftVars, IInv, TypeOK, CleanRows

LEMMA CliSetCalibrationStep ==
  ASSUME IInv, NEW acc \in Saved, CliSetCalibration(acc)
  PROVE  IInv'
<1>1. /\ config' \in Config /\ config'.held = config.held
      /\ config'.stale = config.stale /\ config'.tagged = config.tagged
  BY ConfigFields DEF IInv, TypeOK, CliSetCalibration, Config
<1>2. OnlyUntagged(config')
  BY <1>1 DEF OnlyUntagged, IInv, StaleKnown
<1>3. HeldNeedsReboot'
  BY <1>1 DEF HeldNeedsReboot, IInv, CliSetCalibration, craftVars, historyVars
<1> QED BY <1>1, <1>2, <1>3, SetStep
        DEF CliSetCalibration, craftVars, historyVars, IInv, TypeOK, CleanRows

\* The commands that replace the calibration in use.
LEMMA CliLoadStep == ASSUME IInv, CliLoad PROVE IInv'
<1> USE DEF IInv, CliLoad, Load, calVars, craftVars
<1>1. /\ config' \in Config /\ OnlyUntagged(config') /\ config'.acc \in Saved
      /\ Loadable(flash) => bias' = flash.config.acc
  BY LoadType, ConfigFields DEF TypeOK, StaleKnown, PostLoad
<1>2. TypeOK'
  BY <1>1 DEF TypeOK, PostLoad, AccBias, LoadResult
<1>3. CalibrationKept' /\ InUse'
  BY <1>1 DEF CalibrationKept, InUse, Durable, LoadResult
<1> QED BY <1>1, <1>2, <1>3
        DEF Counting, CalibratesOnGround, Calibrating, CleanRows, StaleKnown, HeldNeedsReboot

LEMMA CliDefaultsStep == ASSUME IInv, CliDefaults PROVE IInv'
<1> USE DEF IInv, CliDefaults, Reset, calVars, craftVars
<1>1. /\ config' \in Config /\ config'.stale = {} /\ bias' = "zero"
  BY DefaultType, SanitizeType DEF PostLoad, OnlyUntagged
<1>2. TypeOK'
  BY <1>1 DEF TypeOK, AccBias, Saved
<1> QED BY <1>1, <1>2
        DEF Counting, CalibratesOnGround, Calibrating, CalibrationKept, InUse,
            CleanRows, StaleKnown, OnlyUntagged, HeldNeedsReboot

LEMMA CliCalResetStep == ASSUME IInv, CliCalReset PROVE IInv'
<1> USE DEF IInv, CliCalReset, calVars, craftVars
<1>1. TypeOK'
  BY DEF TypeOK, AccBias, Saved
<1> QED BY <1>1
        DEF Counting, CalibratesOnGround, Calibrating, CalibrationKept, InUse,
            CleanRows, StaleKnown, HeldNeedsReboot

LEMMA CalibrateStep == ASSUME IInv, MspCalibrateAcc \/ MspCalibrateMag PROVE IInv'
<1> USE DEF IInv, MspCalibrateAcc, MspCalibrateMag, CalibrateGyro, CalibrateMag,
            StartAll, storeVars, craftVars, historyVars
<1>1. TypeOK'
  BY DEF TypeOK, CalState
<1>2. ~armed'
  OBVIOUS
<1>5. Counting'
  <2>1. /\ cal \in [Sensor -> CalState] /\ samples' = samples /\ Counting
        /\ \E which \in SUBSET Sensor :
             cal' = [s \in Sensor |-> IF s \in which THEN "START" ELSE cal[s]]
    BY DEF TypeOK, Sensor
  <2> QED BY <2>1 DEF Counting
<1>3. CASE MspCalibrateAcc
  <2>1. touched' /\ Durable' = Durable /\ cal'["accel"] \in {"START", cal["accel"]}
    BY <1>3 DEF Sensor, Durable
  <2> QED BY <1>1, <1>2, <1>3, <1>5, <2>1
          DEF CalibratesOnGround, CalibrationKept, InUse, CleanRows, StaleKnown, HeldNeedsReboot
<1>4. CASE MspCalibrateMag
  <2>1. cal'["accel"] = cal["accel"] /\ Durable' = Durable
    BY <1>4 DEF Sensor, Durable
  <2> QED BY <1>1, <1>2, <1>4, <1>5, <2>1
          DEF CalibratesOnGround, CalibrationKept, InUse, CleanRows, StaleKnown, HeldNeedsReboot
<1> QED BY <1>3, <1>4

LEMMA ArmStep == ASSUME IInv, Arm \/ Disarm PROVE IInv'
<1> USE DEF IInv, Arm, Disarm, storeVars, calVars, historyVars
<1>1. TypeOK'
  BY DEF TypeOK
<1>2. CalibratesOnGround'
  BY DEF CalibratesOnGround, MayArm, Calibrating
<1> QED BY <1>1, <1>2
        DEF Counting, CalibrationKept, InUse, Durable, CleanRows, StaleKnown, HeldNeedsReboot

-----------------------------------------------------------------------------
(* The calibrations' samples. *)

\* A sample counts down, never past zero: the last one leaves UPDATE.
LEMMA SampleCounted ==
  ASSUME IInv, NEW s \in Sensor,
         Begin(s) \/ Apply(s) \/ \E ok \in BOOLEAN : Measure(s, ok)
  PROVE  /\ samples' \in [Sensor -> 0..Samples] /\ Counting'
         /\ cal' \in [Sensor -> CalState] /\ cal'[s] # "IDLE"
         /\ \A other \in Sensor \ {s} : cal'[other] = cal[other]
<1> USE DEF Counting, Enter, CalState
<1>0. /\ Counting /\ samples \in [Sensor -> 0..Samples]
      /\ cal \in [Sensor -> CalState]
  BY DEF IInv, TypeOK
<1>1. CASE Begin(s)
  BY <1>0, <1>1, SamplesAssumption DEF Begin
<1>2. CASE Apply(s)
  BY <1>0, <1>2 DEF Apply
<1>3. ASSUME NEW ok \in BOOLEAN, Measure(s, ok)
      PROVE  /\ samples' \in [Sensor -> 0..Samples] /\ Counting'
             /\ cal' \in [Sensor -> CalState] /\ cal'[s] # "IDLE"
             /\ \A other \in Sensor \ {s} : cal'[other] = cal[other]
  <2>1. /\ cal[s] = "UPDATE"
        /\ samples' = [samples EXCEPT ![s] = IF ok THEN @ - 1 ELSE @]
        /\ cal' = [cal EXCEPT ![s] = IF samples'[s] = 0 THEN "APPLY" ELSE "UPDATE"]
    BY <1>3, Zenon DEF Measure
  <2>2. samples[s] \in 1..Samples
    BY <1>0, <2>1, SamplesAssumption
  <2>3. samples' = [samples EXCEPT ![s] = samples[s] - 1] \/ samples' = samples
    BY <1>0, <2>1
  <2>4. /\ samples' \in [Sensor -> 0..Samples]
        /\ \A other \in Sensor \ {s} : samples'[other] = samples[other]
    BY <1>0, <2>2, <2>3, SamplesAssumption
  <2>5. /\ cal' \in [Sensor -> CalState] /\ cal'[s] # "IDLE"
        /\ \A other \in Sensor \ {s} : cal'[other] = cal[other]
        /\ cal'[s] = "UPDATE" => samples'[s] # 0
    BY <1>0, <2>1
  <2> QED BY <1>0, <2>4, <2>5
<1> QED BY <1>1, <1>2, <1>3

LEMMA SampleStep == ASSUME IInv, NEW s \in Sensor, TakeSample(s) PROVE IInv'
<1> USE DEF IInv, craftVars, historyVars
<1>1. ~armed /\ cal[s] # "IDLE" /\ Calibrating
  BY DEF TakeSample, Sample, Begin, Measure, Apply, Finish, CalibratesOnGround, Calibrating
<1>2. s = "accel" => touched
  BY <1>1 DEF InUse
<1>3. ASSUME Begin(s) \/ Apply(s) \/ \E ok \in BOOLEAN : Measure(s, ok),
             UNCHANGED <<craftVars, historyVars>>
      PROVE  IInv'
  <2>1. /\ UNCHANGED <<flash, config, storageResult>>
        /\ bias' \in {bias, "part", "cal", "odd"}
        /\ s # "accel" => bias' = bias
    <3>1. CASE Begin(s)
      BY <3>1 DEF Begin
    <3>2. CASE Apply(s)
      <4>1. s # "accel" => bias' = bias
        BY <3>2 DEF Apply
      <4>2. s = "accel" => bias' \in {"cal", "odd"}
        BY <3>2 DEF Apply
      <4> QED BY <3>2, <4>1, <4>2 DEF Apply
    <3>3. ASSUME NEW ok \in BOOLEAN, Measure(s, ok)
          PROVE  /\ UNCHANGED <<flash, config, storageResult>>
                 /\ bias' = IF s = "accel" THEN "part" ELSE bias
      BY <3>3, Zenon DEF Measure
    <3> QED BY <1>3, <3>1, <3>2, <3>3
  <2>2. /\ samples' \in [Sensor -> 0..Samples] /\ Counting'
        /\ cal' \in [Sensor -> CalState]
    BY <1>3, SampleCounted
  <2>4. /\ s = "accel" => cal'["accel"] # "IDLE"
        /\ s # "accel" => cal'["accel"] = cal["accel"]
    BY <1>3, SampleCounted DEF Sensor
  <2>5. TypeOK'
    BY <1>3, <2>1, <2>2 DEF TypeOK, AccBias, Saved
  <2>6. CalibrationKept' /\ InUse'
    BY <1>2, <1>3, <2>1, <2>4 DEF CalibrationKept, InUse, Durable
  <2> QED BY <1>1, <1>3, <2>1, <2>2, <2>5, <2>6
          DEF CalibratesOnGround, CleanRows, StaleKnown, HeldNeedsReboot
<1>4. ASSUME NEW committed \in BOOLEAN, Finish(s, committed),
             UNCHANGED <<craftVars, historyVars>>
      PROVE  IInv'
  <2>1. /\ cal' \in [Sensor -> CalState]
        /\ \A other \in Sensor : cal'[other] \in {cal[other], "IDLE"}
        /\ s = "accel" => cal["accel"] = "SAVE"
        /\ s # "accel" => cal'["accel"] = cal["accel"]
    BY <1>4 DEF Finish, Enter, CalState, TypeOK, Sensor
  <2>2. CASE Save(committed)
    BY <1>1, <1>4, <2>1, <2>2, SaveStep DEF Finish
  <2>3. CASE UNCHANGED storeVars /\ s # "accel"
    <3>1. TypeOK'
      BY <1>4, <2>1, <2>3 DEF TypeOK, storeVars, Finish
    <3>2. CalibrationKept' /\ InUse'
      BY <1>4, <2>1, <2>3 DEF CalibrationKept, InUse, Durable, storeVars
    <3>3. Counting'
      BY <1>4, <2>1 DEF Counting, Finish
    <3> QED BY <1>1, <1>4, <2>3, <3>1, <3>2, <3>3
            DEF CalibratesOnGround, CleanRows, StaleKnown, HeldNeedsReboot, storeVars
  <2> QED BY <1>4, <2>1, <2>2, <2>3 DEF Finish, FinishCalibration
<1> QED BY <1>3, <1>4 DEF TakeSample, Sample

-----------------------------------------------------------------------------

\* Every command, sample, boot and change of arming keeps the invariant.
LEMMA Step == IInv /\ [Next]_vars => IInv'
<1> SUFFICES ASSUME IInv, [Next]_vars PROVE IInv'
  OBVIOUS
<1>1. CASE \E s \in Fitted : TakeSample(s)
  BY <1>1, SampleStep, FittedAssumption
<1>2. CASE Msp
  <2>1. CASE \E held \in Held : SetAndReload(held) \/ MspSetGpsConfig(held)
    BY <2>1, MspSetStep
  <2>2. CASE MspCalibrateAcc \/ MspCalibrateMag
    BY <2>2, CalibrateStep
  <2>3. ASSUME NEW committed \in BOOLEAN, MspSave(committed) PROVE IInv'
    BY <2>3, SaveStep DEF MspSave, calVars, IInv, TypeOK, Calibrating
  <2>4. ASSUME NEW committed \in BOOLEAN, MspResetConf(committed) PROVE IInv'
    <3>1. ResetConfig \in Config /\ OnlyUntagged(ResetConfig)
      BY DefaultType, SanitizeType, SaveType
      DEF ResetConfig, PostLoad, OnlyUntagged, AccBias, Saved
    <3>2. flash \in Image /\ StaleWhereIgnored(flash)
      BY DEF IInv, TypeOK, StaleKnown
    <3>3. CASE committed
      BY <2>4, <3>1, <3>3, ImageType, StartIInv DEF MspResetConf
    <3>4. CASE ~committed
      BY <2>4, <3>2, <3>4, StartIInv DEF MspResetConf
    <3> QED BY <3>3, <3>4
  <2>5. CASE \E held \in Held : SetUnasked(held)
    BY <2>5, UnaskedStep
  <2> QED BY <1>2, <2>1, <2>2, <2>3, <2>4, <2>5
          DEF Msp, MspSetFeatureConfig, MspSetSensorConfig, MspSetCfSerialConfig,
              MspCommonSetSerialConfig, MspSetMotorConfig, MspSetAdvancedConfig,
              MspSetMixerConfig, MspSetRxConfig, MspSetSensorAlignment,
              MspSetBlackboxConfig
<1>3. CASE Cli
  <2>1. ASSUME NEW committed \in BOOLEAN, CliSave(committed) PROVE IInv'
    BY <2>1, SaveStep DEF CliSave, calVars, IInv, TypeOK, Calibrating
  <2>2. CASE \E held \in Held : CliSet(held)
    BY <2>2, UnaskedStep DEF CliSet
  <2> QED BY <1>3, <2>1, <2>2, CliSetCalibrationStep, CliDefaultsStep, CliLoadStep,
             CliCalResetStep DEF Cli
<1>4. CASE Arm \/ Disarm
  BY <1>4, ArmStep
<1>5. CASE Restart
  BY <1>5, StartIInv DEF Restart, IInv, TypeOK, StaleKnown
<1>6. CASE UNCHANGED vars
  BY <1>6 DEF vars, storeVars, calVars, craftVars, historyVars, IInv, TypeOK,
      Counting, CalibratesOnGround, Calibrating, CalibrationKept, Durable, CleanRows,
      StaleKnown, HeldNeedsReboot, InUse
<1> QED BY <1>1, <1>2, <1>3, <1>4, <1>5, <1>6 DEF Next

THEOREM Invariance == Spec => []IInv
  BY InitIInv, Step, PTL DEF Spec

\* Type correctness of the craft, its EEPROM and its calibrations.
THEOREM GroundTypeCorrect == Spec => []TypeOK
<1>1. IInv => TypeOK
  BY DEF IInv
<1> QED BY <1>1, Invariance, PTL

\* A craft that flies is not calibrating, whatever is commanded and when.
THEOREM GroundCalibration == Spec => []CalibratesOnGround
<1>1. IInv => CalibratesOnGround
  BY DEF IInv
<1> QED BY <1>1, Invariance, PTL

\* A finished calibration is in the EEPROM unless the last access failed.
THEOREM FinishedIsKept == Spec => []CalibrationKept
<1>1. IInv => CalibrationKept
  BY DEF IInv
<1> QED BY <1>1, Invariance, PTL

\* No stale mode row acts, from any EEPROM that an older revision can leave.
THEOREM RowsAreClean == Spec => []CleanRows
<1>1. IInv => CleanRows
  BY DEF IInv
<1> QED BY <1>1, Invariance, PTL

\* When the craft arms, a setting that the drivers have not taken is one that was
\* changed by a command that asks for no reboot; no announced change is forgotten.
THEOREM ArmedIsConfigured == Spec => ArmsAsConfigured
<1>1. ASSUME IInv, [Next]_vars, ~armed, armed'
      PROVE  running = config.held \/ unasked
  <2>1. CASE Arm
    BY <1>1, <2>1 DEF Arm, MayArm, IInv, HeldNeedsReboot
  <2>2. CASE ~Arm
    <3>1. armed' \in {armed, FALSE}
      BY <1>1, <2>2 DEF Next, TakeSample, Msp, Cli, Disarm, Restart, StartFrom,
        MspSetFeatureConfig, MspSetSensorConfig, MspSetCfSerialConfig,
        MspCommonSetSerialConfig, MspSetMotorConfig, MspSetAdvancedConfig,
        SetAndReload, MspSetGpsConfig, MspCalibrateAcc, MspCalibrateMag, MspSave,
        MspResetConf, MspSetMixerConfig, MspSetRxConfig, MspSetSensorAlignment,
        MspSetBlackboxConfig, SetUnasked, CliSet, CliSetCalibration, CliDefaults,
        CliSave, CliLoad, CliCalReset, craftVars, vars
    <3> QED BY <1>1, <3>1
  <2> QED BY <2>1, <2>2
<1>2. IInv /\ [Next]_vars
        => [~armed /\ armed' =>
              running = config.held \/ unasked]_vars
  BY <1>1
<1> QED BY <1>2, Invariance, PTL DEF Spec, ArmsAsConfigured

\* A saved calibration leaves the EEPROM only by Model::save, or by
\* MSP_RESET_CONF.
LEMMA OnlySavesWrite ==
  ASSUME IInv, [Next]_vars, Durable, ~Durable'
  PROVE  \/ \E committed \in BOOLEAN : Save(committed)
         \/ \E committed \in BOOLEAN : MspResetConf(committed)
<1>1. flash' # flash
  BY DEF Durable
<1> QED BY <1>1 DEF Next, TakeSample, Sample, Begin, Measure, Apply, Finish, FinishCalibration,
      Msp, Cli, Arm, Disarm, Restart, StartFrom, MspSetFeatureConfig, MspSetSensorConfig,
      MspSetCfSerialConfig, MspCommonSetSerialConfig, MspSetMotorConfig, MspSetAdvancedConfig,
      SetAndReload, MspSetGpsConfig, MspCalibrateAcc, MspCalibrateMag, MspSave,
      MspSetMixerConfig, MspSetRxConfig, MspSetSensorAlignment, MspSetBlackboxConfig,
      SetUnasked, CliSet, CliSetCalibration, CliDefaults, Reset, CliSave, CliLoad, Load,
      CliCalReset, storeVars, vars

\* A saved calibration is lost only where another one was asked for.
THEOREM SavedSurvives == Spec => CalibrationSurvives
<1>1. ASSUME IInv, [Next]_vars, Durable, ~Durable'
      PROVE  touched \/ \E committed \in BOOLEAN : MspResetConf(committed)
  <2>1. ASSUME NEW committed \in BOOLEAN, Save(committed) PROVE touched
    <3>1. committed
      BY <1>1, <2>1 DEF Save, Durable
    <3>2. config \in Config /\ bias \in AccBias
      BY <1>1 DEF IInv, TypeOK
    <3>3. Durable' = (bias = "cal")
      BY <2>1, <3>1, <3>2, SaveType, ImageType DEF Save, Durable
    <3> QED BY <1>1, <3>3 DEF IInv, InUse
  <2> QED BY <1>1, <2>1, OnlySavesWrite
<1>2. IInv /\ [Next]_vars
        => [Durable /\ ~Durable' =>
              touched \/ \E committed \in BOOLEAN : MspResetConf(committed)]_vars
  BY <1>1
<1> QED BY <1>2, Invariance, PTL DEF Spec, CalibrationSurvives
=============================================================================
