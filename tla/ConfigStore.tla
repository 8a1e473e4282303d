----------------------------- MODULE ConfigStore -----------------------------
(***************************************************************************)
(* The configuration: its copy in RAM (Model::config), its image in the    *)
(* EEPROM (Storage), and the calibration values that Model keeps in the    *)
(* state and copies to and from the configuration.                         *)
(*                                                                         *)
(* A configuration is abstracted to what the commands treat differently:   *)
(* one setting that a driver takes at boot (any of them: they do not bear  *)
(* upon each other), the mode rows, the tag that dates the image, and the  *)
(* accelerometer's calibration.  The compass's goes the same way, and      *)
(* every boot measures the gyro's anew.  Settings that act at once are     *)
(* left out.                                                               *)
(*                                                                         *)
(* EEPROM.commit is the library's: it writes everything or nothing, which  *)
(* the NVS of the ESP32 does.                                              *)
(***************************************************************************)
EXTENDS Naturals

CONSTANTS
  Held,         \* what the setting taken at boot can be
  DefaultHeld,  \* as the constructor leaves it
  FirstImages   \* what a board may have in its EEPROM when first powered

\* "cal" is what a calibration measured, "odd" what an interrupted one leaves.
Saved == {"zero", "cal", "odd"}
AccBias == Saved \cup {"part"}  \* "part": the running calibration's average

\* Rows of the mode conditions hold bytes that an older revision ignored and
\* this one would read as a mode id: MODE_HORIZON_SHADOW and above, which the
\* version 2 layout did not have, or MODE_ANTI_GRAVITY, which is tagged.
StaleRows == {"shadow", "gravity"}

Config ==
  [held : Held, stale : SUBSET StaleRows, tagged : BOOLEAN, acc : Saved]

\* valid: the magic byte; fits: the size field is that of the version
Image ==
  [valid : BOOLEAN, version : {"V2", "V3", "V4", "other"}, fits : BOOLEAN,
   config : Config]

\* A revision that knew a mode leaves no stale row of it.
StaleWhereIgnored(image) ==
  /\ "shadow" \in image.config.stale => image.version \notin {"V3", "V4"}
  /\ "gravity" \in image.config.stale => ~image.config.tagged

ASSUME StoreAssumption ==
  /\ DefaultHeld \in Held
  /\ FirstImages \subseteq Image
  /\ \A image \in FirstImages : StaleWhereIgnored(image)

VARIABLES
  flash,   \* the EEPROM
  config,  \* Model::config
  bias,    \* state.accel.bias
  storageResult  \* _storageResult

storeVars == <<flash, config, bias, storageResult>>

\* ModelConfig's constructor
Default ==
  [held |-> DefaultHeld, stale |-> {}, tagged |-> TRUE, acc |-> "zero"]

\* Mutant: the mode rows of an untagged image are kept.
SanitizeRowless(c) == [c EXCEPT !.tagged = TRUE]

\* Model::sanitize: a configuration without the Anti-Gravity tag is from before
\* that mode; rows that name it are dropped.
Sanitize(c) ==
  [c EXCEPT !.stale = IF c.tagged THEN @ ELSE @ \ {"gravity"}, !.tagged = TRUE]

Loadable(image) == image.valid /\ image.version # "other" /\ image.fits

\* Mutant: a version 2 image is taken as it is.
DecodeRaw(image) == image.config

\* The prefix of an old layout; version 2 did not know the shadow modes.
Decode(image) ==
  IF image.version = "V2"
  THEN [image.config EXCEPT !.stale = @ \ {"shadow"}]
  ELSE image.config

\* Storage::load into the configuration c, which a bad image leaves alone
LoadInto(c, image) == IF Loadable(image) THEN Decode(image) ELSE c

\* Mutant: the loaded calibration is not taken over.
PostLoadNone(c) == "zero"

PostLoad(c) == c.acc

PreSave(c, b) == [c EXCEPT !.acc = IF b = "part" THEN "odd" ELSE b]

ImageOf(c) == [valid |-> TRUE, version |-> "V4", fits |-> TRUE, config |-> c]

LoadResult(image) == IF Loadable(image) THEN "ok" ELSE "load error"

\* Model::save with the commit's outcome, which is only logged
Save(committed) ==
  /\ config' = PreSave(config, bias)
  /\ flash' = IF committed THEN ImageOf(config') ELSE flash
  /\ storageResult' = IF committed THEN "ok" ELSE "save error"
  /\ UNCHANGED bias

\* Model::load, as the CLI calls it
Load ==
  /\ config' = LoadInto(config, flash)
  /\ bias' = PostLoad(config')
  /\ storageResult' = LoadResult(flash)
  /\ UNCHANGED flash

\* Model::reset: the defaults, their calibration and begin
Reset ==
  /\ config' = Sanitize(Default)
  /\ bias' = PostLoad(Default)
  /\ UNCHANGED <<flash, storageResult>>

\* Espfc::load, then Model::begin
BootConfig(image) == Sanitize(LoadInto(Default, image))
BootBias(image) == PostLoad(LoadInto(Default, image))
=============================================================================
