# ESP-FC: verification of the flight supervisors

ESP-FC is a flight controller for small multicopters on ESP32, ESP8266 and
RP2040. This directory holds a TLA+ specification of the parts of it that keep
control state: the receiver failsafe, arming, the automatic landing and the loop
that runs them; the two containers that cross the ESP32's cores; the stored
configuration, the calibrations and the commands that change them; the flight
modes and who of pilot, ALTHOLD and LAND has the thrust; the set-up of a GPS
receiver over a serial line; and the decoders of the receivers' and the ground
station's serial lines. TLC checks the specification on small instances and TLAPS
proves its safety properties for every value of the constants.

All paths below are relative to `src/lib/Espfc/src/` unless they begin with
`src/`.

## 1. The system

| Component | Code | State it keeps | Operations |
|---|---|---|---|
| Receiver supervision | `Input.cpp` | channel buffers, frame time, loss flags, failsafe phase, qualification window, LAND request | `readInputs`, `processInputs`, `failsafe`, `failsafeStage1/2`, `filterInputs` |
| Mode and arming supervisor | `Control/Actuator.cpp` | mode rows, mode mask, switch mask, arming-disabled flags, two fault latches, `airmodeAllowed`, disarm reason | `updateArmingDisabled`, `updateModeMask`, `canActivateMode`, `updateArmed`, `updateAirMode` |
| LAND supervisor | `Control/Actuator.cpp` | touchdown candidate and dwell, LAND authority, timeout | `updateFailsafeLand` |
| Controller and mixer | `Control/Controller.cpp`, `Output/Mixer.cpp` | thrust command, PID history and who owned it last, motor outputs | `update`, `writeDisarmed` |
| Flight loop | `Espfc.cpp`, `Model.h` | timers; the shared `ModelState` | `update`, `updateOther` |
| Timers | `Utils/Timer.cpp` | 32-bit time stamps | `check`, `update`, `syncTo` |
| Event queue | `Target/QueueAtomic.h` | ring of events, two atomic indices | `push` (from `Model::disarm`), `isEmpty` and `pop` (from `updateOther`) |
| Sequence lock | `Utils/SeqLockWrapper.hpp` | sequence counter, accelerometer vector | `store`, `fetch` |
| Receivers | `Device/Input*.cpp`, `Rc/Crsf.cpp` | decoder state, index, size and the time of the last byte; the MSP request put together from CRSF fragments | `parse`, `update` returning an `InputStatus`, `decodeMsp` |
| Sensors | `Sensor/*.cpp`, `SensorManager.cpp` | filters, freshness | `read`, `preLoop`, `fusion` |
| Calibration | `Sensor/{Gyro,Accel,Mag}Sensor.cpp`, `Model.h` | one state machine and one sample counter per sensor | `calibrate`, `calibrateGyro`, `calibrateMag`, `finishCalibration` |
| Estimators | `Control/Fusion.cpp`, `Control/Altitude.hpp` | attitude, height, vario, health | `update` |
| MSP, CLI, serial ports | `Connect/*`, `SerialManager.cpp` | parser state, response buffer, line buffer | `parse`, `processCommand`, `process` |
| GPS | `Sensor/GpsSensor.cpp` | the search's and the set-up's state, the solution and its age | `update`, `handle`, `handleReceive` |
| Storage | `Utils/Storage.cpp`, `Model.h` | EEPROM image | `load`, `save`, `sanitize` |
| Blackbox | `Blackbox/*` | ring buffer, flash offsets | `update`, `flush` |
| UI and links | `Wireless.cpp`, `Connect/Buzzer.cpp`, `Connect/StatusLed.cpp`, `Connect/Vtx.cpp`, `Telemetry/*` | queues, patterns | `update` |

The supervisors call one another through `ModelState`, not by messages.
`Espfc::update` runs once per gyro interrupt: sensors are read, Input runs at a
divided rate, controller and mixer run if the gyro transaction succeeded, the
Actuator runs at 50 Hz, then one serial port is served. Input writes the
failsafe phase and the LAND request; the Actuator reads them, decides whether
the craft is armed and whether LAND owns the thrust, and writes the phase back
when LAND ends; the controller reads both. MSP can disarm from the serial stage.
All of this is one task, on core 1. Every disarm also pushes an event to
`appQueue`, which a second task on core 0 drains (`updateOther`).

What is hard in this code:

* four callers at different rates share the failsafe record, and none of them
  sees the others' intermediate states;
* frames may be missing, invalid, dropped, reported lost or reported failsafe in
  any order, including in the middle of a landing or of a recovery;
* three timers (stage 1, stage 2, qualification) and three more of LAND
  (minimum time, dwell, timeout) run against each other;
* a mode is a fold over rows that can name each other, and MSP may change them in
  flight; a mode lost to a fault must not come back on its own;
* the controller runs some twenty times between two Actuator updates, and pilot,
  ALTHOLD and LAND take the thrust from each other meanwhile;
* a gyro that fails stops the controller and the mixer but not the supervisors;
* the switch that arms the craft is itself a channel of the failing receiver;
* the event queue has no lock: sender and receiver run on different cores, and
  each decides on an index the other may be storing;
* a reader of the sequence lock copies words that a store may be changing;
* a calibration runs over many loops, ends in a save of the whole configuration,
  and shares that save with two other sensors and with every command that arrives
  meanwhile; the power may go at any point;
* what a command changes and what the drivers took at boot differ until the next
  restart, and arming must know;
* the answers of a GPS receiver carry no number: one that comes late is taken for
  the answer to the next request;
* one index serves four loops of `GpsSensor` in turn;
* a serial line loses and alters bytes; a frame may be split over two reads, and a
  loop that stalls hides the gap between two frames;
* an MSP request over CRSF comes in fragments, any of which may be lost.

`PROJECT.json` lists the hazards one by one, each at its line, with the property
that would catch it or the reason why none does yet.

## 2. The modules

| Module | Models | Lines of code it stands for |
|---|---|---|
| `FlightState` | the shared state, `Model::disarm`, `Mixer::writeDisarmed` | `ModelState.h`, `Model.h` |
| `RxInput` | `Input::update`, every branch of `Input::failsafe` as an action | `Input.cpp:224-987` |
| `ThrustControl` | thrust ownership in the controller; whether the mixer stops the motors | `Controller.cpp`, `Mixer.cpp` |
| `ModeSupervisor` | `Actuator::update`: arming and the LAND supervisor | `Control/Actuator.cpp:336-1573` |
| `FlightLoop` | `Espfc::update`, time, MSP; all properties | `Espfc.cpp:48-217` |
| `LinkGuard` | the abstract promise of the receiver failsafe | (abstract) |
| `MCFlightLoop` | the finite instances | |
| `FlightLoop_proofs` | the inductive invariant, the theorems and their proofs | |
| `EventQueue` | `push` on one core against `isEmpty` and `pop` on the other | `Target/QueueAtomic.h`, `Espfc.cpp:219-239` |
| `BoundedFifo` | the abstract promise of the queue | (abstract) |
| `EventQueue_proofs` | that the ring implements it, for every size | |
| `SeqLock` | `store` against `fetch` | `Utils/SeqLockWrapper.hpp` |
| `SeqLock_proofs` | that a fetch on an even counter is whole and current | |
| `ModeRows` | how the mode rows become the requested modes, and what they mean | `Control/Actuator.cpp:45-140`, `621-739` |
| `Assist` | `Actuator::update` with all modes, thrust ownership in the controller, MSP edits of the rows; the properties | `Control/Actuator.cpp`, `Control/Controller.cpp`, `Connect/MspProcessor.cpp` |
| `MCAssist` | the finite instance | |
| `Assist_proofs` | the inductive invariant and the theorems; that the masks request what the rows mean | |
| `ConfigStore` | the configuration in RAM and EEPROM: load, migration, sanitize, save, reset | `Utils/Storage.cpp`, `Model.h`, `Espfc.cpp` |
| `Calibration` | the three sensors' calibration, sample by sample, and its save | `Sensor/*Sensor.cpp`, `Model.h` |
| `GroundCommands` | what MSP and CLI commands do to the two, arming, restart | `Connect/MspProcessor.cpp`, `Connect/Cli.cpp`, `Control/Actuator.cpp` |
| `Ground` | any order of all these; the properties | |
| `MCGround` | the finite instance | |
| `Ground_proofs` | the inductive invariant and the theorems | |
| `GpsLink` | `GpsSensor::update` with the receiver and the line as its environment; the properties | `Sensor/GpsSensor.cpp`, `.hpp` |
| `MCGps` | the finite instance | |
| `GpsLink_proofs` | the three inductive invariants and the theorems | |
| `LineDecoders` | what the IBUS, SBUS, CRSF and MSP decoders do with a byte | `Device/InputIBUS.cpp`, `InputSBUS.cpp`, `InputCRSF.cpp`, `Connect/MspParser.cpp` |
| `CrsfMsp` | MSP requests put together from CRSF fragments | `Rc/Crsf.cpp:165-220`, `Device/InputCRSF.cpp` |
| `SerialLine` | a decoder at the end of a bad line; the properties | the receivers' `update`, `SerialManager.cpp`; the line and the sender |
| `SerialLine_proofs` | the decoders' inductive invariant and its theorems | |
| `CrsfMsp_proofs` | that of the requests over CRSF | |

There are seven families. `FlightLoop` EXTENDS the modules above it, one per
component, and `Ground` EXTENDS `GroundCommands`, which EXTENDS `Calibration`,
which EXTENDS `ConfigStore`. `Assist` EXTENDS `ModeRows`, `SerialLine` EXTENDS
`LineDecoders` and `CrsfMsp`. `EventQueue`, `SeqLock` and `GpsLink` stand alone.
`SerialLine`'s constants are plain numbers, so its configurations give them
without an MC module.
The families are not multiplied with each other, because what crosses between
them is one flag or nothing: the flight task does not read what the queue
delivers (`updateOther` discards it), all callers of the sequence lock are in
the flight task, and of the ground's state the Actuator reads two arming-disabled
flags, CALIBRATING and REBOOT_REQUIRED, which are part of `other`, an
unconstrained input, in `FlightLoop`. What `FlightLoop` proves therefore holds
for every value `Ground` could give them. The other way round, `Ground`'s `Arm`
has the two flags as its guard and leaves the other conditions open, so that it
allows every arming that `ModeSupervisor` does. Of the receivers, `FlightLoop` takes
the status and the frame of each `update` as an unconstrained input, so that it
holds for whatever `SerialLine`'s decoders make of a line.

`Assist` and `FlightLoop` look at the same two functions from two sides.
`FlightLoop` has every deadline and every frame, and one row each for ARM and
FAILSAFE. `Assist` has every kind of row, ANGLE, ALTHOLD and AIRMODE, and no time:
the receiver supervisor is down to the phases the Actuator tells apart (IDLE,
LANDING, any other), and when a LAND ends is a choice at each update.

### State

The variables are the fields of `ModelState` the supervisors read, under the
source's names; `FlightState` gives the field of each. Four are not fields:

* `loop` is the next stage of `Espfc::update`, `actuated` whether the Actuator
  timer has fired since the last tick;
* `handed` records whether the last `Input::update` reached `filterInputs`;
* `land` gathers the `failsafe.landing*` fields. `landingEligible`,
  `landingEstimatorHealthy`, `landingLevelRequested` and
  `landingDescentRequested` are not kept: each is assigned together with
  `landingActive` or read only in the call that sets it.

### Time

The code stores `micros()` and subtracts. The model stores the differences as
ages in ticks of 100 ms, each saturating just past the largest value the code
compares it with. Within one pass of the loop `micros()` does not advance. A
`Tick` falls only between passes and only when the Actuator has run since the
last tick: its period (20 ms) is shorter than a tick, and a pass takes well under
a millisecond. Between two ticks any number of passes may run with or without the
Actuator, so every interleaving of the stages at their different rates occurs.
The wrap of `micros()` after 71.6 minutes is not modelled.

The comparisons keep their form: `>=` for stage 1, `>` for stage 2, `<` for the
gyro and so on, so a boundary is reached exactly.

### Data

* The throttle and the thrust command are small integers with the same order and
  margins; 0 is the minimum (`us[THRUST] = 1000`, `ch = -1`).
* AUX channels are two Booleans: whether the value lies in the ARM range and in
  the FAILSAFE range.
* The altitude estimate is an input, with four values: not healthy; flight; in
  the hold band of touchdown; in the strict band. It may change between any two
  calls. Nothing in the model makes the estimate truthful.
* `other` stands for the arming-disabled flags of code outside the model.

### The containers

`EventQueue` takes each load and store of an atomic index, and each access to a
slot, as a step, so any step of one task may fall between two of the other. A
task's load of the index that only it stores is folded into the step that uses
it. `sender` and `drainer` are the two program counters, `item` and `event` the
locals; `accepted` and `received` are what the last calls returned. The indices
are sequentially consistent, as `std::atomic`'s default order makes them.

`SeqLock` writes and copies one word per step, in any order. Its words do not
hold numbers but the name of the store they come from, the counter with which
that store closes. The 32-bit counter is not wrapped: a reader would have to
sleep through 2^31 stores in the middle of a copy.

### Configuration and calibration

* A configuration has four fields. `held` is one setting that a driver takes at
  boot, whichever: the others do not bear upon it. Setters of features, sensors,
  serial functions, motors and GPS call `setRebootRequired` (`SetAndReload`); those of
  the mixer type, the receiver's provider, `gyro.dev` and the blackbox device do not
  (`SetUnasked`). A setter of another setting either leaves `held` and asks for the
  reboot or is no step. `stale` stands for mode rows with ids that an older revision
  ignored; `tagged` for `antiGravityModeConfigVersion`; `acc` for the accelerometer's
  calibration. The settings that act at once are left out, and so are the values of the compass
  calibration (it takes the same way as the accelerometer's) and of the gyro's
  (not stored).
* `acc` and `bias` do not hold numbers but where they come from: zero; measured
  by a finished calibration; the running average; or the remains of an
  interrupted one.
* An image in the EEPROM has the header fields `load` tests. `EEPROM.commit`
  writes everything or nothing: the ESP32's library keeps the image as one NVS
  blob. A failed commit is an outcome of every save.
* `running` is what the drivers took at the last boot. `touched`, `unasked` and
  `reloaded` are history since then: whether a command asked for another
  accelerometer calibration, whether one changed `held` without asking for a reboot
  (a setter that does not, or any of the CLI's), and whether the CLI loaded the
  configuration.
* `Fitted` are the sensors the craft has; the gyro is one. One step of a calibration
  is one sample; the gyro's `still` is a choice, as is the movement the others wait for.

### The GPS link

* The receiver and the line are the environment. The receiver's generation, rate
  and enabled messages are variables; `requests` and `replies` are what the line
  carries. Either may be lost; a request or answer sent at a rate the other end
  does not have is lost too; a receiver refuses the optional requests, or not.
* An answer is late whenever `Expire` comes before it: the code's timeout is a
  choice of the environment and not a clock.
* Navigation messages repeat for ever, so they are not queued: one may arrive at
  any update at which the receiver has them enabled. A solution's age counts
  ticks, with at least one update between two of them.
* A restart of the flight controller keeps the receiver powered, with its rate and
  its messages, and empties the line.
* `trouble` is history: what went wrong so far.
* `DetectGpsL5` and `ConfigureGnss` keep the source's branch for a NEO-6M, which
  `EnableSbas` sends past both.

### The serial lines

* Each step is one byte: as it was sent (`Arrive`), altered (`Alter`), one that was
  not sent (`Insert`), or none (`Lose`). The bytes after a frame's head take any
  value, those that begin a frame included.
* `late` is a free choice per byte: the decoder's timer has run out. A gap on the
  line, a frame that is split over two reads, and a loop that stalls and reads two
  frames at once are all choices of it. The receivers' decoders then start anew
  (`Timed`); `MspParser` has no timer.
* The checksums are ideal: one is right when its bytes are those of one frame that
  was sent. SBUS has none. The direction of an MSP frame is not under its checksum
  (`Unchecked`), and the decoder of the model does not keep it.
* `clean`, `visible` and `blurred` are history: whether the frame being sent has
  arrived unaltered so far, whether the decoder could also see where it began, and
  whether since the last gap it saw another frame was begun or a byte came that was
  not sent so. `applied` is what the decoder made of the last byte.
* A fragment's data count in units, and each unit carries the name of its request,
  so that a mixture shows.
* Left out: the values of the channels, the classification of a frame as dropped or
  failsafe, telemetry, and `_new_data`.

### Modes and thrust

* A row is a record: its mode, AND or OR, an AUX range, a link. `on`, the set of
  ranges that hold the value of their channel, is chosen at every update, so every
  position of every switch is met. A range on a channel the receiver lacks is not
  in `Present`. `Requested` is the code's two passes, written as the masks after each
  row; `Meant` says the same without masks or order.
* A `Reading` is all else an update reads: the throttle, the ALTHOLD stick
  (centred, deflected, invalid), which estimates are healthy, whether the gyro is
  fresh, and `blocked` for every arming-disabled flag not named. The controller
  chooses its own estimates at each cycle, as it looks at them itself.
* `mask` leaves out FAILSAFE, which only the buzzer reads, and `maskPrev`, since an
  edge is `mask` against `mask'`.
* `phase` may leave `OTHER` for `IDLE` only when an update has seen it (`seen`): a
  link qualifies for `RX_RECOVERY_US`, 500 ms, and the Actuator runs every 20 ms.
* `fell` is history: the modes that something took away while their switch was on.
  Modes that MSP_SET_ARMING_DISABLED takes are not counted (see Observations). So
  is `hand`: whether the last thrust command was the pilot's.

### Configuration of the flight model

Modelled: `failsafe.procedure`, the MOTOR_STOP feature, all the deadlines. Fixed:
the ESP32 build with `ESPFC_MULTI_CORE` and `ESPFC_LAND_V2_ACTIVE`; one unlinked
OR row each for ARM and FAILSAFE (the other modes are in `Assist`);
throttle `fsMode` AUTO and AUX HOLD (the defaults); the stick interpolation filter
off; every channel mapped.

Small differences that do not affect a property: the gyro is read before Input in
a pass, in the model in the control stage (only the Actuator looks at its age);
`RX_LOSS_RECOVERED` exists only within one call and is not a state; LAND's timeout
is a constant although the code derives it from the entry height, between 15 and
60 seconds.

## 3. The properties and the runs

| Run | Question | Properties |
|---|---|---|
| `AutoLand` | does an automatic landing stay safe under every glitch, and end? | `TypeOK`, `SticksWithheld`, `LostLinkIsLanding`, `CleanTouchdown`, `RequestOutlivesGlitches`, `GuardsLink`, `LandEnds` |
| `Drop` | is a disarm complete and final, and does a restored link end the failsafe? | `NoStaleSticks`, `NoBlindFlight`, `DisarmedIsStopped`, `NoRearmAfterFailsafe`, `RestoredLinkRecovers` |
| `LandTerminal` | is LAND terminal for the flight? (violated) | `LandIsTerminal` |
| `GroundContact` | does ground contact start touchdown confirmation? (violated) | `GroundContactCounts` |
| `LandReleases` | does a disarmed craft leave LANDING? (violated) | `LandReleases` |
| `EventQueue` | is the cross-core queue a FIFO? | `SlotExclusive`, `ReceiveFindsEvent`, `ImplementsFifo`, `WaitingIsDelivered` |
| `SeqLock` | is a value fetched on an even counter one store's value? | `EvenFetchIsCurrent`, `FetchEnds` |
| `Ground` | can a command, a save that fails or a restart lose a calibration, or let the craft arm wrongly? | `TypeOK`, `CalibratesOnGround`, `CalibrationKept`, `CleanRows`, `CalibrationSurvives`, `ArmsAsConfigured` |
| `Gps` | does the set-up end as it should on a bad line? | `TypeOK`, `IndexInBounds`, `SetUpWhenReceiving`, `ErrorHasCause`, `FixIsCurrent`, `SetUpEnds` |
| `Assist` | do the modes follow the switches, and the thrust its owner, under edits, faults and losses? | `TypeOK`, `RequestedAsMeant`, `ReentryNeedsSwitchCycle`, `BumplessEntry`, `ArmsIntoAltHold` |
| `Line` | does each decoder take the frames that were sent, only these, and find them again, on any line? | `IndexInBounds`, `WholeFrameTaken`, `TakenWasSent`, `DataNeverMixed`, `FindsFrames` |
| `Commands` | is an MSP request over CRSF run only whole? (violated) | `RunsWhole` |

Safety:

* `SticksWithheld`: an armed craft in any phase but IDLE gets no sticks.
* `NoStaleSticks`: sticks that reach the controller are younger than
  `RX_RECOVERY_GAP_US`.
* `LostLinkIsLanding`: past the Stage-2 delay an armed craft is landing.
* `DisarmedIsStopped`: a supervisor's disarm stops the motors in the same call,
  also when the mixer is not running.
* `NoBlindFlight`: after the Actuator's update an armed craft has a fresh gyro.
* `NoRearmAfterFailsafe`: after a failsafe disarm, arming needs the ARM switch to
  have been seen off.
* `CleanTouchdown`: a touchdown without fault took minimum time plus dwell.
* `RequestOutlivesGlitches`: a craft that stays armed keeps its LAND request.
* `GuardsLink`: the loop implements `LinkGuard`;
* `SlotExclusive`: no slot of the queue is written while it may be read;
* `ReceiveFindsEvent`: the `pop` behind an `isEmpty` that said no finds an event;
* `ImplementsFifo`: events are delivered once each and in order, and refused only
  when `Size` are waiting;
* `EvenFetchIsCurrent`: a fetch that returns after comparing an even counter
  returns the last completed store, every word of it;
* `CalibratesOnGround`: an armed craft has no calibration under way, whatever
  command comes when;
* `CalibrationKept`: a finished accelerometer calibration is in the EEPROM unless
  the last access to it failed, in every order of three calibrations, commands
  and saves;
* `CalibrationSurvives`: a stored calibration is lost only after a command for a
  new one or for the defaults;
* `ArmsAsConfigured`: a setting taken at boot is the one its driver took when the
  craft arms, unless a command that asks for no reboot has changed it. The exception
  is the code's: see the observations for the commands it stands for;
* `CleanRows`: unless the CLI has loaded the configuration, which it does not
  sanitize, no mode row of an older revision acts;
* `IndexInBounds`: the index that the search, both lists and the error state share
  is inside the list it is used for;
* `SetUpWhenReceiving`: with nothing lost or late, a receiver taken for set up
  sends all messages the code reads and no NMEA;
* `ErrorHasCause`: the receiver is given up only if something went wrong;
* `FixIsCurrent`: after an update a fix is no older than `SOLUTION_TIMEOUT`, and
  so is its position with receivers that send both in one message;
* `RequestedAsMeant`: whatever table MSP has put together, in whatever order, the
  two passes request the modes that the rows mean;
* `ReentryNeedsSwitchCycle`: ARM, ANGLE or ALTHOLD, taken away by a fault, a stale
  gyro, the end of a LAND or Stage 2, comes back only after an update has found its
  switch off;
* `BumplessEntry`: the first cycle after the pilot's last thrust command repeats it,
  however often ALTHOLD, LAND and the estimates come and go;
* `ArmsIntoAltHold`: a craft that arms with ALTHOLD requested has ALTHOLD, unless a
  fault found at an earlier update keeps it out;
* `IndexInBounds` of `SerialLine`: no decoder stores a byte outside its buffer;
* `WholeFrameTaken`: a frame that arrives whole, its beginning seen by the decoder,
  is taken, whatever came before it;
* `TakenWasSent`: what a decoder takes is a frame that was sent; SBUS takes
  something else only after a byte that was not sent so, or a gap it did not see;
* `DataNeverMixed`: a request over CRSF is not run with part of its data, nor with
  that of another.

Liveness, under `FairSpec`:

* `LandEnds`: a landing does not last for ever;
* `RestoredLinkRecovers`: a link that stays good ends the failsafe;
* `WaitingIsDelivered`: an event that waits in the queue is received;
* `FetchEnds`: a fetch returns once the stores stop;
* `SetUpEnds`: whatever is lost, late or refused, the set-up of a GPS receiver ends
  in RECEIVE or ERROR;
* `FindsFrames`: on a line that is good from some point on, every decoder finds the
  frames again, even one that never sees a gap.

### Bounds

The deadlines are 1 to 3 ticks, in the order the code has them
(`RecoveryGap <= StageTwo`, `MinLanding + Dwell <= LandTimeout`), which is what
`TimingAssumption` says and all that the proofs use. Every comparison is then
exercised at, below and above its limit. `MinFrames` is 1 (5 in the code): it
counts frames after boot, and nothing else reads it. Thrust has as many steps as
the two touchdown margins need. The runs give the receiver the statuses, frames,
MSP arguments and blocking flags that their questions need; between them every
branch of `Input::failsafe`, `updateFailsafeLand` and the mode logic is taken.
Larger values are covered by the proofs.

The queue holds 3 events (63 in the code) of two kinds: every alignment of the
indices, empty, full and wrapped, occurs. The sequence lock has the three words of
the accelerometer vector and at most `MaxStores = 3` stores, so a fetch meets no
store, one, or several in each of its iterations. `MaxStores` is a bound of the
model; the code stores for ever, and a fetch could then be overtaken for ever.

`Ground` starts from four images: a blank EEPROM, this revision's, and the two
older layouts with what can be stale in them. `held` has two values, so that a
setting can be changed and changed back; all three sensors are fitted. One sample is
averaged: `Samples` only delays, and all commands can arrive in each of the four
other states. Nothing
else is bounded.

`Gps` tries two rates, meets receivers at the first of them, at the configured rate
and at one that no search finds, turns off three NMEA sentences (a list shorter
than the NEO-6M's four messages, so that the two lists have different ends), and
restarts once. A late answer can thus arrive in every later state. The line needs
no bound: at most one request is sent for an answer or a timeout.

`Assist` has a table of four rows (eight in the code): ARM, ALTHOLD, ANGLE linked to
ALTHOLD, and one that MSP rewrites, over and over, into a row that counts with,
beside or against the others: a second row of the same mode with AND on a channel
the receiver has or lacks, an OR row for each other mode, a link that makes the
ANGLE row one of a chain, and, in the short form, a second ARM row. One edit is
beyond the table. So up to two rows meet for a mode in either pass, and each link
is met valid and invalid. The readings have one or two things wrong at a time, each
disjunct of the guards alone. The thrust has two steps: a property compares two
commands for equality. Both failsafe procedures are tried.

`AutoLand` uses frames with the ARM switch on only; what a switch-off does is in
`Drop` and in the proofs.

`Line` scales the frames down and keeps their order: bytes are 0 to 7, an IBUS frame
has 6 (32 in the code), an SBUS frame 5 (25), a CRSF frame at most 8 (64), MSP's
buffer holds 5. The bytes that begin frames occur among the others ('M' is also a
payload size), and a CRSF frame of another type goes past the decoder. MSP payloads
are empty, of one byte, and larger than the buffer. Sequence numbers go round after
4 fragments (16 in the code), a request has one fragment or 4, and 6 fragments are
sent. `MaxMissed` fragments at most are lost in a row: with as many lost as the
sequence has numbers, the next one fits, and nothing in the protocol could tell.

`CHECK_DEADLOCK` is on in every run: the tasks never stop.

### Fairness

`Fairness` is weak fairness of the receiver, control and serial stages, since the
loop runs for ever, and strong fairness of the Actuator and of time, which are
enabled at some points of the pass only: the 50 Hz timer is checked on every pass
(`Espfc.cpp:119`) and fires once it is due. Nothing is assumed of the receiver,
the sensors, the sticks or MSP. `RestoredLinkRecovers` has its assumption on the
receiver in its own statement, `LinkRestored`.

`EventQueue` assumes weak fairness of the background task, which polls for ever
(`src/src/main.cpp`, `backgroundTask`), and nothing of the sender. `SeqLock`
assumes that a `store` or `fetch` that has begun keeps running, not that either is
called again. `GpsLink` assumes weak fairness of an update that finds no message:
updates run at 50 Hz or more and the receiver sends at most 25 messages a second, so
the states that send and the deadlines come again and again. Nothing is assumed of
the receiver or the line. `SerialLine` assumes that the sender goes on to send, and
the loop to read, some byte; the rest is in the premise of `FindsFrames`,
`LineRestored`. `Assist` states no fairness: its properties are about what
a step may do.

## 4. What is proved

`FlightLoop_proofs` proves for every value of the constants that satisfies the
three assumptions of `FlightState`:

| Theorem | States |
|---|---|
| `TypeCorrect` | `Spec => []TypeOK` |
| `Invariance` | `Spec => []IInv` |
| `SticksGated`, `SticksFresh`, `LossHandled`, `DisarmStops`, `GyroGuard` | the five safety invariants |
| `RearmNeedsEdge`, `RequestSurvives`, `TouchdownIsClean` | the three action properties |
| `LandKeepsItsTime` | `Spec => LandInTime`, the safety half of `LandEnds` |
| `Refinement` | `Spec => GuardsLink` |

None of the invariants is inductive alone. `IInv` adds:

* `UnqualifiedIsIdle`: until the receiver has been qualified the phase is IDLE,
  the link counts as lost and the craft is disarmed. Without it, `NeverQualified`
  (which sets IDLE) could give the sticks to an armed craft;
* `ArmedPhase`: an armed craft is not in LANDED, in RX_LOSS_DETECTED its last
  frame is at least `RX_RECOVERY_GAP_US` old, and in LANDING the request is up;
* `WindowClosed`: a closed qualification window has no age, and over a trusted
  link it is closed. This is what makes the streak of `LinkGuard` start at zero;
* `LossSeen`: outside the receiver stage, a frame past the Stage-2 delay has been
  noticed as a loss;
* `SwitchLatched`: a craft disarmed by the failsafe whose switch is still on
  keeps `ARMING_DISABLED_ARM_SWITCH`, or the cause is still up. This is the
  invariant behind `NoRearmAfterFailsafe`, and the reason for `RxRecovery > 1` in
  the assumptions: one tick may pass between the disarm and the Actuator's next
  update, and the phase must still be up by then.

`TouchdownTimed` is a second inductive invariant, for `CleanTouchdown`: a dwell
started only after the minimum time, so the age of the request is at least the
minimum plus the dwell. `LandInTime` says that no Actuator update leaves a craft
armed in a LAND whose timeout has come; it rests on `ArmedPhase`: without the
request, `updateFailsafeLand` would return before it looks at the timeout.

Each step of the proof is one stage of the loop. `InputKeeps` and
`ActuatorKeeps` have a case for each way out of `failsafe` and
`updateFailsafeLand`; `ActuatorOutcome` sums up what any Actuator update may do,
so the other lemmas do not look at its eight branches again.

`EventQueue_proofs` proves `SlotExclusive`, `ReceiveFindsEvent` and
`ImplementsFifo` for every size above zero and every set of events. The invariant
says what each task may still believe while the other moves: the room the sender
saw is still there (`SenderInv`), and so is the event the drainer saw, with its
copy equal to the oldest slot (`DrainerInv`). The refinement maps the ring to the
sequence between its indices: `Publish` is the FIFO's `Accept`, `Advance` its
`Deliver`, a full `CheckRoom` its `Refuse`, and every other step a stutter
(`PublishAppends`, `AdvanceDelivers`, `FifoStep`).

`SeqLock_proofs` proves `EvenFetchIsCurrent` for every number of words and stores.
`WriterInv` is what the writer guarantees (even counter: all words of the last
store; odd: each word of the old or the new one), `ReaderInv` what the reader
relies on (while the counter is the one it loaded, what it has copied is that
store's).

`Ground_proofs` proves the five properties of `Ground` for every set of values,
every set of first images that satisfies `StoreAssumption` and every number of
samples. `Counting`, `CalibratesOnGround`, `CalibrationKept` and `CleanRows` need
three more invariants:

* `StaleKnown`: what is stale in the EEPROM is something its version and tag say it
  did not know, through every save, so that each later load drops it;
* `HeldNeedsReboot`: a setting that differs from the running one has set
  `rebootRequired`, unless `unasked`;
* `InUse`: while no command touched it, a durable calibration is also the one in
  use, and no accelerometer calibration runs that could end in a save of another.

`CalibrationSurvives` then follows step by step: only saves write the EEPROM, and
a save writes what is in use.

`GpsLink_proofs` proves the five safety invariants of `GpsLink` for every list of
rates and sentences. The difficulty of `IndexInBounds` is that a late or
duplicate answer moves the state without the request that belongs to it. The
invariant says what each pending jump (`ackState`, `timeoutState`) expects of the
index (`Prospects`): both lists are entered with the index they were left with in
the middle, or with zero. `CounterIs` is what the index
is when a state goes on with it, and `QuietSearch` that no acknowledgement is on
the line while the rate is searched. `Currency` relates fix,
freshness and the two ages. Each of the other two invariants has an inductive one
of its own, on top of these:

* `Progress`, for `SetUpWhenReceiving`: with nothing lost or late, either the
  receiver has been set up before (`Done`; nothing in the set-up undoes it), or the
  line alternates (`Alternate`: one request, then one answer) and the receiver is
  exactly where the state says (`Stepwise`). `Reached` says how far that is, element
  by element of the lists; it is asked of the request on the line, of the answer, and
  of the timeout, each with the messages that the receiver sends then. A modern
  receiver's two answers to the L5 question break the alternation, and the proof then
  needs that the receiver is `Done` by that time;
* `Course`, for `ErrorHasCause`: with nothing gone wrong, the set-up is in one of four
  phases. `Searching`: the rates left behind are not the receiver's. `GivenUp`: no
  rate is. `Changing`: the receiver has the new rate, or has the request for it and
  nothing else is on the line. `Talking`: both sides have one rate and every request
  whose timeout is ERROR is followed by an answer that is no refusal. Of a modern
  receiver this holds of every request (`Obliging`), of an older one of all but L5
  (`Reserved`), whose timeout is not ERROR.

`SetUpGoesOneWay` is the safety half of `SetUpEnds`. `Place` orders the states; a
state that waits has the place of what its acknowledgement leads to. No step but a
restart goes back, not even one that takes a late answer for the one awaited, since
a timeout never leads behind the acknowledgement (`TimeoutGoesOn`).

`Assist_proofs` proves `TypeOK`, `ReentryNeedsSwitchCycle`, `BumplessEntry` and
`ArmsIntoAltHold` for every table of rows, every edit and every set of readings.
`LossIsLatched` says what remembers each mode that was taken away: the two fault
latches, the ARM switch's flag that holds itself up, or a failsafe phase that no
update has seen yet. That last case is the reason for `seen`: Stage 2 disarms in
Input, and the flag goes up only at the next update. `PilotIsNotOwned` says that
the vertical PID's entry flag is down whenever the pilot commanded last. These
proofs need of `Requested` only that it is a set of modes.

`RowsMeanWhatTheySay` is `RequestedAsMeant`, for tables of any length: the two passes
of `updateModeMask` request what the rows mean. `Tallied` is the invariant of the
passes: after any number of rows the masks say of a mode whether one of its OR rows
was active, whether it has AND rows, and whether one of these was not. `MarkTallies`
shows that `updateMasksForCondition` keeps it, case by case; `OnDecides` that the XOR
at the end reads it off. In the second pass the rows of a linked mode must be tallied
before a link reads it: they are, since no row of a mode that a valid link names is
itself a link (`SecondTally`). The passes are recursive functions over the number of
rows; the induction over it takes the least row that would fail (`Induction`, from
the library's `WFMin`), and `RunExists` shows in the same way that the functions are
what their definitions say. `RowOrderDoesNotMatter` follows: two tables with the same
rows request the same modes.

`SerialLine_proofs` proves `IndexInBounds`, `WholeFrameTaken` and `TakenWasSent` for
every size of byte, frame and buffer that satisfies the two assumptions, for all
four decoders. `LineInv` relates each decoder's state to its index and size
(`States`), says what frames are sent (`FrameInv`), and adds:

* `VisibleInv`: a decoder that saw where the frame being sent began is exactly as far
  as the line is. This is `WholeFrameTaken` before the last byte;
* `SbusAligned`: as long as nothing has blurred the line since the last gap SBUS saw,
  the bytes it holds all came from the frame being sent, and it holds as many as were
  sent only if none was lost. Without a checksum, this is all that `TakenWasSent` has
  for it.

The lemmas `IbusStep` to `MspStep` say where one byte takes a decoder from anywhere,
`IbusGoes` to `MspGoes` where the right byte takes it from where `VisibleInv` has
it; `ArriveStep`, `WrongStep`, `LoseStep` and `BeginStep` put them together.

`CrsfMsp_proofs` proves `DataNeverMixed` for every cycle of sequence numbers, every
request and every buffer, as long as fewer fragments are lost in a row than the
cycle has numbers. `BufInv` says that `_msg` holds the first units of its request and
is complete only with all it expects, which after a mismatch is nothing;
`ContinuesInv` that, while no fragment is missing, the one on the line is the one
after those in `_msg`. `OnlyNextFits` is the arithmetic of the cyclic numbers behind
it. `HearStep` has a case for each way through `decodeMsp`.

Only model-checked: the liveness properties (`LandEnds`, `RestoredLinkRecovers`,
`WaitingIsDelivered`, `FetchEnds`, `SetUpEnds`, `FindsFrames`), which need fairness
and `ENABLED`. Both are out of the prover's reach. Of `LandEnds` and `SetUpEnds` the
safety halves above are proved: what is left to fairness is that updates go on, that
time passes, and that each wait ends. Every safety property of the passing runs is a
theorem.

Before each of them was proved, TLC checked the invariants it rests on (`Progress`,
`Course`, `TimeoutGoesOn`, and `LandInTime` itself) on the instances of section 3;
no run is kept for these, since the proofs contain them.

## 5. Findings

Each is a run whose counterexample TLC prints.

1. **LAND is not terminal** (`LandTerminal`). In the run the receiver reports a
   FAILSAFE and LAND begins. The next poll finds no frame, and the last one is by
   then older than 200 ms but not yet past the Stage-2 delay, so `failsafeStage1`
   (`Input.cpp:779`) puts the phase back to RX_LOSS_DETECTED. LAND no longer owns
   the thrust, the branch for an active LAND (`Input.cpp:539`) no longer applies,
   and a link that is then good for 500 ms leads to IDLE: the craft is armed, the
   request stands, and the sticks are the pilot's in mid-descent. Later in a
   descent a single valid frame has the same effect, since it makes the age small
   again. `src/docs/ASSISTED_V2_INTEGRATION.md:56-58` and the comment at
   `Input.cpp:533` say LAND is terminal and the throttle is not handed back.
2. **Ground contact may never count** (`GroundContact`). When the loss is noticed
   by timeout, Stage 1 has already lowered the throttle, so the entry thrust of
   LAND is the minimum and "thrust below the reference" cannot hold. The landing
   ends by timeout with a fault. Losses the receiver reports itself, and the
   FAILSAFE switch, skip Stage 1 and are not affected.
3. **A disarmed landing is not released** (`LandReleases`). After a disarm during
   LAND by a stale gyro (or MSP) the LANDING phase lasts for ever over a healthy
   link and the craft cannot be armed again, although `Input.cpp:536` says the
   pilot can re-arm afterward.
4. **A request is run without its data** (`Commands`). When a fragment of an MSP
   request over CRSF is lost, `decodeMsp` (`Rc/Crsf.cpp:208`) resets the message at
   the next one but remembers that one's number. The fragment after it then
   "continues" a request that expects nothing more: it is complete at once, and the
   lost request's command is run with an empty payload. `Crsf.cpp:210` says
   "sequence mismatch - reset message".

Observations from reading and from exploring the models, for which no run is kept.

Failsafe and landing:

* after a recovery that took LAND's phase, `landingRequested` stays set; a second
  loss in the same flight reuses the first request's time stamp;
* with MOTOR_STOP, `Mixer::_stop` looks at the throttle channel, which Stage 1
  lowers, and stops the motors although LAND commands thrust (`Mixer.cpp:621`);
* `Controller.cpp:490` says the last thrust is preserved until the Actuator has
  accepted LAND, but `landingV2OwnsControl` is false until then, so the manual
  thrust is commanded for up to one Actuator period;
* while the FAILSAFE switch is seen on, `failsafe` returns before the AUX
  channels are filtered (`Input.cpp:449`), so its release is not seen;
* MSP_SET_ARMING_DISABLED disarms without writing the outputs
  (`Connect/MspProcessor.cpp:2746`); this matters only if the gyro fails at the
  same time. That is why `DisarmedIsStopped` leaves out this reason;
* MSP_SET_ARMING_DISABLED 0 disarms too, and the Actuator may re-arm 20 ms later.

Modes and thrust:

* AIRMODE is back after a disarm: `Model::disarm` clears it, but the update that
  follows still finds `airmodeAllowed` and sets it again, and only then
  `updateAirMode` (`Actuator.cpp:1580`) withdraws the permission. A mode that is on
  is not asked again, so AIRMODE is on at the next arming, on the ground, although
  `Actuator.cpp:1585` says "activate airmode in the air". `ReentryNeedsSwitchCycle`
  leaves AIRMODE out;
* with ALTHOLD on its switch while disarmed the vertical PID integrates, since the
  reset of its I-term is commented out (`Controller.cpp:1858`); a craft that arms in
  ALTHOLD starts with what it has gathered;
* a craft can arm with ALTHOLD requested but kept out by an earlier fault, and then
  flies on manual thrust; `ArmsIntoAltHold` has this as its exception;
* the way back is not bumpless: when ALTHOLD ends, the thrust is the stick's at once;
* the controller looks at the estimates itself, so one that is bad for less than an
  Actuator period leaves and re-enters ANGLE and ALTHOLD without a latch, although
  `Actuator.cpp:826` says "do not automatically re-enter";
* an AND row on a channel the receiver lacks is dropped (`Actuator.cpp:669`), so the
  mode then needs one condition less;
* `sanitize` sets `linkId` of a linked ARM row to zero (`Model.h:795`), which makes it
  an AUX row, although `Actuator.cpp:290` says such a row is ignored "rather than
  falling back" to its range;
* MSP_SET_MODE_RANGE acts on a flying craft: an edit can disarm it or take a mode
  away. `maskPresent` is computed in `Actuator::begin` only and goes stale;
* in ALTHOLD a lost link holds the last climb stick (AUX HOLD) until Stage 2.

The sequence lock:

* the `continue` of a `fetch` that finds an odd counter (`SeqLockWrapper.hpp:86`)
  goes to the loop's condition, which compares with the `seqAfter` of the iteration
  before. If that iteration ended inside the same store, the two are equal and the
  half-written copy is returned, although the comment at line 80 says "we should
  wait and try again". TLC finds this in `SeqLock` within a few steps
  (`LoadOdd`), and `EvenFetchIsCurrent` speaks of the other way out only. Latent in
  this revision: all callers of `accel.adc` run in the flight task, so no `fetch`
  meets a `store` at all. The run checks what the class promises to callers on two
  tasks, and no hazard of the firmware rests on it.

Configuration and calibration:

* `set accel_offset_x` (`Connect/Cli.cpp:476`) is undone by the next save, since
  `preSave` (`Model.h:1472`) overwrites the configuration's copy with the value in
  use; `src/docs/cli.md:402` lists the parameter. The CLI's `load`
  (`Connect/Cli.cpp:1416`) does not sanitize;
* a save during an accelerometer calibration writes the running average
  (`AccelSensor.cpp:147`), as does a `cal reset_accel` that comes between its last
  sample and its end. `CalibrationKept` leaves these values out;
* an incomplete compass calibration (`MagSensor.cpp:162`) still ends in a save: of
  the values from before, which are out of use until the next restart;
* MSP_SET_MIXER_CONFIG (`Connect/MspProcessor.cpp:1182`), the receiver's provider
  (1720), `gyro.dev` (1361) and the blackbox device (1509) are taken at boot and
  changed without `setRebootRequired`, so the craft arms with them. The Controller
  looks at the new `mixer.type` (`Controller.cpp:152`) while the mixer is the old one
  (`Mixer.cpp:133`). These commands, and the CLI's, are what `unasked` keeps out of
  `ArmsAsConfigured`;
* without a compass, MSP_MAG_CALIBRATION leaves its calibration waiting for ever
  (`Model.h:144`, `Sensor/MagSensor.cpp:78`), and ARMING_DISABLED_CALIBRATING with it,
  until the next restart;
* restart, pass-through and the CLI's `save` and `reboot` do not ask whether the
  craft is armed (`Connect/MspProcessor.cpp:2750`, `2913`).

GPS:

* one late ACK shifts all later ones, since an answer names no request; a VALGET
  has an answer of its own and an ACK, so it shifts them without a fault;
* a NAK that arrives in RECEIVE is an error for good, and so is one lost answer to
  the version request, until the flight controller restarts;
* a restart between `disableNmea` and `enableUbx` leaves a receiver that sends
  nothing and so is not found again; a receiver that restarts by itself is not set
  up again;
* a NEO-6M's position may be old while NAV-SOL keeps the fix
  (`GpsSensor.cpp:923`), although line 756 wants that stale data "cannot masquerade
  as a current fix";
* when the port loses its GPS function, `SerialManager.cpp:254` no longer calls
  `update`, and the last fix stays.

Serial lines:

* the gap timers of IBUS (500 us) and SBUS (600 us) look at the time of reading and
  not of arrival: a frame split over two reads that far apart is dropped, and a
  stalled loop hides the gap between two frames;
* SBUS looks neither at the end byte nor at a checksum (`Device/InputSBUS.cpp:150`),
  so a frame with a byte altered on the line is taken;
* in `decodeMsp`, a fragment that continues before any start has been seen runs
  command 0, and each later fragment in sequence runs the completed `_msg` again;
* `MspParser` has no timeout: a header with a corrupt size swallows the requests
  that follow, until the payload is complete;
* a '$' typed in the CLI goes to the MSP parser, and the bytes of a corrupt MSP
  frame go to the CLI. `_active` and `_ignore` of the CLI are shared by all ports;
* 0x03 leaves the CLI without clearing ARMING_DISABLED_CLI (`Connect/Cli.cpp:972`); a
  session that a letter opens (`Connect/Cli.cpp:1027`) never sets it; and CTRL-D on
  one port clears it for another;
* the PPM interrupt may overwrite `_channels` while Input reads them.

## 6. Plan

Done, in this order: the flight supervisors (`FlightState` to `FlightLoop_proofs`),
`EventQueue` and `SeqLock`, configuration and calibration (`Ground`), the GPS link
(`GpsLink`), all modes and the thrust (`Assist`), the decoders of the serial lines
(`SerialLine`).

Next, should the development go on. Runs are kept few: a component gets one, and
components that interact share it.

1. The ports: the MSP response, the switch to the CLI and back in `SerialManager`,
   the CLI's line buffer. Abstract specification: a byte belongs to one consumer, and
   each request gets at most one answer.
2. `Timer`: 32-bit wrap in `check` and `syncTo`.
3. The barometer's state machine, which makes the estimates `FlightLoop` and
   `Assist` take as inputs.
4. The blackbox: the buffer between logger and flash, and its offsets after a
   restart.

### Not modelled

PPM and ESP-NOW, the receivers without a byte stream: the first is an interrupt that
measures pulses, the second a library's callback. Filters, PID, rates, mixing tables
and estimators: real-valued arithmetic without control state. What depends on them
is a choice in the models: estimates are healthy or not, the PID commands any of its
thrusts. Sensor and ESC drivers and the HAL: register I/O, whose failures are
choices too. Parameter tables and text: most of `Connect/Cli.cpp` and of
`Connect/MspProcessor.cpp` is one entry per setting that copies a field to or from a
message. User interface: buzzer, LED, telemetry, VTX, web pages. Vendored libraries
(`src/lib/betaflight`, `src/lib/AHRS` and others): third-party code. Together these
are most of the repository's lines, which is why the modules stand for a small share
of them: they stand for its control state.

`PROJECT.json` has each part with its status and the reason.
