# Formal model of the Vector Mini motor firmware

TLA+ specifications, TLC model-checking runs and TLAPS proofs for the firmware in `src/`:
a 20 kHz field-oriented motor controller (the *APP*) on an STM32G431, the CAN *Loader* that
updates it, and the host client that drives an update.

`PROJECT.json` lists the components, the runs, the mutants, the lines each definition
translates, the findings, the hazards and the theorems. This file explains them.

## 1. The system

```
 host client --CAN--> Loader main loop --> Loader core --> flash port --> flash (APP pages, record page)
   (PC)       <-----   receive interrupt, ring, one transmission           |
                            ^   mailbox + reset        jump if the record vouches for the APP
                            |                                              v
                      boot handoff  <--- CAN interrupt ---  APP: foreground loop, 20 kHz tick, 1 kHz supervisor
```

Execution contexts of the APP, from the most to the least urgent:

| context | entry | preempted by |
|---|---|---|
| 20 kHz tick (ADC interrupt, priority 0) | `FOC20kHzIRQHandler` | nothing |
| CAN reception (priority 1) and outer-loop worker (PendSV, same priority) | `CANRxIRQHandler` | the tick |
| 1 kHz supervisor (TIM7, priority 3) | `FOC1kHzSupervisor`, `CAN_DisConnect_Handle` | both |
| foreground loop, `main.c:117` | `BootHandoff_AppPoll`, `CAN_SendMessage`, `ParameterPersistence_Poll` | all |

They share words (`ModeNow`, `ErrorNow`, `ModeLast`, thermal verdict) without locks. The Loader
has one foreground loop and one receive interrupt; what makes it hard is power cuts, HAL errors
and a bus that loses frames.

### 1.1 Inventory

For each component: state; operations; partners; what is hard; what makes it correct.

**Loader side**

* **Boot contract** (`shared/boot_contract.*`). State: the 48-byte record page (body, then commit
  mark) and the APP area. Operations: encode, decode, vector and CRC checks. Used by the Loader,
  the factory tool and the APP's linker layout. Correct: a record is believed only if it decodes
  and its image is in flash. *Module `BootContract`.*
* **Loader core** (`loader_core.*`). State: session, image announced, offset, last sequence
  number, last error, `activate_pending`, a one-entry cache of the last accepted mutation.
  Operations: INFO, STATUS, UID, BEGIN, ERASE, PROGRAM, VERIFY, ACTIVATE, ABORT, 30 s tick. Calls
  the flash port; called by the main loop. Hard: retries, late copies, a second client, power cuts
  between any two HAL calls. Correct: a record always vouches for what is in flash, a replay
  repeats only what is true, nothing is executed twice, the bootable image changes only inside a
  session. *Module `LoaderCore`; abstract specification `BootUpdate`.*
* **Loader flash port** (`loader_port.*`). State: flash. Operations: erase record, erase APP page by
  page, program double word by double word with read-back, commit body then mark. Hard: each may
  stop half way. *In `LoaderCore`, as the steps of its jobs.*
* **Loader main loop and CAN link** (`loader_main.c`, `loader_can.c`). State: `stay`, `tx_pending`,
  ages, receive ring, FDCAN FIFO and interrupt flag, latest transmission, mailbox in RAM.
  Operations: receive interrupt, pop, handle, send, jump, boot window, timeouts, resets. Hard: one
  frame per interrupt, a reply that never leaves or is cancelled while another one leaves, resets
  anywhere. Correct: jumps only to a valid image, holds the Loader when asked, never
  jumps without a session having committed. *Module `LoaderMain`.*
* **Loader wire format** (`loader_proto.*`, `loader_crc.c`). No state; byte layout. *Only its
  verdict (well-formed, right length) is modelled.*
* **Maintenance client** (`tools/loader_updater.py`). State: step, sequence number, sends, session,
  image, offset. Operations: `Client.request` (stop-and-wait with retries), `Client.update`. Hard:
  timeouts shorter than an erase, answers to older requests. Correct: what it reports as done is
  done. *Module `LoaderUpdate`.*
* **Maintenance GUI and backend**, **legacy Loader v1 sources**: I/O around the client; superseded
  code. *Not modelled.*

**APP side**

* **Motor mode and fault machine** (`foc_task.c`, `foc_errhandle.c`). State: `ModeNow`, `ErrorNow`,
  `ModeLast`, outputs, start-up memory of the tick, maintenance lock. Operations: the tick,
  `ModeSwitch_Handle`, watchdog, heartbeat. Hard: test in one context, write after another has run;
  two commands between ticks. Correct: outputs are on only in a healthy driving mode, off after a
  trip and for a save, the servo starts only once prepared. *Module `MotorMode`.*
* **Boot handoff** (`boot_handoff.c`, `boot_handoff_app.c`, `boot_stm32g4.c`). State: pending, queued,
  failed, two times. Operations: request, poll, reply queued, reset. Hard: 100 ms limits racing a
  stop and a transmission; foreign frames in the transmit queue. Correct: resets only with the
  motor at rest and the host told. *Module `BootHandoff`, over `MotorMode`.*
* **CAN control interface** (`interface_can.c`, `comm_status_stm32g4.c`). State: heartbeat count,
  node number and its filter, bit rate, one reply slot, the peripheral's FIFO and transmit queue.
  Operations: the receive interrupt, `CAN_SendMessage`, `CAN_BaudRateSwitching`. Hard: a slot filled
  by an interrupt and copied in pieces by the foreground; one frame per interrupt; a re-initialised
  peripheral. Correct: each request that got the slot is answered once, with its own answer; the
  slot is given back. *Mode commands and heartbeat in `MotorMode`, the transmission against a pending
  handover in `BootHandoff`, the rest in `CanLink`; parameter values are not modelled.*
* **Parameter persistence** (`parameter_persistence.c`, `flash.c`). State: record pages, snapshot,
  last result. Operations: save, start-up read. Hard: writes flash with interrupts masked, must never
  do so with the outputs on; one copy, so a power cut leaves part of a record. Correct: what a start
  takes is whole and of one save, what is reported is stored. *Handshake with the tick in
  `MotorMode`, flash and start-up in `ParamStore`.*
* **Outer-loop mailbox** (`foc_run.c`, `motor_outer_stm32g4.c`). State: slot IDLE, QUEUED, RUNNING,
  DONE, three epochs, divider, age. Operations: the tick's `MotorOuterLoop_FastTick`, the worker's
  `MotorOuterLoop_Service`, `RequestReset` from the tick and from the CAN interrupt. Hard: results of an older
  epoch, a late worker, an `epoch++` cut by another. Correct: an answer is applied only in the
  session it was asked for in, an overrun is a real one, a start ends. *Module `OuterLoop`, which
  implements `MotorMode`'s view of it.*
* **Thermal protection** (`motor_thermal_control.c`, `motor_thermal.c`). State: heat model, latch,
  pending configuration and protection slots, clock fault. Correct: nothing drives after a trip or
  while settings wait. *In `MotorMode`: the verdicts and the waiting settings; the filter is floating
  point.*
* **Telemetry** (`motor_status.c`, `can_motor_status.c`). State: EMPTY, REQUESTED, READY slot between
  foreground and tick; configuration word with its epoch; RTT snapshot. Correct: a frame is of the
  stream that was asked for, a snapshot is whole. *In `CanLink`; the RTT snapshot in `OuterLoop`.*
* **Parameter records and profiles** (`foc_param.c`, `motor_axis_profile.c`, `motor_load_profile.c`).
  State: the record of 2384 bytes in two pages, each late extension with a CRC of its own.
  Operations: `Param_Upload`, `Param_Download`. Hard: a refused record leaves made-up values in RAM,
  which a save gives a valid CRC. *Layout, admission and order of loading in `ParamStore`; values, limits
  and older schemas are not modelled.*
* **Calibration and identification** (`foc_calibration.c` and four more). State: `CalibStep`, the
  workspace in which the candidate table overlays the sample counts, cursors and stages, the counters
  of the electrical zero. Operations: the tasks of modes 5, 13 and 15, `EncoderCalibration_Reset`, the
  commit of a table. Hard: sequences of tens of thousands of ticks over statics that outlive them, which
  a STOP, a fault or another mode may end anywhere. Correct: a table put in force is whole and of one
  run, runs leave nothing to each other, each ends. *Module `Calibration`; friction, resistance and
  current offset only as outcomes of a tick in `MotorMode`.*
* **Current control and sensing**, **position control and trajectories**: floating-point computation.
  What the mode machine sees of it (a fault, an invalid profile) is a nondeterministic outcome of a
  tick. *Not modelled beyond that.*
* **Board drivers and start-up**, **host application**, **vendored code and tools**: register access,
  PC GUI (its Loader client speaks the superseded protocol v1), third-party code. *Not modelled.*

### 1.2 What is hard to test

`PROJECT.json` lists 40 hazards at their lines. They fall into six families: power cuts and HAL
errors between two flash operations, in the Loader and in the parameter record; retried, lost, late
or foreign frames on either side of the Loader; test-then-write races between the contexts of the
APP; single slots between contexts of different urgency (outer loop, reply, status, RTT snapshot,
settings); time limits that run out between a request and its answer; and long sequences of ticks over
memory that outlives them. One is covered by no property (a cell that reads back with an uncorrectable
ECC error, for which `NMI_Handler` at `stm32g4xx_it.c:152` loops for ever). Four are covered in part; their
notes say which:

* the session the 30 s rule exempts (`loader_core.c:55`): `PendingMeansCommitted` shows that it is always
  a committed one, `AbandonedDownloadEnds` that every other ends; that one lasts until a reset or a
  repeated ACTIVATE;
* a later reply taken for ACTIVATE's (`loader_can.c:237`): it may happen at the 100 ms limit. The jump is
  then still to the session's committed image, and no update is reported that is not there;
* a fault replaced by the heartbeat's write (`interface_can.c:250`): the outputs are off all the same; the
  error word has lost the fault, and no property covers that;
* a calibration left past the reset (`foc_task.c:776`): `RunsAreSeparate` leaves out the two ways that exist
  (2.10), `InstalledIsSound` does not.

## 2. Modules

```
 BootContract                    what the bytes of the record and the APP mean
    ^
 LoaderCore ---- INSTANCE ----> BootUpdate      abstract: one image or none
    ^       \__ LoaderCore_proofs               theorems
 LoaderMain                      loop, interrupt, link, resets;   refines LoaderCore!Spec
    ^
 LoaderUpdate                    client and bus \__ LoaderUpdate_proofs    theorems, LoaderMain's too

 MotorMode                       tick, CAN interrupt, supervisor, save     \__ MotorMode_proofs
    ^         ^---- INSTANCE ---- OuterLoop   mailbox, worker, epochs     \__ OuterLoop_proofs
 BootHandoff                     foreground loop, request, stop, answer, reset  \__ BootHandoff_proofs

 CanLink                         reply slot, status stream, node, bit rate    \__ CanLink_proofs
 ParamStore                      parameter record, saves and starts           \__ ParamStore_proofs
 Calibration                     tables and zero of the encoder               \__ Calibration_proofs
```

`MCLoaderCore`, `MCLoaderUpdate` and `MCParamStore` give constants their values. `MotorMode`,
`BootHandoff`, `OuterLoop`, `CanLink` and `Calibration` have only plain constants and are checked
directly from their `.cfg`.

Operators marked `Variant:` are not part of the model. Each is the definition below it with one
plausible mistake; `PROJECT.json` "mutants" pairs it with a property, which TLC finds violated when
the variant takes the definition's place. They show that each property would notice such a bug.

### 2.1 BootContract

Flash is counted in double words, the unit the part programs. `Torn` is a double word, or a half of
the record, left by an interrupted operation. An image descriptor stands for its size, CRC and
version, and a matching CRC for the contents it was computed from: CRC collisions are outside the
model. `VectorsValid` keeps the three things that differ: size, a plausible vector, an entry inside
the image.

### 2.2 LoaderCore

| state | code |
|---|---|
| `app`, `rec` | APP pages and record page |
| `core` | `LoaderCore` (state, session, image, offset, `last_seq`, `last_error`, `activate_pending`, cached request and reply) |
| `job` | the flash call of the foreground in progress, and how far it is |
| `reply` | the reply between `LoaderCore_Request` and the link |

`Request(r)` is `LoaderCore_Request` up to its reply or its first HAL call: the cache (`Replay`), then
the checks of `process` in the code's order (`Refusal`), then the handler. ERASE, PROGRAM and
ACTIVATE become jobs, whose HAL calls are `EraseRecordDone`, `EraseAppPage`, `ProgramDword`,
`CommitBody`, `CommitMark`. `Interrupted` is what a call that does not finish leaves: old, new or torn,
at any place it was changing. `FlashFails` is such a call that the HAL reports (the session goes to
ERROR_STATE); `PowerLoss` is a reset during it. `Tick` is the 30 s rule without its clock, which
`LoaderMain` adds.

`BootUpdate` is the promise: `bootable` is one image or none; it changes only while a session has a
`target`, from anything to none, then from none to the target.

### 2.3 LoaderMain

The loop of `main` cut where the interrupt can come in: `Pop`, `Work` (one HAL call), `Send`, `Rest`.
`RxInterrupt` takes one frame per interrupt, as `HAL_FDCAN_RxFifo0Callback` does, and drops it when
the ring is full. `tx` is the latest transmission, with a cancel that may come too late. `age` holds
what the code compares with `HAL_GetTick`; an age nothing waits for is kept at zero and an age stops
growing where no comparison can tell it from a larger one, which bounds the clock without changing
what the code decides. `Restart` starts from flash and the mailbox alone; `where = "halted"` is a
start-up that fails in clocks or CAN. The APP is a place to jump to: `AppWritesMailbox` and
`SoftReset` are what `BootHandoff` ends with.

### 2.4 LoaderUpdate

`Client.update` one request at a time; `HostSend` sends or retries at any moment, so a timeout may be
arbitrarily early or late; the frame may be lost on the way, at a full FIFO or ring; the answer may be
lost after it has left. `ClientRequest` is the bytes of a request, a function of the client's place
alone, so that a retry sends the same. `Hear` is the filter on opcode, sequence and session and the comparison
with the expected payload. `Observe` is a query by another tool. `disturbed` is a history variable: a
reset, a session timeout or a flash error has happened.

### 2.5 MotorMode

| state | code |
|---|---|
| `m.mode`, `m.err` | `MotorControl.ModeNow`, `ErrorNow` |
| `m.last`, `m.errLast` | `ModeLast`, `ErrorLast` |
| `m.phases` | outputs disabled, modulating, low sides shorted |
| `m.heat` | verdict of the thermal model; `late` is `pending_clock_fault` |
| `m.outer`, `m.ready` | the outer loop's mode, `MotorOuterLoop_IsReady` |
| `m.prepared`, `m.primed` | `position_start_prepared`, `EncoderObserverCalibration_IsPowerStartReady` |
| `m.locked` | `maintenance_inhibit` |
| `m.waits` | `pending_config_ready`, `pending_protection_ready` |
| `m.load` | `pending_load_profile`: asked for, or taken by the last tick |
| `can`, `tim` | where the receive interrupt and the supervisor are |
| `beat` | `can_hb_count`, `can_rx_en` |

The tick is one step, since nothing preempts it, built from its stages in the code's order: `Sense`,
`Configured` and `Handover` (settings and load profile that waited), `Profile`, `Guard`, `OuterTick`,
`Task`, `Disarm`, `Quiet`, `Energise`. The receive interrupt is `CanRx`, `CanResume`, `CanCommand`
(`ModeSwitch_Handle` reads), `CanSettings` (settings and load profile) and `CanWrite` (the mode or the
error is written); the supervisor is `TimTemperature` to `TimSilence`, of which `TimWatch` reads outputs
and clock, `TimLate` sets `pending_clock_fault` and `TimTest` reads the error word. A step of the supervisor needs `can` idle, a step of the foreground
needs both idle: this is the priority order.

Abstractions, all of data:

* modes the code treats alike are one value (`servo` for Speed and Position, `calib` for the voltage,
  resistance, offset, angle and friction modes). Sensorless speed mode counts as `current`, which
  the heartbeat watches and it does not: the model has more disconnects than the code. Two modes that
  `ModeSwitch_Handle` always refuses (18 and 4) are no commands;
* a sensor, encoder, temperature or profile may be bad in any tick; `ModeSwitch_Handle` may find
  voltage, encoder or calibration bad at any time. Faults other than disconnect and thermal are `hard`;
* `ModeSwitch_Handle` reads all it tests at one instant and writes later; arguments of
  `BootHandoff_Poll` are read at one instant; `++can_hb_count` is one step;
* `MOTOR_THERMAL_PARAMETERS_CONFIRMED` is 1, servo-HIL builds are off, and the image starts from the
  Loader (`APP_LOADER_LAYOUT`), as in the product build;
* settings that wait may fail when they are taken, which invalidates the thermal model; whether a
  configuration or the protection switch waits makes no difference to what is refused meanwhile;
* the reply slot, telemetry and the contents of the parameter record are modules of their own.

### 2.6 BootHandoff

Adds the foreground loop as a program counter `fg`, the request and its flags `boot`, the pending
write of the foreground's own `ModeSwitch_Handle` `stop`, and the latest transmission `tx`.
`BootFrame` is the CAN interrupt recording the request and the lock; from then on `Frame` is
disabled, as `CANRxIRQHandler` returns early. `AppPoll` is `BootHandoff_Poll`'s decision, `AppStop`,
`AppWrite`, `AppReply` carry it out; `SendCheck` and `SendOther` are `CAN_SendMessage` cut between its
last test for a pending request and its transmission; `Save` is the foreground's save. Milliseconds
pass only while a request is pending, and ages stop at `Limit + 1`, which the code cannot tell from
a larger one.

### 2.7 OuterLoop

| state | code |
|---|---|
| `motor` | `ModeNow`, `ErrorNow`, `ModeLast`, `ErrorLast`, `position_start_prepared` |
| `outer` | `outer`: status, the three epochs, divider, age, mode, kind of the request, ready, valid |
| `outer.session`, `asked`, `begun` | history: true resets so far; their count when the question was put, and when the controller's memory was last cleared |
| `outer.missed` | history: an overrun was raised |
| `rtt` | `rtt_snapshot_ready`; whether a snapshot was torn (history) |
| `pend`, `worker` | PendSV pending; where `PendSV_Handler` is |
| `can` | where `ModeSwitch_Handle` is, and the epoch `epoch++` has read |

The tick is one step. `MotorOuterLoop_RequestReset` from the CAN interrupt is three (`Load`, `Store`,
`Unready`), since the tick may come between the read and the write of `epoch++`. Worker and receive
interrupt have the same priority (`motor_outer_stm32g4.c:8`, `fdcan.c:104`), so neither preempts the other; when both are pending PendSV goes
first, having the lower exception number (`Frame` waits for it). The first thing of a tick that
matters here is `MotorOuterLoop_FastTick`; what comes before it can only raise a fault (`TickAny`), or
change words the mailbox does not look at. Of the modes the module has the servo ones, `disable`
and `clear`. The others (current, calibrations, save, ...) are left out: to the mailbox they are what
`disable` is, and ModeSwitch leads from them to a servo mode only through it; `MotorMode` has them all. `outer.age`
is compared only with the period, so it stops there. `TickAsMotorMode` ties this module to `MotorMode`:
every tick of the mailbox in these modes is one of `MotorMode`'s nondeterministic ticks, so `MotorMode`'s results
hold of the composition.

### 2.8 CanLink

| state | code |
|---|---|
| `bus` | FDCAN1: RX FIFO 0, RF0N flag, node filter element, bit rate in force |
| `can` | `CANMsg.node_id`, `CANMsg.baudrate` |
| `slot` | `can_reply`; `head` is the request its identifier is of, `body` the one its data are of |
| `config` | `configuration` of `can_motor_status.c`: epoch and enabled |
| `mail` | `state` and `published` of `motor_status.c`; the epoch the sample was taken under |
| `fg` | where `CAN_SendMessage` is, what it has copied; `observed_configuration`, `due` |
| `tim` | where `CAN_BaudRateSwitching` is, `baudrate_last` |
| `tx` | the frame in the (otherwise empty) transmit queue |
| `asked`, `given` | history: requests that got the slot, replies handed to the peripheral |

Interrupt and tick are single steps; foreground and supervisor are cut at each read or write of a
shared word. The supervisor may be cut by the foreground here, which the code's priorities exclude:
more interleavings, the same properties. `crc` stands for both queries answered in the foreground
(CRC and UID). `elapsed` in `PrepareSample` is the stream's period having passed, at any time. The
peripheral's behaviour comes from the HAL in the repository: `HAL_FDCAN_IRQHandler` clears RF0N before
the callback, `HAL_FDCAN_Init` zeroes the message RAM.

### 2.9 ParamStore

The record is a sequence of sections in the order of their addresses (`Layout`): page 56 (`ids`), the
gains, the double word with schema and magic, the unguarded extensions, the axis and load profiles
and the CRC'd tail records. A section is blank, torn or whole; whole ones carry a value and the
number of the save they were written by. `SaveErase`, `SaveBegin`, `SaveFinish`, `SaveVerify` are
`parameter_storage_hw_write`; `Boot` may come at any moment and is `Param_Download` on what is there.
`worn` is history: a double word took another value than it was given, which the verification finds
but nothing repairs, so a record that failed verification may be admitted at the next start. Page
erase and double word are atomic; a section torn inside the magic word does not exist, since it
is one double word. A record whose magic word is there and whose extensions were never begun lacks the
shunt, their first double word: `Rescaled` is what the code then makes of the currents among the gains.
Records of older schemas are left out.

### 2.10 Calibration

| state | code |
|---|---|
| `s.mode`, `s.last`, `s.err`, `s.on` | `ModeNow`, `ModeLast`, `ErrorNow`, outputs |
| `s.step`, `s.held` | `CalibStep`, ownership of the workspace |
| `s.sum`, `s.shared` | the workspace: error sums and means; sample counts or, in the same store, the candidate |
| `s.index`, `s.stage`, `s.ticks`, `s.verified` | cursor and pass of `Encoder_Calib_BuildLut`'s incremental form, stage time, verification passed |
| `s.n`, `s.samples` | loop count of the electrical zero; with which table its samples were taken |
| `enc` | the table in force and how it came about; `calib_flag`'s zero and the table it was measured with |
| `can` | the mode the receive interrupt is about to write |
| `slipped` | history: a calibration was left without a reset |

A cell holds what it means, not a number: cleared, a sum, a mean, too few or enough samples, an entry
of the candidate, or `bad`, which is what an earlier run left and whatever is computed from it. That is
all `InstalledIsSound` needs, and what a unit test could hardly tell, since a wrong cell is a plausible
number. `OffsetTask`, `ObserverTask` and `ZeroTask` are the three tasks, step by step; every stage may go
on, be done, run out of time or refuse, as the sensors and the observer please. `Quiet` and `Energise`
are the end of `FOC20kHzIRQHandler`'s work: the reset, and the power that goes on one tick after a stop
(two for the observer calibration, which prepares first). `CanCheck` and `CanWrite` are
`ModeSwitch_Handle` cut before its write, `Save` the foreground's save. `MotorMode` has the
fault machine around this in full; here a fault is a fault.

`RunsAreSeparate` is stated for calibrations that did not slip past the reset, because two ways past it
exist in the code, and `slipped` records them:

* STOP and the next START both come between two ticks, so that no tick sees the motor stopped
  (`parameter_persistence.c:123` reckons with STOP and SAVE between two ticks);
* a fault ends a calibration in the tick that begins it, before `ModeLast` or the outputs tell of it:
  the step stays, and the next mode-13 start, which does not know it, ends with `Encoder_Error`.

What slips is bounded: `InstalledIsSound` holds without that restriction. The next calibration is refused
or starts over; only an electrical zero may carry samples across a change of table.

## 3. Runs

Distinct states are those TLC reports.

| run | module, cfg | question | states |
|---|---|---|---|
| `core` | MCLoaderCore | does the session keep flash, record and cache consistent under any requests, errors and power cuts, and implement `BootUpdate`? | 253 125 |
| `update` | MCLoaderUpdate | is what the client believes true in the part, over a lossy bus with resets, and does the loop drive the core only through the core's own steps? | 235 613 |
| `live` | MCLoaderUpdate_live | does an abandoned download end, does a valid image boot? | 33 032 |
| `motor` | MCMotorMode | can any interleaving of the four contexts leave the outputs on when they must be off? | 1 994 409 |
| `boot` | MCBootHandoff | does the firmware reset, and tell the host so, only with the motor at rest; does the locked motor stop, is the host answered, does a save end? | 70 377 |
| `boot_damping` | MCBootHandoff_damping | documented: a BOOT request stops the motor (**violated**) | 26 569 |
| `outer` | MCOuterLoop | are answers, overruns and starts of the outer loop what they claim to be, and is its tick one of `MotorMode`'s? | 199 124 |
| `canlink` | MCCanLink | is every request that got the slot answered once and truly, every status frame of its stream, the slot given back? | 162 668 |
| `canlink_fifo` | MCCanLink_fifo | documented: a new frame is handled after the running interrupt (**violated**) | 800 |
| `canlink_deaf` | MCCanLink_deaf | documented: filter and node number agree (**violated**) | 665 |
| `calib` | MCCalibration | can a calibration install, or leave to another, what is not of its own run, and does each end? | 356 014 |
| `store` | MCParamStore | what does a start make of a save cut anywhere? | 851 252 |

States of the violated runs are those seen until the counterexample, and vary with the search.

### 3.1 Bounds and why they are enough

* `core`: three double words in two pages, chunks of up to two. This is the least with a page of more
  than one double word, a chunk that would cross a page (refused), a last partial chunk, and a
  record over several pages. Four images: two legal ones of different length (one with an all-ones
  double word inside, which the port skips), one with a bad vector table, one too long. Sequence numbers
  0 to 6; the owner may send each mutation under two or three numbers, in any order; a second client
  may open and abort. The part starts blank, with an image, or with the wreck of a cut erase, over a
  blank record or one that vouches for what is there.
* `update`: an image of two double words in two pages over an older one, two sends per request, ring
  of two (one usable slot), FIFO of two, all limits 1 ms. One retry already brings copies behind the
  current request; the FIFO of two gives the frame that is handled one interrupt late; a limit of 1
  separates "not yet", "at the limit" and "past it". The client's session number is fixed: sessions
  of other clients are in `core`.
* `MaxForeign` bounds the queries of the other tool to one: a second one meets the same ring and FIFO.
* `live` as `update` without an observer and without resets (see fairness).
* `motor`: every mode command, a thermal setting, a load profile, a query, and a heartbeat limit of 1,
  which has all three relations of
  count and limit. `MotorMode` has no other bound: everything else is finite in the code.
* `boot`, `boot_damping`: limits of 0, no heartbeat, one command each (a calibration, which drives, is
  ended by STOP and may end in a save by itself; Damping_Mode), to keep the behaviour graph of the
  liveness properties small. A limit of 0 makes the time run out at any moment after the first
  millisecond. The three invariants are proved for every limit and set of commands (4.3).

* `outer`: a period of 2 ticks, the least in which a question may stand for a tick and be in time (the
  code has 10); three commands, which is start, stop and start again, the shortest history in which a
  question outlives its session. Epochs are not bounded but by the commands; that they are u32 and wrap
  after 2^32 resets is left out.
* `canlink`: three frames of every kind the slot, the stream, the filter and the bit rate tell apart,
  two nodes, two rates, a FIFO of two. Three frames are a request in the slot, one that meets it
  taken, and a command between; a fourth repeats these.
* `canlink_fifo`, `canlink_deaf`: the kinds and frames the question needs, with the part's FIFO of three.
* `calib`: two bins, the least for which a candidate entry overlays one count while another is still
  needed, and for which a table is cleared half way; time limits of one tick, a ramp and a hold of one
  tick each, which separates "first", "under way" and "last". Every mode, command and step is in.
* `store`: two of the five tail records (the code loads each the same way and stops at the first that
  is refused, for which two are enough), one value of a page-56 section and one of a guarded section
  set by the host, two saves: one to leave a wreck, one over it.

The `live` run has `CHECK_DEADLOCK FALSE`: without resets the part ends in the APP, where nothing more
is modelled.

### 3.2 Properties

* **RecordVouches** - a record that decodes vouches for the image in flash, after any cut or error.
* **PendingMeansCommitted** - `activate_pending` implies the record of this session's image.
* **TailBlank** - while receiving, all past the offset is blank.
* **ReplayTruthful** - what the cache would repeat is still true.
* **SessionMonotone** - offset and sequence only grow, each accepted mutation takes a new number.
* **ImplementsBootUpdate**, **ImplementsCore** - the refinements.
* **AcknowledgedIsInstalled**, **ClientNeverAhead**, **RetriesAreTransparent** - client and part agree, whatever the bus does.
* **LeavesCommitted** - the jump with a session open is to that session's image; without one, the
  Loader was not asked to stay.
* **AbandonedDownloadEnds**, **ValidImageBoots** - liveness of the Loader.
* **PoweredIsHealthy** - outputs on only if the last tick ended without a fault, in a driving mode.
* **SaveIsQuiet** - an acknowledged save finds the outputs off.
* **TrippedIsOff** - after a thermal trip or a lost thermal clock nothing drives the motor (the
  current-offset calibration, which `power_mode` exempts, may have its outputs on).
* **SettledBeforeDriven** - nothing is driven while thermal settings wait, a load profile is taken with
  the outputs off.
* **ServoStartsReady** - a servo mode gets power only once prepared and answered by its outer loop.
* **ResetOnlyWhenSafe**, **OkMeansStopped**, **AnswerIsLast** - the handover.
* **LockedMotorStops**, **HostIsAnswered**, **SaveEnds** - liveness of the APP.
* **AnswerOfItsSession** - an answer the tick will apply was asked for since the last reset, in this
  mode, and computed by a controller begun in this session: the epochs, which the CAN interrupt may set
  back, still tell old from new.
* **OverrunIsReal** - `ControlOverrun_Error` is raised only on a question that had a whole period.
* **StartEnds** - a servo start gets its outputs or is ended.
* **FrameIsWhole** - the tick never writes the RTT snapshot the worker encodes.
* **TickAsMotorMode** - each tick with the real mailbox is one of `MotorMode`'s.
* **AnsweredOnce** - replies and requests that got the slot correspond one to one, identifier and data.
* **StatusIsFresh** - a status frame about to be sent was sampled under its own configuration.
* **SlotFrees** - the slot is given back, also when the queue is busy.
* **AdmittedIsWhole** - what a start takes has node, calibration and gains whole and nothing of another
  save (unless a double word is worn).
* **ReportedIsStored** - a save reported written or unchanged is in flash until the next one.
* **RefusedStaysRefused** - a save that went well does not make a refused load or axis profile
  acceptable.
* **InstalledIsSound** - a table in force is whole, of one run, and from the observer verified and
  installed with the outputs off.
* **RunsAreSeparate** - unless one slipped past the reset, nothing of a calibration is under way at rest,
  and the zero in force was measured with the table in force.
* **CalibrationEnds** - modes 13 and 15 end by themselves, whatever encoder and observer report.
* `UpdateTypeOK`, the type invariant of `LoaderUpdate`. Those of the other modules (`TypeOK` of
  `LoaderCore` and of `Calibration_proofs`, `MotorTypeOK`, `BootTypeOK`, `OuterTypeOK`, `StoreTypeOK`,
  `CanTypeOK`) are proved and not run.

### 3.3 Fairness

`FairUpdate`: weak fairness of the loop, of the receive interrupt and of the clock, without resets.
The loop has no blocking call, the interrupt is served as long as its flag is set, the tick timer
runs; with resets for ever nothing could be promised. The bus and the client are under no fairness:
frames may never leave and the client may vanish, which is what `AbandonedDownloadEnds` is about.

`FairBoot`: weak fairness of the millisecond, of the CAN interrupt (it is preempted only by the
tick, which ends) and of transmission (a working bus: `HostIsAnswered` is not promised on a dead
one); strong fairness of the supervisor and of the loop, which are shut out whenever a higher
interrupt runs but get the processor again and again. The tick has weak fairness through `DueTick`:
a tick that is bound to change something. `Settled` is a state that a tick may leave as it is. Fairness
of `Tick` itself would say too much: in a settled state the only tick that is not a stutter is one
that senses a fault, so it would force a fault to happen.

`FairOuter`: weak fairness of the tick (it is a timer's; the one without a new fault, for the reason
above), of the worker, and of the receive interrupt once it has begun. Frames and faults are under no
fairness. `StartEnds` needs nothing more: the worker is shut out by no context but the tick and a
receive interrupt that ends.

`FairCan`: weak fairness of transmission (a working bus), of the receive interrupt while its flag is
set, of the tick's answer to a request, of the foreground and of the supervisor. The host is under
none. `FramesHandled` is checked under the same fairness, so its counterexample is not an interrupt
that is never served.

`FairSpec` of `Calibration`: weak fairness of the tick, which a timer drives. A tick here always does
something while a calibration is on, and which of its outcomes it has is left open, so nothing is
forced but that time passes.

### 3.4 Where code and documents disagree

Each is checked by one run expected to be violated; the quoted texts are in `PROJECT.json`
"findings".

1. `boot_damping`: STOP is not accepted in Damping_Mode, so a BOOT request there never stops the motor.
2. `canlink_fifo`: the receive interrupt reads one frame and its flag was cleared for all; the second of
   two frames that came before it waits for a third.
3. `canlink_deaf`: a change of bit rate re-initialises the peripheral, whose message RAM is zeroed with
   the node filter in it; nothing sets the filter again, and the node hears nothing until a reset.

No run is spent on a fourth: the design of the Loader
(`src/docs/plans/2026-10-13-can-loader-minimal-design-v1.md:124`) ends every session after 30 s without
activity, the code (`loader_core.c:55`) all but one that waits for its ACTIVATE reply to leave.

## 4. Proofs

Eight modules of proofs, checked with SMT, Zenon and LS4. All theorems hold for every value of the
constants that the named assumptions allow.

### 4.1 LoaderCore_proofs

For every page layout, image set,
request set, number of sessions and flash contents:

| theorem | statement |
|---|---|
| `Invariance` | `Spec => []IInv` |
| `TypeCorrect` | `Spec => []TypeOK` |
| `RecordAlwaysVouches` | `Spec => []RecordVouches` |
| `PendingAlwaysCommitted` | `Spec => []PendingMeansCommitted` |
| `NeverTwice` | `Spec => SessionMonotone` |
| `Refinement` | `Spec => ImplementsBootUpdate` |
| `TailStaysBlank` | `Spec => []TailBlank` |
| `ReplaysAreTruthful` | `Spec => []ReplayTruthful` |

Assumptions, declared beside the constants and evaluated by TLC in every Loader run: the area has at
least one double word (`CapacityAssumption`); each double word has a page (`PageAssumption`); the blank
double word is a value and a torn one is not, the commit mark is neither (`CellAssumption`); images
have a size and contents of that length (`ImageAssumption`); requests are well-formed
(`RequestAssumption`). Nothing is assumed of images being legal, of who sends what, or of the
initial flash beyond the record vouching for it if it decodes.

Argument. `RecordVouches` is not inductive: a program or an erase over a record that decodes, or a
mark written over a wrong image, would break it, and only the state the core is in excludes them.
`IInv` adds `SessionImage` (the image a session works on was found legal by BEGIN), `StateInv` (while
receiving the record is blank; once verified the image is in flash) and `JobInv` (each job runs in the
state it was started in: the record is gone before the first APP page is, the mark is written last,
over the body of this session's image). `PendingMeansCommitted` is part of it since ACTIVATE asked
again in the same session meets a record that is not blank and must fail without touching it. There
is one lemma per handler and per HAL call, one for what an interrupted call leaves, and one for each
way a handler ends (`AcceptStep`, `RejectStep`, `FailStep`). The refinement maps `bootable` to the
record's image if it is valid and `target` to the session's image; each action is `Open`, `Proceed`
or a stutter.

The last two rest on a second invariant, `ContentInv`, proved over `IInv`: it adds to the two
properties that the last accepted mutation fits the session's state (`CacheFits`: a cached chunk lies
below the offset, so no later program of the session touches it) and that what a job has erased or
programmed so far is in flash (`JobFits`). Both parts are needed because a chunk is acknowledged only
when its last double word is in, several HAL calls after the job began.

### 4.2 MotorMode_proofs

For every set of commands and heartbeat limit (`CommandAssumption`): `MotorInvariance`
(`MotorSpec => []MotorInv`), `MotorTypeCorrect`, `OutputsAreHealthy`, `SavesAreQuiet`,
`TripsSwitchOff`, `SettlesFirst`, `ServoStartsWhenReady`, one for each property of the `motor` run
and one for its types.

`MotorInv` is type correctness and `Safe`, which relates only fields the tick writes: outputs, `last`,
`errLast`, the thermal verdict, what waited and what was taken. That is why it survives the other
contexts: they write `mode`, `err`, `waits` and `load`, and none of these makes `Safe` false, because
`waits` is set only with the outputs off and the motor at rest. The tick restores it from any mode and
error: one lemma per stage says what the stage may change, and the tick's lemma composes them.
`SaveIsQuiet` follows from `Safe` since the tick leaves `last = "save"` only with the outputs off.

### 4.3 BootHandoff_proofs

For every limit, over any commands and heartbeat (`LimitAssumption`, `CommandAssumption`):
`BootInvariance` (`BootSpec => []BootInv`), `BootTypeCorrect`, `ResetsOnlyWhenSafe`, `OkIsKept`,
`AnswersAreLast`. It extends `MotorMode_proofs`, and uses its lemmas for every step of the motor.

`BootInv` adds three parts to `MotorInv`. `LockInv`: the maintenance lock is on exactly while a request
is pending, and no CAN command is under way then. `DecisionInv`: what the foreground is about to do was
decided on facts that still hold, in particular the motor is still at rest when the OK is queued.
`AnswerInv`: the latest transmission is the answer once one is queued, and an OK means a motor at rest.
The crux is `AtRest`: with the lock on, no context but the tick and the supervisor writes the mode, and
both only ever stop a motor that is off.

### 4.4 OuterLoop_proofs

For every period and any number of commands (`OuterAssumption`): `OuterInvariance`
(`OuterSpec => []OuterInv`), `OuterTypeCorrect`, `AnswersOfTheirSession`, `OverrunsAreReal`,
`FramesAreWhole`, `TicksAsMotorMode`.

`MailInv` says what epochs are worth: the request's and the worker's are at most the present one, and
equality means the present session. A store that takes the epoch back would break it; `TurnInv` excludes
that, since the CAN interrupt resets only a mailbox without a standing question (a servo mode starts
from rest) and what it has read is no less than any epoch given out. `Served` says that a queued
question always has a worker coming, `Due` that the age of a question a running mode waits for is the
divider, which makes an overrun mean a whole period. Each stage of the tick has its lemma
(`NoticeStage` to `EndStage`), and each context one lemma that its steps keep the invariant.

`TicksAsMotorMode` is a simulation, stage by stage. `View` is the record `MotorMode` has of a motor and a
mailbox. `SensedView` shows that the stages before the outer loop can leave it alone, `OuterView` that
what `Notice`, `Inputs`, `Collect` and `Release` do to error word and answer (`FastView`) is one of
`OuterTick`'s outcomes, `WorkView` the same of the mode's work, and `EndView` that stopping and starting
agree as functions, although they switch the outputs at different points of the tick. The invariant is
needed once: a question put before a change of mode is not of the new epoch, so it cannot make the new
mode ready.

### 4.5 ParamStore_proofs

For any records at the end of the layout, any host and any number of saves (`StoreAssumption`):
`StoreInvariance` (`StoreSpec => []StoreInv`), `StoreTypes`, `AdmittedRecordIsWhole`,
`ReportedSaveIsStored`, `RefusedProfileStaysRefused`.

`AdmittedIsWhole` alone is not kept by an erase or a program; the order of the writes makes it so, and
`InOrder` says it: the second page is erased only when the reverse byte is gone with the first; while
programming, everything whole is of this save; the magic word is not there before the gains are, and
unless a double word took a wrong value they are whole by then. For the two other properties `StoreInv`
adds that no result is reported while a save runs and `KeepsVerdict`: from the snapshot until the next
command, a refused profile is in the snapshot as one that will be refused.

### 4.6 CanLink_proofs

For any nodes, bit rates, number of frames and depth of the FIFO (`CanAssumption`): `LinkInvariance`
(`CanSpec => []LinkInv`), `LinkTypes`, `RequestsAnsweredOnce`, `StatusFramesAreFresh`.

`AnsweredOnce` needs `FifoInv` (frames in the FIFO are in the order sent and behind every request that
got the slot, so no request is taken twice) and `SlotInv` (the slot is not filled again from the copy of
its identifier to its release, so what was copied is still in it). `StatusIsFresh` needs `MailInv`: an
observation in the mailbox was made under an epoch between the one the foreground has seen and the
present one, so a sample taken under an epoch that did not change since is of that epoch.

### 4.7 Calibration_proofs

For any number of bins, any time limits and any length of ramp and hold (`CalibrationAssumption`):
`CalibInvariance` (`Spec => []CalibInv`), `CalibTypeCorrect`, `InstalledTablesAreSound`,
`CalibrationsAreSeparate`.

`CalibInv` says what each step knows of each cell. While "origin" clears, the cells below the cursor are
clear; while samples come in, each cell is clear or a sum with its count (`Gathered`). The passes of
"build" are the heart (`CellsBuilt`): counts are enough up to the cursor, then sums are means up to it,
then all are means, and only then does the candidate replace counts, since no mean is computed from one
any more. From "verify" on the table is whole. That a commit finds the outputs off is not
local either: they go on only in the tick after a stop, and such a tick has reset the steps. So every step
past the first belongs to a calibration that `ModeLast` has on record, but for the one that begins in
this very tick (`Fair`, between the task and the end of the tick).

`CalibrationsAreSeparate` is proved over it with `SepInv`: unless one slipped, a step under way or a
sample of the zero belongs to the mode that `ModeLast` has on record, and the mode has been taken away
from it only by a stop or a clear, which the next tick sees. One lemma (`SettleWithin`) shows the
alternative at the end of a tick: the reset, a mode on record, or a slip.

### 4.8 LoaderUpdate_proofs

For every ring, FIFO, time limit, number of sends and of foreign queries, layout and set of images:

| theorem | statement |
|---|---|
| `MainImplementsCore` | `MainSpec => ImplementsCore` |
| `MainInvariance` | `MainSpec => [](IInv /\ LinkInv)` |
| `LeavesOnlyCommitted` | `MainSpec => LeavesCommitted` |
| `UpdateImplementsMain` | `UpdateSpec => MainSpec` |
| `UpdateInvariance` | `UpdateSpec => []UpdateInv` |
| `UpdateTypeCorrect` | `UpdateSpec => []UpdateTypeOK` |
| `AcknowledgedUpdateIsInstalled` | `UpdateSpec => []AcknowledgedIsInstalled` |
| `ClientStaysBehind` | `UpdateSpec => []ClientNeverAhead` |
| `RetriesStayTransparent` | `UpdateSpec => []RetriesAreTransparent` |

*The chain.* An update is a run of the main loop (`UpdateImplementsMain`), a run of the main loop is a run
of the core (`MainImplementsCore`), and the core implements `BootUpdate` (4.1). So what 4.1 says of the
core under any host holds of the Loader with its interrupt, link, clock and resets, and what is proved
of the loop holds of an update. The crux of `MainImplementsCore` is `LinkInv`: a request is taken to the
core only with no job, no reply and no request outstanding, and a transmit buffer holds a reply exactly
while it is outstanding, so the core's `Request` finds the state in which it is enabled.

*The update.* None of the three promises is inductive, since what the client is told depends on copies of its
requests and on answers that are still on their way. `UpdateInv` adds to the invariants of core
(`IInv`, `ContentInv`), loop (`LinkInv`) and client (`HostInv`):

* `OrderInv` - the link does not reorder: of two mutations on their way, or one on its way and one
  being executed or remembered, the second is a copy of the first or a later one. This is where the
  client's stop-and-wait is used;
* `SessionInv` - a session is the client's and over its image, and the cache holds its last mutation,
  answered OK;
* `AnswerInv` - every answer the part still holds is `Truth`: if it arrives only now, it is about nothing
  the client has yet to ask, a PROGRAM's value is not past the core's offset, and an ACTIVATE's OK
  means `Committed`: the record is the image's, nothing runs, and no mutation but copies of ACTIVATE is on
  its way. That last clause makes "installed" last for good: what could take the image out again would
  have to be a mutation still on its way;
* `DownloadInv` - the core's offset is at least the client's, and all below it is the image's;
* `CalmInv` - as long as nothing disturbed the part, everything about is either the mutation last accepted
  or the one after it (`InStep`, `Succeeds`), and the session is where that mutation left it
  (`Settled`); before the first, nothing but BEGIN is about (`Untouched`). This is what makes a retry
  transparent: a copy is answered from the cache, the next mutation is never refused (`CalmAccepts`), and
  the answer the client hears is the one it expects (`CalmAnswer`).

There is one lemma for each thing a step may leave standing of the invariant (a request is accepted,
refused, failed, begun, carried on; the client moves on; RAM is lost) and then one per action.

Assumptions, evaluated by TLC in the runs of `LoaderUpdate`:

* `HostAssumption` - at least one send; a chunk is not empty; the images are legal ones that leave room in
  the sequence numbers (`Size + 6 <= MaxSeq`: at most 48 pages of 256 double words against a u16). Other
  tools only query, and never with operation and number of one of the client's two queries
  (`ClientQueries`). The code has this case and the model leaves it out: `Client.query` takes such an answer
  for its own, finds another nonce in it and gives up (`loader_updater.py:126`) before it has changed
  anything, so it bears on `RetriesAreTransparent` alone;
* `ClientAssumption` - `Requests`, the parameter of the core, contains what this client may send;
* `CacheAssumption` (`LoaderCore`) - the empty cache is told from any entry, as `valid` does.

The largest chunk at an offset is a CHOOSE; that there is one is proved by a least counterexample
(`LeastNatural`, from the library's well-foundedness of the order of the naturals), which needs no
induction over an operator.

### 4.9 What is only model-checked

The eight liveness properties: `AbandonedDownloadEnds`, `ValidImageBoots`, `LockedMotorStops`,
`HostIsAnswered`, `SaveEnds`, `StartEnds`, `SlotFrees` and `CalibrationEnds`. Fairness and ENABLED are beyond
the prover. Every other property of a passing run is a theorem. No module declares a RECURSIVE
operator, so all can be proved about. That an operator marked `Variant:` breaks its property is TLC's to
show.

## 5. Not modelled

* Bytes on the wire, CRC arithmetic, parameter codes and scaling.
* Floating-point control, observers, filters and trajectories beyond their outcome. They
  are most of the firmware's own lines; TLC and TLAPS have no floating point, and a discretised
  controller would say nothing about this one.
* Of the calibrations: the mechanical zero; `Task_Calib_CurrentOffset`, whose sums a STOP leaves to the
  next run; friction and resistance identification beyond their outcome; the R, L and flux
  identification, which `ModeSwitch_Handle` always refuses. Mode 5 is not in `CalibrationEnds`: while
  the rotor stays in range its sampling has no time limit. `Default_Param` falls through into
  `Clear_Error` (`foc_task.c:751`), so the save of the defaults it asks for is not made; nothing in
  the repository says otherwise, so no property does.
* Register access and the vendored HAL, CMSIS and RTT sources, which are over nine tenths of the lines
  of the repository. What the models need of them (FIFO, flags, filter, message RAM, transmit queue,
  flash) is modelled from their use, at the lines of the code that uses them.
* PC applications other than the update client; the factory programmer; the superseded Loader v1.
* Images without the Loader layout: their start-up migration rewrites the record once.
* Page erase and double-word programming cut in the middle of the cell: a page is erased or not, a
  double word written or not (the Loader's are `Torn` for what reads back as garbage). Cells that read
  back with an uncorrectable ECC error end in `NMI_Handler`, which loops.
* BOOT requests in `CanLink`: `BootHandoff` has them against the foreground's transmission.
* Watchdog resets are `HardReset`. Sequence-number exhaustion (65535 accepted requests in one session)
  appears as requests with numbers up to `MaxSeq`, after which every mutation is refused as in the code.

## 6. Plan

1. The calibrations' ticks as steps of `MotorMode`'s, as `TickAsMotorMode` does for the mailbox; the step
   sequences of friction and resistance identification over the same reset.
2. The parts of the liveness properties that are safety: that what each waits for stays possible, and the
   measures that fall with each step of a save, a handover, a start and a calibration.
3. The image's path from `loader_factory.py` to the record, and the client's reset command, if the
   factory flow becomes part of the product.
