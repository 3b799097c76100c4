------------------------------ MODULE MotorMode ------------------------------
(***************************************************************************)
(* The mode and fault machine of the motor firmware, which four interrupt  *)
(* levels share without a lock:                                            *)
(*   the 20 kHz tick (FOC20kHzIRQHandler), which preempts everything;      *)
(*   CAN reception (CANRxIRQHandler), preempted by the tick only;          *)
(*   the 1 kHz supervisor (TIM7), preempted by both;                       *)
(*   the foreground, here only the parameter save, which masks interrupts. *)
(* A tick is one step.  The other contexts are cut between a read of the   *)
(* shared words and the write that depends on it.                          *)
(*                                                                         *)
(* An operator marked "Variant" is the definition below it with one        *)
(* mistake, which a property must notice.                                  *)
(***************************************************************************)
EXTENDS Naturals

CONSTANTS
    Commands,       \* what SET_MODE and the set-points ask for, "configure" (the
                    \* thermal settings), "profile" (the load), or "query"
    HeartbeatMs     \* can_hb_set; 0 switches the heartbeat off

(* Modes the machine treats alike are one value: servo is Speed_Mode and   *)
(* Position_Mode, calib the voltage, resistance, offset, electrical-angle  *)
(* and friction modes, observer is Calib_EncoderObserver, offset is        *)
(* Calib_CurrentOffset.  Sensorless_Speed_Mode is like current, but the    *)
(* heartbeat does not watch it.                                            *)
Modes == {"disable", "current", "servo", "calib", "observer", "offset",
          "damping", "zero", "save", "default", "clear"}
Errors == {"none", "can", "thermal", "hard"}
Heats  == {"cool", "derating", "latched", "late", "invalid"}

ASSUME CommandAssumption ==
    /\ Commands \subseteq Modes \cup {"anticogging", "configure", "profile", "query"}
    /\ HeartbeatMs \in Nat

VARIABLES
    m,          \* MotorControl, ModeLast and ErrorLast, the phase outputs,
                \* the thermal verdict and what the fast loop remembers
    can,        \* the receive interrupt: where it is, what it is to write
    tim,        \* the 1 kHz supervisor: where it is
    beat        \* can_hb_count and can_rx_en

motorVars == <<m, can, tim, beat>>

PowerModes      == {"current", "servo", "calib", "observer", "damping"}
AbortOnDerating == {"calib", "observer", "damping"}
Stoppable       == {"current", "servo", "calib", "observer", "offset"}
Watched         == {"current", "servo"}
Unpowered       == {"disable", "zero", "save"}

Nothing    == [kind |-> "nothing"]
Mode(v)    == [kind |-> "mode", mode |-> v]
Fault(e)   == [kind |-> "err", err |-> e]
Writes     == {Nothing} \cup [kind : {"mode"}, mode : Modes] \cup [kind : {"err"}, err : Errors]

NoFrame == [pc |-> "idle", cmd |-> "query", write |-> Nothing]

(* The board as Board_Init leaves it for an image that the Loader starts:  *)
(* stopped, outputs off, and unfit to run if the stored profile is bad.    *)
MotorInit ==
    /\ m \in [mode : {"disable"}, err : {"none", "hard"}, last : {"disable"},
              errLast : {"none"}, phases : {"off"}, heat : {"cool"},
              outer : {"disable"}, ready : {FALSE}, prepared : {FALSE},
              primed : {FALSE}, locked : {FALSE}, waits : {FALSE}, load : {"none"}]
    /\ can = NoFrame
    /\ tim = "idle"
    /\ beat = [count |-> 0, rx |-> FALSE]

-----------------------------------------------------------------------------
(* What the thermal model lets run.                                        *)

\* MotorThermalControl_CanRunMode; no mode but these is below MODE_NUM.
CanRun(x, mode) ==
    /\ mode \in Modes
    /\ mode \in PowerModes =>
         /\ ~x.waits
         /\ x.heat \in {"cool", "derating"}
         /\ x.heat = "derating" => mode \notin AbortOnDerating

(* The answers of MotorThermalControl_CanClearFault: whether the winding   *)
(* has cooled down is an input.                                            *)
CanClear(x) == IF x.waits \/ x.heat \in {"late", "invalid"} THEN {FALSE} ELSE BOOLEAN

-----------------------------------------------------------------------------
(* The 20 kHz tick: each stage maps the record to what it may become.      *)

(* A late clock or a bad sample invalidates the thermal model for good;    *)
(* a latched trip stays, unless the protection is switched while off.      *)
Heating(x) ==
    IF x.heat \in {"late", "invalid"} THEN {"invalid"}
    ELSE IF x.heat = "latched" /\ x.phases # "off" THEN {"latched", "invalid"}
    ELSE Heats \ {"late"}

\* Waiting thermal settings take effect with the outputs off only, or fail.
Configured(x) == [x EXCEPT !.waits = @ /\ x.phases # "off"]

\* Variant: a load profile once accepted is taken whatever came after it.
HandoverBlind(x) ==
    IF x.load = "asked" THEN [x EXCEPT !.load = "taken", !.ready = FALSE]
    ELSE [x EXCEPT !.load = "none"]

(* A load profile is taken, and the runtime reset, only if the motor is    *)
(* still at rest; a start that came between drops it.                      *)
Handover(x) ==
    IF x.load = "asked" /\ x.mode = "disable" /\ x.last = "disable"
                       /\ x.err = "none" /\ x.phases = "off"
    THEN [x EXCEPT !.load = "taken", !.ready = FALSE]
    ELSE [x EXCEPT !.load = "none"]

(* Current, bus voltage and encoder raise faults over whatever is there.   *)
(* The encoder's comes after the handover, but only in modes whose profile *)
(* the handover drops in any case.                                         *)
Sense(x) ==
    UNION {{[x EXCEPT !.err = e, !.heat = h] : h \in Heating(x)} : e \in {x.err, "hard"}}

\* No mode but these three runs on an unconfirmed profile.
Profile(x) ==
    IF x.mode \in {"disable", "save", "clear"} THEN {x}
    ELSE {x, [x EXCEPT !.mode = "disable", !.err = "hard"]}

Trip(x) ==
    [x EXCEPT !.mode = "disable",
              !.err  = IF @ = "none" THEN "thermal" ELSE @,
              !.heat = IF @ = "derating" /\ x.mode \in AbortOnDerating
                       THEN "latched" ELSE @]

\* Variant: only commands are checked against the thermal model.
GuardNot(x) == {x}

\* Task_ApplyThermalGuard; a voltage mode may also exceed the current boundary.
Guard(x) ==
    IF ~CanRun(x, x.mode) THEN {Trip(x)}
    ELSE IF x.mode = "calib" THEN {x, Trip(x)} ELSE {x}

(* MotorOuterLoop_FastTick: a change of mode, which may be one servo mode  *)
(* for the other, starts over; then the inputs may be bad, a result may be *)
(* there, be bad, or be overdue.  OuterLoop has the mailbox itself.        *)
OuterTick(x) ==
    LET y    == IF x.mode = x.outer THEN x
                ELSE [x EXCEPT !.outer = x.mode, !.ready = FALSE]
        over == [y EXCEPT !.ready = FALSE]
    IN  IF x.mode # "servo" THEN {y}
        ELSE IF x.err # "none" THEN {y, over}
        ELSE {y, over, [y EXCEPT !.err = "hard"], [over EXCEPT !.err = "hard"],
              [y EXCEPT !.ready = (x.mode = x.outer)]}

Faulted(x) == {[x EXCEPT !.err = e] : e \in {"thermal", "hard"}}

Aborted(x) == [x EXCEPT !.mode = "disable", !.phases = "off", !.primed = FALSE]

\* Task_TryClearError: other faults go, a thermal one only once cool.
TryClear(x) ==
    {[x EXCEPT !.mode = "disable",
               !.err  = IF cool \/ @ # "thermal" THEN "none" ELSE @,
               !.heat = IF cool /\ @ = "latched" THEN "cool" ELSE @]
     : cool \in CanClear(x)}

Drive(x) == {x} \cup Faulted(x)

\* A calibration goes on, ends in a save or with nothing to save, or fails.
Calibrate(x) == {x, [x EXCEPT !.mode = "save"], [x EXCEPT !.mode = "disable"]} \cup Faulted(x)

(* The observer calibration is primed while the outputs are still off, and *)
(* switches them off itself when it gives up.                              *)
Observe(x) ==
    IF x.err # "none" THEN {Aborted(x)}
    ELSE {x, [x EXCEPT !.primed = (~@ /\ x.last = "disable")],
          [x EXCEPT !.mode = "save", !.primed = FALSE]}
         \cup Faulted(x) \cup {Aborted(y) : y \in Faulted(x)}

MeasureOffset(x) == {x, [x EXCEPT !.mode = "disable"]}

SetZero(x) == {[x EXCEPT !.err = "hard"], [x EXCEPT !.mode = "save", !.ready = FALSE]}

\* Asks for a save of the defaults, and falls into Clear_Error.
ReturnDefault(x) == TryClear([x EXCEPT !.mode = "save"])

\* The mode's own work.
Task(x) ==
    CASE x.mode \in {"current", "servo"} -> Drive(x)
      [] x.mode = "calib"    -> Calibrate(x)
      [] x.mode = "observer" -> Observe(x)
      [] x.mode = "offset"   -> MeasureOffset(x)
      [] x.mode = "zero"     -> SetZero(x)
      [] x.mode = "default"  -> ReturnDefault(x)
      [] x.mode = "clear"    -> TryClear(x)
      [] OTHER               -> {x}

\* Variant: a fault leaves the short of Damping_Mode on.
DisarmPowered(x) ==
    IF x.err # "none" /\ x.mode \notin {"save", "default", "damping"}
    THEN [x EXCEPT !.mode = "disable"] ELSE x

\* An error ends every mode but a save.
Disarm(x) ==
    IF x.err # "none" /\ x.mode \notin {"save", "default"}
    THEN [x EXCEPT !.mode = "disable"] ELSE x

\* Variant: a save leaves the outputs to the next stop.
QuietOnStop(x) ==
    IF x.mode = "disable" /\ (x.last # "disable" \/ x.phases # "off" \/ x.primed)
    THEN [x EXCEPT !.phases = "off", !.primed = FALSE, !.ready = FALSE]
    ELSE x

\* Stop_PWM_Generate when stopped, and for a save or a new zero.
Quiet(x) ==
    IF x.mode = "disable" /\ (x.last # "disable" \/ x.phases # "off" \/ x.primed)
    THEN [x EXCEPT !.phases = "off", !.primed = FALSE, !.ready = FALSE]
    ELSE IF x.mode \in {"zero", "save"} THEN [x EXCEPT !.phases = "off"]
    ELSE x

\* Variant: the servo modes wait for the preparation or for the answer.
EnergiseSoon(x, primed) ==
    LET starts == x.last = "disable" /\ x.mode \notin Unpowered
        defers == /\ starts
                  /\ \/ x.mode = "observer" /\ ~primed
                     \/ x.mode = "servo" /\ ~(x.prepared \/ x.ready)
    IN  [x EXCEPT !.phases   = IF ~starts \/ defers THEN @
                               ELSE IF x.mode = "damping" THEN "short" ELSE "pwm",
                  !.prepared = defers /\ (@ \/ x.mode = "servo"),
                  !.last     = IF defers THEN @ ELSE x.mode,
                  !.errLast  = x.err]

(* Power goes on in the tick after a stop; the observer calibration waits  *)
(* until it was primed before this tick, the servo modes until they were   *)
(* prepared in an earlier one and the outer loop has answered.             *)
Energise(x, primed) ==
    LET starts == x.last = "disable" /\ x.mode \notin Unpowered
        defers == /\ starts
                  /\ \/ x.mode = "observer" /\ ~primed
                     \/ x.mode = "servo" /\ ~(x.prepared /\ x.ready)
    IN  [x EXCEPT !.phases   = IF ~starts \/ defers THEN @
                               ELSE IF x.mode = "damping" THEN "short" ELSE "pwm",
                  !.prepared = defers /\ (@ \/ x.mode = "servo"),
                  !.last     = IF defers THEN @ ELSE x.mode,
                  !.errLast  = x.err]

\* The record when the tick comes to the mode's own work.
Entered(x) ==
    LET settled == {Handover(Configured(a)) : a \in Sense(x)}
        guarded == UNION {Guard(a) : a \in UNION {Profile(b) : b \in settled}}
    IN  UNION {OuterTick(a) : a \in guarded}

Tick ==
    /\ \E a \in Entered(m) : \E b \in Task(a) :
         m' = Energise(Quiet(Disarm(b)), a.mode = "observer" /\ a.primed)
    /\ UNCHANGED <<can, tim, beat>>

-----------------------------------------------------------------------------
(* The receive interrupt.                                                  *)

\* Bus voltage, profile, encoder and calibration may refuse any other mode.
Conditional == Modes \ {"disable", "clear", "save"}

Accepts(c) ==
    /\ m.err = "none"
    /\ m.mode = "disable" \/ (c = "disable" /\ m.mode \in Stoppable)

\* Whether Clear_Error is let through in any other state.
Clears == IF m.err \in {"thermal", "none"} THEN CanClear(m) ELSE {TRUE}

\* ModeSwitch_Handle up to its write.
ModeSwitch(c) ==
    IF m.locked /\ c # "disable" THEN {Nothing}
    ELSE IF ~CanRun(m, c)
    THEN {IF m.err = "none" THEN Fault("thermal") ELSE Nothing}
    ELSE (IF c \in Conditional THEN {Nothing, Fault("hard")} ELSE {})
         \cup (IF Accepts(c) THEN {Mode(c)}
               ELSE IF c = "clear"
               THEN {IF ok THEN Mode(c) ELSE Nothing : ok \in Clears}
               ELSE {Nothing})

Written(x, w) ==
    CASE w.kind = "mode" -> [x EXCEPT !.mode = w.mode]
      [] w.kind = "err"  -> [x EXCEPT !.err = w.err]
      [] OTHER           -> x

\* A frame resets the heartbeat; then the error word is read.
CanRx(c) ==
    /\ can.pc = "idle"
    /\ can' = [pc |-> IF m.err = "can" THEN "resume" ELSE "command",
               cmd |-> c, write |-> Nothing]
    /\ beat' = [count |-> 0, rx |-> TRUE]
    /\ UNCHANGED <<m, tim>>

\* Reception resumed: CAN_DisConnect is cleared.
CanResume ==
    /\ can.pc = "resume"
    /\ m' = [m EXCEPT !.err = "none"]
    /\ can' = [can EXCEPT !.pc = "command"]
    /\ UNCHANGED <<tim, beat>>

\* Entering position mode also resets the outer loop.
CanCommand ==
    /\ can.pc = "command" /\ can.cmd \notin {"configure", "profile"}
    /\ \E w \in IF can.cmd = "query" THEN {Nothing} ELSE ModeSwitch(can.cmd) :
          /\ can' = IF w = Nothing THEN NoFrame
                    ELSE [can EXCEPT !.pc = "write", !.write = w]
          /\ m' \in {m, [m EXCEPT !.ready = @ /\ w # Mode("servo")]}
    /\ UNCHANGED <<tim, beat>>

(* Thermal settings and load profiles are left for the tick, and only with *)
(* the motor stopped and nothing left there before.                        *)
CanSettings ==
    /\ can.pc = "command"
    /\ \/ /\ can.cmd = "configure"
          /\ m' = [m EXCEPT !.waits = @ \/ (m.mode = "disable" /\ m.phases = "off"
                                             /\ m.heat # "invalid")]
       \/ /\ can.cmd = "profile"
          /\ m' = [m EXCEPT !.load = IF m.mode = "disable" /\ m.last = "disable"
                                        /\ m.err = "none" /\ m.phases = "off"
                                     THEN "asked" ELSE @]
    /\ can' = NoFrame
    /\ UNCHANGED <<tim, beat>>

CanWrite ==
    /\ can.pc = "write"
    /\ m' = Written(m, can.write)
    /\ can' = NoFrame
    /\ UNCHANGED <<tim, beat>>

CanStep == CanResume \/ CanCommand \/ CanSettings \/ CanWrite

-----------------------------------------------------------------------------
(* The 1 kHz supervisor.                                                   *)

TimIdle == can.pc = "idle"

\* Temperature_Update may raise High_Temprature over any other error.
TimTemperature ==
    /\ TimIdle /\ tim = "idle"
    /\ \E e \in {m.err, "hard"} : m' = [m EXCEPT !.err = e]
    /\ tim' = "watch"
    /\ UNCHANGED <<can, beat>>

\* MotorThermalControl_CheckWatchdog: with the outputs on, the thermal clock
\* may have stood still, and it has if it was found so before.
TimWatch ==
    /\ TimIdle /\ tim = "watch"
    /\ \/ tim' = "late" /\ m.phases # "off"
       \/ tim' = "beat" /\ ~(m.phases # "off" /\ m.heat = "late")
    /\ UNCHANGED <<m, can, beat>>

\* pending_clock_fault; the fast loop may have switched off or tripped since.
TimLate ==
    /\ TimIdle /\ tim = "late"
    /\ m' = [m EXCEPT !.heat = IF @ = "invalid" THEN @ ELSE "late"]
    /\ tim' = "test"
    /\ UNCHANGED <<can, beat>>

\* An error that is there already is kept.
TimTest ==
    /\ TimIdle /\ tim = "test"
    /\ tim' = IF m.err = "none" THEN "fault" ELSE "disable"
    /\ UNCHANGED <<m, can, beat>>

TimFault ==
    /\ TimIdle /\ tim = "fault"
    /\ m' = [m EXCEPT !.err = "thermal"]
    /\ tim' = "disable"
    /\ UNCHANGED <<can, beat>>

TimDisable ==
    /\ TimIdle /\ tim = "disable"
    /\ m' = [m EXCEPT !.mode = "disable"]
    /\ tim' = "stop"
    /\ UNCHANGED <<can, beat>>

TimStop ==
    /\ TimIdle /\ tim = "stop"
    /\ m' = [m EXCEPT !.phases = "off"]
    /\ tim' = "beat"
    /\ UNCHANGED <<can, beat>>

\* CAN_DisConnect_Handle up to its write.
TimHeartbeat ==
    /\ TimIdle /\ tim = "beat"
    /\ LET count == IF beat.rx /\ beat.count < HeartbeatMs THEN beat.count + 1 ELSE beat.count
       IN  IF HeartbeatMs = 0 \/ m.mode \notin Watched
           THEN beat' = [beat EXCEPT !.count = 0] /\ tim' = "idle"
           ELSE /\ beat' = [beat EXCEPT !.count = count]
                /\ tim' = IF beat.rx /\ count >= HeartbeatMs /\ m.err = "none"
                          THEN "silence" ELSE "idle"
    /\ UNCHANGED <<m, can>>

TimSilence ==
    /\ TimIdle /\ tim = "silence"
    /\ m' = [m EXCEPT !.err = "can"]
    /\ tim' = "idle"
    /\ UNCHANGED <<can, beat>>

TimStep ==
    \/ TimWatch \/ TimLate \/ TimTest
    \/ TimFault \/ TimDisable \/ TimStop
    \/ TimHeartbeat \/ TimSilence

-----------------------------------------------------------------------------
(* ParameterPersistence_Poll, with interrupts masked.  A failed write      *)
(* leaves a fault; outputs that are on are one way to fail.                *)

\* Variant: a write that failed is left to be tried again.
SavePollAgain ==
    /\ can.pc = "idle" /\ tim = "idle"
    /\ m.mode = "save" /\ m.last = "save"
    /\ \/ m.phases = "off" /\ m' = [m EXCEPT !.mode = "disable"]
       \/ m' = [m EXCEPT !.phases = "off", !.err = "hard"]
    /\ UNCHANGED <<can, tim, beat>>

SavePoll ==
    /\ can.pc = "idle" /\ tim = "idle"
    /\ m.mode = "save" /\ m.last = "save"
    /\ \/ m.phases = "off" /\ m' = [m EXCEPT !.mode = "disable"]
       \/ m' = [m EXCEPT !.mode = "disable", !.phases = "off", !.err = "hard"]
    /\ UNCHANGED <<can, tim, beat>>

MotorNext ==
    \/ Tick
    \/ \E c \in Commands : CanRx(c)
    \/ CanStep
    \/ TimTemperature
    \/ TimStep
    \/ SavePoll

MotorSpec == MotorInit /\ [][MotorNext]_motorVars

\* A tick may leave all as it is: no sample is bad, nothing gets hotter.
Settled(x) ==
    /\ x.heat # "late" /\ ~x.waits /\ x.load = "none"
    /\ \E a \in Guard(x) : \E b \in OuterTick(a) : \E c \in Task(b) :
         x = Energise(Quiet(Disarm(c)), b.mode = "observer" /\ b.primed)

(* A tick that is bound to change something.  A settled state need never   *)
(* see the fault that a tick might bring.                                  *)
DueTick == ~Settled(m) /\ Tick

-----------------------------------------------------------------------------
(* Properties                                                              *)

MotorSet == [mode : Modes, err : Errors, last : Modes, errLast : Errors,
             phases : {"off", "pwm", "short"}, heat : Heats, outer : Modes,
             ready : BOOLEAN, prepared : BOOLEAN, primed : BOOLEAN,
             locked : BOOLEAN, waits : BOOLEAN, load : {"none", "asked", "taken"}]

(* Type correctness of the shared words and of the three contexts.         *)
MotorTypeOK ==
    /\ m \in MotorSet
    /\ can \in [pc : {"idle", "resume", "command", "write"},
                cmd : Commands \cup {"query"}, write : Writes]
    /\ tim \in {"idle", "watch", "late", "test", "fault", "disable", "stop", "beat",
                "silence"}
    /\ beat \in [count : 0 .. HeartbeatMs, rx : BOOLEAN]

(* Outputs are on only if the last tick ended without a fault, in a mode   *)
(* that drives the motor, whatever the other contexts wrote meanwhile.     *)
PoweredIsHealthy ==
    m.phases # "off" => m.errLast = "none" /\ m.last \notin Unpowered

(* A save that the tick has acknowledged finds the outputs off: what       *)
(* parameter_persistence.c:123 relies on before it writes flash.           *)
SaveIsQuiet == m.mode = "save" /\ m.last = "save" => m.phases = "off"

(* Once the thermal model has tripped, or has lost its clock or a sample,  *)
(* nothing drives the motor but the current-offset calibration, whichever  *)
(* start a CAN frame slipped in.                                           *)
TrippedIsOff ==
    m.heat \in {"latched", "invalid"} => m.phases = "off" \/ m.last = "offset"

(* A servo mode is never powered before the outer loop has answered since  *)
(* the mode was entered (position_start_prepared and MotorOuterLoop_IsReady). *)
ServoStartsReady ==
    [][m.phases = "off" /\ m'.phases = "pwm" /\ m'.last = "servo"
       => m.prepared /\ m'.ready /\ m.outer = "servo"]_motorVars

(* While thermal settings wait for the tick nothing but the current-offset *)
(* calibration drives the motor, and a load profile is taken with the      *)
(* outputs off and still off when the tick ends: a START between request   *)
(* and tick never runs half configured (motor_thermal_control.c:151,       *)
(* foc_task.c:112).                                                        *)
SettledBeforeDriven ==
    (m.waits /\ m.last # "offset") \/ m.load = "taken" => m.phases = "off"
=============================================================================
