------------------------------ MODULE OuterLoop ------------------------------
(***************************************************************************)
(* The mailbox between the 20 kHz tick and the slower position and speed   *)
(* controllers, which run in PendSV.  It holds one question and its        *)
(* answer.  A reset does not wait for a worker it has preempted: it opens  *)
(* a new epoch, and answers to an older one are thrown away.               *)
(*                                                                         *)
(* Three contexts meet here: the tick, which is one step; the CAN          *)
(* interrupt, which resets the epoch by a load and a store that the tick   *)
(* may come between; and the worker, of the CAN interrupt's priority.  The *)
(* worker also encodes the RTT snapshot the tick leaves for it.            *)
(***************************************************************************)
EXTENDS Naturals

CONSTANTS
    Divider,        \* SPEED_LOOP_DIVIDER: ticks from one question to the next
    MaxCommands     \* bound: commands the CAN interrupt handles

ASSUME OuterAssumption == Divider \in Nat \ {0} /\ MaxCommands \in Nat

VARIABLES
    motor,      \* MotorControl, ModeLast, ErrorLast, position_start_prepared
    outer,      \* the mailbox; session, asked and begun count true resets
    rtt,        \* rtt_snapshot_ready, and whether a snapshot was torn
    pend,       \* PendSV is pending
    worker,     \* where PendSV_Handler is
    can,        \* where the receive interrupt is, and the epoch it loaded
    left        \* commands still to come

outerVars == <<motor, outer, rtt, pend, worker, can, left>>

Servo  == {"speed", "position"}
Stages == {"disable", "clear"} \cup Servo
Faults == {"none", "can", "hard"}

Active(x) == x.mode \in Servo

NoCommand == [pc |-> "idle", cmd |-> "disable", loaded |-> 0]

(* session is the number of resets there have been; asked is what it was   *)
(* when the question was put, begun what it was for the question the       *)
(* controller's memory was last cleared for.  The code has only the        *)
(* epochs to go by.                                                        *)
OuterInit ==
    /\ motor = [mode |-> "disable", err |-> "none", last |-> "disable",
                errLast |-> "none", prepared |-> FALSE]
    /\ outer = [status |-> "idle", epoch |-> 0, request |-> 0, worker |-> 0,
                divider |-> 0, age |-> 0, mode |-> "disable", kind |-> "disable",
                ready |-> FALSE, valid |-> FALSE, missed |-> FALSE,
                session |-> 0, asked |-> 0, begun |-> 0]
    /\ rtt = [ready |-> FALSE, torn |-> FALSE]
    /\ pend = FALSE
    /\ worker = "idle"
    /\ can = NoCommand
    /\ left = MaxCommands

-----------------------------------------------------------------------------
(* The tick.  Its stages work on the motor, the mailbox and PendSV.        *)

\* MotorOuterLoop_RequestReset.
Reset(o) == [o EXCEPT !.epoch = @ + 1, !.session = @ + 1, !.ready = FALSE]

\* A change of mode starts over, and asks in this same tick.
Notice(s) ==
    IF s.m.mode = s.o.mode THEN s
    ELSE [s EXCEPT !.o = [Reset(@) EXCEPT !.mode = s.m.mode, !.divider = Divider - 1]]

\* References, profile and tuning may be found invalid in any tick.
Inputs(s) ==
    IF Active(s.m) /\ s.m.err = "none"
    THEN {s, [s EXCEPT !.m.err = "hard", !.o = Reset(@)]} ELSE {s}

Aged(o) == [o EXCEPT !.age = IF @ < Divider THEN @ + 1 ELSE @]

(* An answer is applied if it is of this epoch, and valid; whatever it is, *)
(* the slot is free again.                                                 *)
Collect(s) ==
    IF s.o.status = "idle" THEN s
    ELSE IF s.o.status # "done" THEN [s EXCEPT !.o = Aged(@)]
    ELSE LET free    == [Aged(s.o) EXCEPT !.status = "idle"]
             applies == Active(s.m) /\ s.m.err = "none" /\ s.o.request = s.o.epoch
         IN  IF ~applies THEN [s EXCEPT !.o = free]
             ELSE IF s.o.valid THEN [s EXCEPT !.o = [free EXCEPT !.ready = TRUE]]
             ELSE [s EXCEPT !.o = free, !.m.err = "hard"]

\* Every Divider ticks a new question; one that still stands is overdue.
Release(s) ==
    IF ~Active(s.m) \/ s.m.err # "none" THEN s
    ELSE IF s.o.divider + 1 < Divider THEN [s EXCEPT !.o.divider = @ + 1]
    ELSE IF s.o.status # "idle"
    THEN [s EXCEPT !.m.err = "hard", !.o = [Reset(@) EXCEPT !.divider = 0, !.missed = TRUE]]
    ELSE [s EXCEPT !.o = [@ EXCEPT !.divider = 0, !.status = "queued", !.request = s.o.epoch,
                                   !.age = 0, !.kind = s.m.mode, !.asked = s.o.session],
                   !.pend = TRUE]

FastTick(s) == {Release(Collect(a)) : a \in Inputs(Notice(s))}

\* FOC_Current may find a fault; Clear_Error ends in a stop.
Work(s) ==
    IF s.m.mode = "clear"
    THEN {[s EXCEPT !.m.mode = "disable", !.m.err = "none"]}
    ELSE IF Active(s.m) THEN {s, [s EXCEPT !.m.err = "hard"]} ELSE {s}

\* Variant: an error ends only a mode that has its outputs on.
DisarmedRunning(s) ==
    IF s.m.err # "none" /\ s.m.last # "disable" THEN [s EXCEPT !.m.mode = "disable"] ELSE s

Disarmed(s) == IF s.m.err # "none" THEN [s EXCEPT !.m.mode = "disable"] ELSE s

\* Stopping resets the runtime, the mailbox with it.
Stopped(s) ==
    IF s.m.mode = "disable" /\ s.m.last # "disable" THEN [s EXCEPT !.o = Reset(@)] ELSE s

\* Variant: the servo modes start once prepared, answered or not.
StartedUnready(s) ==
    LET defers == s.m.last = "disable" /\ Active(s.m) /\ ~s.m.prepared
    IN  [s EXCEPT !.m = [@ EXCEPT !.prepared = defers, !.errLast = s.m.err,
                                  !.last = IF defers THEN s.m.last ELSE s.m.mode]]

\* The outputs start once prepared in an earlier tick and answered.
Started(s) ==
    LET defers == s.m.last = "disable" /\ Active(s.m) /\ ~(s.m.prepared /\ s.o.ready)
    IN  [s EXCEPT !.m = [@ EXCEPT !.prepared = defers, !.errLast = s.m.err,
                                  !.last = IF defers THEN s.m.last ELSE s.m.mode]]

(* RTT_Sampling: a sample is due or not, and dropped while one waits.  It  *)
(* must not be written over the one the worker encodes.                    *)
Sampled(r, due) ==
    IF due /\ ~r.ready THEN [ready |-> TRUE, torn |-> r.torn \/ worker = "encode"] ELSE r

Tick(e, due) ==
    \E a \in FastTick([m |-> [motor EXCEPT !.err = e], o |-> outer, pend |-> pend]) :
    \E b \in Work(a) :
        LET s == Started(Stopped(Disarmed(b)))
        IN  /\ motor' = s.m
            /\ outer' = s.o
            /\ rtt' = Sampled(rtt, due)
            /\ pend' = (s.pend \/ rtt' # rtt)
            /\ UNCHANGED <<worker, can, left>>

TickAny == \E e \in {motor.err, "hard"}, due \in BOOLEAN : Tick(e, due)

-----------------------------------------------------------------------------
(* PendSV_Handler: MotorOuterLoop_Service, then FOC_TelemetryService.      *)

WorkerEnter ==
    /\ pend /\ worker = "idle" /\ can.pc = "idle"
    /\ pend' = FALSE
    /\ worker' = "service"
    /\ UNCHANGED <<motor, outer, rtt, can, left>>

\* A question of a new epoch starts the controller from nothing.
Take ==
    /\ worker = "service"
    /\ IF outer.status = "queued"
       THEN /\ outer' = [outer EXCEPT !.status = "running", !.worker = outer.request,
                           !.begun = IF outer.worker # outer.request THEN outer.asked ELSE @]
            /\ worker' = "compute"
       ELSE worker' = "telemetry" /\ UNCHANGED outer
    /\ UNCHANGED <<motor, rtt, pend, can, left>>

Compute ==
    /\ worker = "compute"
    /\ \E valid \in BOOLEAN :
         outer' = [outer EXCEPT !.status = "done", !.valid = valid]
    /\ worker' = "telemetry"
    /\ UNCHANGED <<motor, rtt, pend, can, left>>

\* Variant: the snapshot is released before it is encoded.
TelemetryEarly ==
    /\ worker = "telemetry"
    /\ worker' = IF rtt.ready THEN "encode" ELSE "idle"
    /\ rtt' = [rtt EXCEPT !.ready = FALSE]
    /\ UNCHANGED <<motor, outer, pend, can, left>>

Telemetry ==
    /\ worker = "telemetry"
    /\ worker' = IF rtt.ready THEN "encode" ELSE "idle"
    /\ UNCHANGED <<motor, outer, rtt, pend, can, left>>

Encode ==
    /\ worker = "encode"
    /\ rtt' = [rtt EXCEPT !.ready = FALSE]
    /\ worker' = "idle"
    /\ UNCHANGED <<motor, outer, pend, can, left>>

Worker == WorkerEnter \/ Take \/ Compute \/ Telemetry \/ Encode

-----------------------------------------------------------------------------
(* The CAN interrupt: reception resumed, then ModeSwitch_Handle.           *)

Commands == {"disable", "clear"} \cup Servo

\* Variant: the receive interrupt goes before the worker, or preempts it.
FrameFirst(c) ==
    /\ can.pc = "idle"
    /\ left > 0
    /\ left' = left - 1
    /\ can' = [NoCommand EXCEPT !.pc = "check", !.cmd = c]
    /\ motor' = [motor EXCEPT !.err = IF @ = "can" THEN "none" ELSE @]
    /\ UNCHANGED <<outer, rtt, pend, worker>>

\* Of two pending interrupts of a priority PendSV has the lower number.
Frame(c) ==
    /\ can.pc = "idle" /\ worker = "idle" /\ ~pend
    /\ left > 0
    /\ left' = left - 1
    /\ can' = [NoCommand EXCEPT !.pc = "check", !.cmd = c]
    /\ motor' = [motor EXCEPT !.err = IF @ = "can" THEN "none" ELSE @]
    /\ UNCHANGED <<outer, rtt, pend, worker>>

Accepted(c) ==
    \/ c = "clear"
    \/ motor.err = "none" /\ (motor.mode = "disable" \/ (c = "disable" /\ Active(motor)))

\* Variant: the mode is written first, the mailbox reset after it.
CheckModeFirst ==
    /\ can.pc = "check"
    /\ IF ~Accepted(can.cmd) THEN can' = NoCommand /\ UNCHANGED motor
       ELSE /\ can' = IF can.cmd = "position" THEN [can EXCEPT !.pc = "load"] ELSE NoCommand
            /\ motor' = [motor EXCEPT !.mode = can.cmd]
    /\ UNCHANGED <<outer, rtt, pend, worker, left>>

Check ==
    /\ can.pc = "check"
    /\ can' = IF ~Accepted(can.cmd) THEN NoCommand
              ELSE [can EXCEPT !.pc = IF can.cmd = "position" THEN "load" ELSE "write"]
    /\ UNCHANGED <<motor, outer, rtt, pend, worker, left>>

\* Starting Position_Mode resets the mailbox: outer.epoch++ is read ...
Load ==
    /\ can.pc = "load"
    /\ can' = [can EXCEPT !.pc = "store", !.loaded = outer.epoch]
    /\ UNCHANGED <<motor, outer, rtt, pend, worker, left>>

\* ... and written, whatever the tick made of it in between.
Store ==
    /\ can.pc = "store"
    /\ outer' = [outer EXCEPT !.epoch = can.loaded + 1, !.session = @ + 1]
    /\ can' = [can EXCEPT !.pc = "unready"]
    /\ UNCHANGED <<motor, rtt, pend, worker, left>>

Unready ==
    /\ can.pc = "unready"
    /\ outer' = [outer EXCEPT !.ready = FALSE]
    /\ can' = [can EXCEPT !.pc = "write"]
    /\ UNCHANGED <<motor, rtt, pend, worker, left>>

Write ==
    /\ can.pc = "write"
    /\ motor' = [motor EXCEPT !.mode = can.cmd]
    /\ can' = NoCommand
    /\ UNCHANGED <<outer, rtt, pend, worker, left>>

Can == Check \/ Load \/ Store \/ Unready \/ Write

\* The supervisor finds the bus silent while a servo mode runs.
Silence ==
    /\ can.pc = "idle" /\ worker = "idle" /\ ~pend
    /\ Active(motor) /\ motor.err = "none"
    /\ motor' = [motor EXCEPT !.err = "can"]
    /\ UNCHANGED <<outer, rtt, pend, worker, can, left>>

OuterNext ==
    \/ TickAny \/ Worker \/ Can \/ Silence
    \/ \E c \in Commands : Frame(c)

OuterSpec == OuterInit /\ [][OuterNext]_outerVars

(* The tick comes with its timer; worker and receive interrupt are         *)
(* preempted by nothing else and each of their steps ends.                 *)
FairOuter ==
    /\ OuterSpec
    /\ WF_outerVars(\E due \in BOOLEAN : Tick(motor.err, due))
    /\ WF_outerVars(Worker)
    /\ WF_outerVars(Can)

-----------------------------------------------------------------------------

MotorWords == [mode : Stages, err : Faults, last : {"disable"} \cup Servo,
               errLast : Faults, prepared : BOOLEAN]

Mailbox == [status : {"idle", "queued", "running", "done"}, epoch : Nat, request : Nat,
            worker : Nat, divider : 0..(Divider - 1), age : 0..Divider, mode : Stages,
            kind : {"disable"} \cup Servo, ready : BOOLEAN, valid : BOOLEAN,
            missed : BOOLEAN, session : Nat, asked : Nat, begun : Nat]

\* Types of the words the contexts share (foc_run.c:822, foc_task.c:199).
OuterTypeOK ==
    /\ motor \in MotorWords
    /\ outer \in Mailbox
    /\ rtt \in [ready : BOOLEAN, torn : BOOLEAN]
    /\ pend \in BOOLEAN
    /\ worker \in {"idle", "service", "compute", "telemetry", "encode"}
    /\ can \in [pc : {"idle", "check", "load", "store", "unready", "write"},
                cmd : Commands, loaded : Nat]
    /\ left \in 0..MaxCommands

(* An answer the tick will take (foc_run.c:1000 compares nothing but the   *)
(* epochs) was asked for since the last reset, in the mode the mailbox is  *)
(* in, and computed by a controller that began in this session: also when  *)
(* the CAN interrupt's reset has overwritten epochs the tick counted.      *)
AnswerOfItsSession ==
    outer.status # "idle" /\ outer.request = outer.epoch =>
        /\ outer.asked = outer.session
        /\ outer.kind = outer.mode
        /\ outer.status \in {"running", "done"} => outer.begun = outer.session

(* ControlOverrun_Error is raised only on a question the worker has had    *)
(* Divider ticks for: never, say, because a restarted servo mode finds the *)
(* question of the mode before it (foc_run.c:1041).                        *)
OverrunIsReal == [][outer'.missed # outer.missed => outer'.age = Divider]_outerVars

(* The tick never overwrites a snapshot the worker is encoding             *)
(* (foc_task.c:183).                                                       *)
FrameIsWhole == ~rtt.torn

(* A servo mode that is to start gets its outputs or is ended: it does not *)
(* wait for an answer that nothing will give (foc_task.c:804).             *)
StartEnds == (Active(motor) /\ motor.last = "disable") ~> (~Active(motor) \/ motor.last \in Servo)

(* What MotorMode knows of this mailbox: its two servo modes are one.      *)
Merged(mode) == IF mode \in Servo THEN "servo" ELSE mode

Motor == INSTANCE MotorMode WITH
    Commands    <- {},
    HeartbeatMs <- 0,
    m    <- [mode |-> Merged(motor.mode), err |-> motor.err, last |-> Merged(motor.last),
             errLast |-> motor.errLast,
             phases |-> IF motor.last = "disable" THEN "off" ELSE "pwm",
             heat |-> "cool", outer |-> Merged(outer.mode), ready |-> outer.ready,
             prepared |-> motor.prepared, primed |-> FALSE, locked |-> FALSE,
             waits |-> FALSE, load |-> "none"],
    can  <- "idle",
    tim  <- "idle",
    beat <- "none"

(* Every tick with the real mailbox is one MotorMode reckons with, so that *)
(* its results about a nondeterministic outer loop hold of this one.       *)
TickAsMotorMode == [][worker' = worker /\ TickAny => Motor!Tick]_outerVars
=============================================================================
