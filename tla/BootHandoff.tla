---------------------------- MODULE BootHandoff ----------------------------
(***************************************************************************)
(* How the motor firmware hands itself over to the Loader.  The CAN        *)
(* interrupt records one BOOT request and locks the motor; the foreground  *)
(* loop then stops it, answers, waits until the answer has left the bus    *)
(* and resets, while the tick and the supervisor of MotorMode go on.       *)
(*                                                                         *)
(* The foreground runs only when no interrupt is being served, and is cut  *)
(* between what it reads and what it then does.  An operator marked        *)
(* "Variant" is the definition below it with one mistake.                  *)
(***************************************************************************)
EXTENDS MotorMode

CONSTANT Limit          \* milliseconds allowed for stopping, and for sending

ASSUME LimitAssumption == Limit \in Nat

VARIABLES
    boot,   \* pending, queued, failed, and the time since each was set
    fg,     \* where the foreground loop is
    stop,   \* what its ModeSwitch_Handle is about to write
    tx      \* the latest transmission: what, and whether it has left

bootVars == <<m, can, tim, beat, boot, fg, stop, tx>>

Ages == 0 .. Limit + 1

AtRest == m.mode = "disable" /\ m.last = "disable" /\ m.phases = "off"

BootInit ==
    /\ MotorInit
    /\ boot = [pending |-> FALSE, queued |-> FALSE, failed |-> FALSE,
               asked |-> 0, told |-> 0]
    /\ fg = "poll"
    /\ stop = Nothing
    /\ tx = [what |-> "none", sent |-> FALSE]

Foreground(here) == fg = here /\ can.pc = "idle" /\ tim = "idle"

-----------------------------------------------------------------------------
(* The receive interrupt and the clock.                                    *)

\* While a request is pending no other frame is looked at.
Frame(c) ==
    /\ ~boot.pending
    /\ CanRx(c)
    /\ UNCHANGED <<boot, fg, stop, tx>>

BootFrame ==
    /\ can.pc = "idle" /\ ~boot.pending
    /\ boot' = [boot EXCEPT !.pending = TRUE, !.asked = 0]
    /\ m' = [m EXCEPT !.locked = TRUE]
    /\ UNCHANGED <<can, tim, beat, fg, stop, tx>>

Millisecond ==
    /\ boot.pending
    /\ boot' = [boot EXCEPT !.asked = IF @ > Limit THEN @ ELSE @ + 1,
                            !.told  = IF @ > Limit \/ ~boot.queued THEN @ ELSE @ + 1]
    /\ boot' # boot
    /\ UNCHANGED <<m, can, tim, beat, fg, stop, tx>>

\* The controller wins arbitration; on a dead bus it never does.
Transmit ==
    /\ tx.what # "none" /\ ~tx.sent
    /\ tx' = [tx EXCEPT !.sent = TRUE]
    /\ UNCHANGED <<m, can, tim, beat, boot, fg, stop>>

TxFree == tx.what = "none" \/ tx.sent

-----------------------------------------------------------------------------
(* BootHandoff_AppPoll.                                                    *)

\* Variant: the tick's own view of the mode is not waited for.
SilentByMode == m.mode = "disable"

\* ModeNow, ModeLast and the outputs.
Silent == m.mode = "disable" /\ m.last = "disable" /\ m.phases = "off"

\* Variant: the motor is left to stop by itself until time is up.
StopAndWait(b) ==
    LET failed == b.failed \/ b.asked > Limit
    IN  [failed |-> failed, act |-> IF failed /\ ~b.queued THEN "fail" ELSE "send"]

\* Still moving: stop it, again and again; tell the host when time is up.
Stop(b) ==
    LET failed == b.failed \/ b.asked > Limit
    IN  [failed |-> failed, act |-> IF failed /\ ~b.queued THEN "fail" ELSE "stop"]

\* Variant: a motor that stopped too late is not reported.
AnswerInTime(b) ==
    IF b.failed THEN [failed |-> TRUE, act |-> "send"]
    ELSE [failed |-> b.asked > Limit, act |-> IF b.asked > Limit THEN "fail" ELSE "ok"]

Answer(b) ==
    LET failed == b.failed \/ b.asked > Limit
    IN  [failed |-> failed, act |-> IF failed THEN "fail" ELSE "ok"]

\* Variant: an answer that was queued counts as sent.
LeaveUnsent(b) ==
    [failed |-> b.told > Limit, act |-> IF b.told > Limit THEN "send" ELSE "reset"]

\* Reset once the answer has left, unless that took too long.
Leave(b) ==
    [failed |-> b.told > Limit,
     act |-> IF b.told <= Limit /\ tx.sent THEN "reset" ELSE "send"]

\* BootHandoff_Poll: what the foreground is to do; "send" goes on with the loop.
Poll(b) ==
    CASE ~Silent                         -> Stop(b)
      [] Silent /\ ~b.queued             -> Answer(b)
      [] Silent /\ b.queued /\ b.failed  -> [failed |-> TRUE, act |-> "send"]
      [] Silent /\ b.queued /\ ~b.failed -> Leave(b)

AppPoll ==
    /\ Foreground("poll")
    /\ IF boot.pending
       THEN fg' = Poll(boot).act /\ boot' = [boot EXCEPT !.failed = Poll(boot).failed]
       ELSE fg' = "send" /\ UNCHANGED boot
    /\ UNCHANGED <<m, can, tim, beat, stop, tx>>

AppStop ==
    /\ Foreground("stop")
    /\ stop' \in ModeSwitch("disable")
    /\ fg' = IF stop' = Nothing THEN "send" ELSE "write"
    /\ UNCHANGED <<m, can, tim, beat, boot, tx>>

AppWrite ==
    /\ Foreground("write")
    /\ m' = Written(m, stop)
    /\ fg' = "send" /\ stop' = Nothing
    /\ UNCHANGED <<can, tim, beat, boot, tx>>

\* A reply enters an empty queue only; the next round tries again.
AppReply(what) ==
    /\ Foreground(what)
    /\ fg' = "send"
    /\ IF TxFree
       THEN /\ tx' = [what |-> what, sent |-> FALSE]
            /\ boot' = [boot EXCEPT !.queued = TRUE, !.told = 0]
       ELSE UNCHANGED <<tx, boot>>
    /\ UNCHANGED <<m, can, tim, beat, stop>>

-----------------------------------------------------------------------------
(* The rest of the loop: CAN_SendMessage and ParameterPersistence_Poll.    *)

\* Variant: a reply that was waiting is sent whatever is pending.
SendCheckNot ==
    /\ Foreground("send")
    /\ fg' \in {"save", "sending"}
    /\ UNCHANGED <<m, can, tim, beat, boot, stop, tx>>

SendCheck ==
    /\ Foreground("send")
    /\ fg' \in IF boot.pending THEN {"save"} ELSE {"save", "sending"}
    /\ UNCHANGED <<m, can, tim, beat, boot, stop, tx>>

SendOther ==
    /\ Foreground("sending")
    /\ fg' = "save"
    /\ tx' = IF TxFree THEN [what |-> "other", sent |-> FALSE] ELSE tx
    /\ UNCHANGED <<m, can, tim, beat, boot, stop>>

Save ==
    /\ Foreground("save")
    /\ fg' = "poll"
    /\ IF m.mode = "save" /\ m.last = "save" THEN SavePoll ELSE UNCHANGED motorVars
    /\ UNCHANGED <<boot, stop, tx>>

Loop ==
    \/ AppPoll \/ AppStop \/ AppWrite
    \/ AppReply("ok") \/ AppReply("fail")
    \/ SendCheck \/ SendOther
    \/ Save

-----------------------------------------------------------------------------

(* Until the reset takes effect the interrupts go on.                      *)
BootNext ==
    \/ (Tick \/ CanStep \/ TimTemperature \/ TimStep) /\ UNCHANGED <<boot, fg, stop, tx>>
    \/ \E c \in Commands : Frame(c)
    \/ BootFrame \/ Millisecond \/ Transmit
    \/ Loop

BootSpec == BootInit /\ [][BootNext]_bootVars

(* The timers run, no interrupt lasts for ever, and the bus works.  The    *)
(* supervisor and the foreground are shut out at times, but get the        *)
(* processor again and again.                                              *)
FairBoot ==
    /\ BootSpec
    /\ WF_bootVars(Millisecond)
    /\ WF_bootVars(UNCHANGED <<boot, fg, stop, tx>> /\ DueTick)
    /\ WF_bootVars(UNCHANGED <<boot, fg, stop, tx>> /\ CanStep)
    /\ SF_bootVars(UNCHANGED <<boot, fg, stop, tx>> /\ TimStep)
    /\ SF_bootVars(Loop)
    /\ WF_bootVars(Transmit)

-----------------------------------------------------------------------------
(* Properties                                                              *)

(* Type correctness; the lock is on exactly while a request is pending.    *)
BootTypeOK ==
    /\ MotorTypeOK
    /\ boot \in [pending : BOOLEAN, queued : BOOLEAN, failed : BOOLEAN,
                 asked : Ages, told : Ages]
    /\ fg \in {"poll", "stop", "write", "ok", "fail", "reset", "send",
               "sending", "save"}
    /\ stop \in Writes
    /\ tx \in [what : {"none", "other", "ok", "fail"}, sent : BOOLEAN]
    /\ m.locked = boot.pending

(* The firmware resets into the Loader only with the motor stopped, the    *)
(* outputs off, nothing having failed, and after the host's OK has left    *)
(* the bus: step 4 of the handover.                                        *)
ResetOnlyWhenSafe ==
    fg = "reset" =>
        /\ AtRest
        /\ boot.queued /\ ~boot.failed
        /\ tx = [what |-> "ok", sent |-> TRUE]

(* From the moment the host can be told OK the motor is stopped and stays  *)
(* so, whichever tick, fault or timer comes: the lock holds.               *)
OkMeansStopped == tx.what = "ok" => AtRest /\ m.locked

(* The answer is the last thing this firmware sends: no reply that was     *)
(* waiting, and no status, follows it or takes its place in                *)
(* comm_hw_can_reply_sent, which only looks at the latest request.         *)
AnswerIsLast == boot.queued => tx.what \in {"ok", "fail"}

(* A motor that the request finds in any mode but Damping_Mode stops.      *)
LockedMotorStops == boot.pending /\ m.mode # "damping" ~> AtRest

(* On a working bus the host is answered.                                  *)
HostIsAnswered == boot.pending ~> boot.queued

(* A save is done with, even with a fault and with frames, timer           *)
(* interrupts and new faults arriving all the time.                        *)
SaveEnds == m.mode = "save" ~> m.mode # "save"

(* 2026-10-13-can-loader-minimal-design-v1.md:62, step 2: the request      *)
(* makes the firmware execute STOP; :66, a failure stays stopped.          *)
BootStopsMotor == boot.pending ~> AtRest
=============================================================================
