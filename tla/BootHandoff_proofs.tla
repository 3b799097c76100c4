------------------------- MODULE BootHandoff_proofs -------------------------
(***************************************************************************)
(* Proofs about BootHandoff for every set of commands, heartbeat and time  *)
(* limit.  The motor's part rests on the lemmas of MotorMode_proofs; what  *)
(* is added here is the request, its lock and the answer.                  *)
(***************************************************************************)
EXTENDS BootHandoff, MotorMode_proofs

BootSet == [pending : BOOLEAN, queued : BOOLEAN, failed : BOOLEAN, asked : Ages, told : Ages]

Places == {"poll", "stop", "write", "ok", "fail", "reset", "send", "sending", "save"}

TxSet == [what : {"none", "other", "ok", "fail"}, sent : BOOLEAN]

\* The lock is on while a request is pending, and shuts the CAN interrupt out.
LockInv ==
    /\ m.locked = boot.pending
    /\ boot.pending => can.pc = "idle"
    /\ boot.queued => boot.pending
    /\ fg \in {"stop", "write", "ok", "fail", "reset"} => boot.pending

\* What the foreground is about to do was decided on facts that still hold.
DecisionInv ==
    /\ stop = IF fg = "write" THEN Mode("disable") ELSE Nothing
    /\ fg = "ok" => AtRest /\ ~boot.queued /\ ~boot.failed
    /\ fg = "fail" => ~boot.queued /\ boot.failed
    /\ fg = "sending" => ~boot.queued
    /\ fg = "reset" => boot.queued /\ ~boot.failed /\ tx.sent

\* The answer in the transmit queue, and what it says of the motor.
AnswerInv ==
    /\ boot.queued => tx.what \in {"ok", "fail"}
    /\ boot.queued /\ ~boot.failed => tx.what = "ok"
    /\ tx.what \in {"ok", "fail"} => boot.queued
    /\ tx.what = "ok" => AtRest

BootInv ==
    /\ MotorInv
    /\ boot \in BootSet /\ fg \in Places /\ tx \in TxSet
    /\ LockInv /\ DecisionInv /\ AnswerInv

LEMMA BootMeans ==
    BootInv => BootTypeOK /\ ResetOnlyWhenSafe /\ OkMeansStopped /\ AnswerIsLast
<1> SUFFICES ASSUME BootInv
             PROVE  BootTypeOK /\ ResetOnlyWhenSafe /\ OkMeansStopped /\ AnswerIsLast
  OBVIOUS
<1>1. stop \in Writes
  BY DEF BootInv, DecisionInv, Writes, Mode, Modes, Nothing
<1>2. BootTypeOK
  BY <1>1 DEF BootInv, MotorInv, BootTypeOK, BootSet, Places, TxSet, LockInv
<1>3. OkMeansStopped
  BY DEF BootInv, OkMeansStopped, AnswerInv, LockInv
<1>4. fg = "reset" => tx = [what |-> "ok", sent |-> TRUE]
  BY DEF BootInv, DecisionInv, AnswerInv, TxSet
<1>5. QED
  BY <1>2, <1>3, <1>4
  DEF BootInv, ResetOnlyWhenSafe, AnswerIsLast, AnswerInv, DecisionInv

LEMMA BootInitInv == BootInit => BootInv
<1> SUFFICES ASSUME BootInit PROVE BootInv
  OBVIOUS
<1>1. MotorInv /\ m.locked = FALSE
  BY MotorInitInv DEF BootInit, MotorInit
<1>2. boot \in BootSet /\ tx \in TxSet
  BY LimitAssumption DEF BootInit, BootSet, TxSet, Ages
<1>3. QED
  BY <1>1, <1>2 DEF BootInit, BootInv, Places, LockInv, DecisionInv, AnswerInv

-----------------------------------------------------------------------------
(* What interrupts and timers do to a handover.                            *)

\* A step of the motor's that keeps lock and rest keeps all of it.
LEMMA MotorKeeps ==
    ASSUME BootInv, UNCHANGED <<boot, fg, stop, tx>>, MotorInv',
           m'.locked = m.locked, boot.pending => can'.pc = "idle",
           boot.pending /\ AtRest => AtRest'
    PROVE  BootInv'
<1>1. LockInv'
  BY DEF BootInv, LockInv
<1>2. DecisionInv'
  BY DEF BootInv, LockInv, DecisionInv
<1>3. AnswerInv'
  BY DEF BootInv, LockInv, AnswerInv
<1>4. QED
  BY <1>1, <1>2, <1>3 DEF BootInv

LEMMA TickKeeps ==
    ASSUME BootInv, Tick, UNCHANGED <<boot, fg, stop, tx>>
    PROVE  BootInv'
<1>1. MotorInv'
  BY TickStep DEF BootInv
<1>2. m'.locked = m.locked /\ (AtRest => AtRest')
  <2>1. Ticked(m, m')
    BY DEF Tick, Ticked
  <2>2. QED
    BY <2>1, TickStage DEF BootInv, MotorInv, MotorTypeOK, AtRest
<1>3. can' = can
  BY DEF Tick
<1>4. QED
  BY <1>1, <1>2, <1>3, MotorKeeps DEF BootInv, LockInv

\* With a request pending the receive interrupt has nothing left to do.
LEMMA CanKeeps ==
    ASSUME BootInv, CanStep, UNCHANGED <<boot, fg, stop, tx>>
    PROVE  BootInv'
<1>1. MotorInv'
  BY MotorStep DEF BootInv, MotorNext
<1>2. ~boot.pending
  BY DEF BootInv, LockInv, CanStep, CanResume, CanCommand, CanSettings, CanWrite
<1>3. m'.locked = m.locked
  BY CanSteps DEF BootInv, MotorInv, Tame
<1>4. QED
  BY <1>1, <1>2, <1>3, MotorKeeps

\* The supervisor only ever stops the motor.
LEMMA TimKeeps ==
    ASSUME BootInv, TimTemperature \/ TimStep, UNCHANGED <<boot, fg, stop, tx>>
    PROVE  BootInv'
<1>1. MotorInv'
  BY MotorStep DEF BootInv, MotorNext
<1>2. Tame(m, m')
  BY TimSteps DEF BootInv, MotorInv
<1>3. can' = can /\ m'.mode \in {m.mode, "disable"}
  BY DEF TimTemperature, TimStep, TimWatch, TimLate, TimTest, TimFault, TimDisable,
         TimStop, TimHeartbeat, TimSilence, BootInv, MotorInv, MotorTypeOK, MotorSet
<1>4. AtRest => AtRest'
  BY <1>2, <1>3 DEF AtRest, Tame
<1>5. QED
  BY <1>1, <1>2, <1>3, <1>4, MotorKeeps DEF BootInv, LockInv, Tame

LEMMA FrameKeeps ==
    ASSUME BootInv, NEW c \in Commands, Frame(c)
    PROVE  BootInv'
<1>1. MotorInv' /\ m' = m
  BY CanRxStep, MotorStep DEF Frame, BootInv, MotorInv, MotorNext
<1>2. QED
  BY <1>1, MotorKeeps DEF Frame

LEMMA BootFrameKeeps ==
    ASSUME BootInv, BootFrame
    PROVE  BootInv'
<1>1. m \in MotorSet /\ m' = [m EXCEPT !.locked = TRUE]
  BY DEF BootFrame, BootInv, MotorInv, MotorTypeOK
<1>2. m' \in MotorSet
  <2>1. TRUE \in BOOLEAN
    OBVIOUS
  <2>2. QED
    BY <1>1, <2>1, Zenon DEF MotorSet
<1>3. Tame([m EXCEPT !.locked = TRUE], m')
  BY <1>1, <1>2 DEF Tame
<1>4. /\ m'.locked = TRUE /\ m'.mode = m.mode /\ m'.last = m.last /\ m'.phases = m.phases
      /\ m'.errLast = m.errLast /\ m'.heat = m.heat /\ m'.waits = m.waits /\ m'.load = m.load
  BY <1>1 DEF MotorSet
<1>5. MotorInv'
  BY <1>2, <1>4 DEF BootFrame, BootInv, MotorInv, MotorTypeOK, Safe
<1>6. /\ boot' \in BootSet /\ boot'.pending /\ boot'.queued = boot.queued
      /\ boot'.failed = boot.failed
  <2>1. boot' = [boot EXCEPT !.pending = TRUE, !.asked = 0] /\ boot \in BootSet
    BY DEF BootFrame, BootInv
  <2>2. 0 \in Ages /\ TRUE \in BOOLEAN
    BY LimitAssumption DEF Ages
  <2>3. boot' \in BootSet
    BY <2>1, <2>2, Zenon DEF BootSet
  <2>4. QED
    BY <2>1, <2>3 DEF BootSet
<1>7. AtRest' = AtRest
  BY <1>4 DEF AtRest
<1>8. LockInv' /\ DecisionInv' /\ AnswerInv'
  BY <1>4, <1>6, <1>7 DEF BootFrame, BootInv, LockInv, DecisionInv, AnswerInv
<1>9. QED
  BY <1>5, <1>6, <1>8 DEF BootFrame, BootInv

LEMMA MillisecondKeeps ==
    ASSUME BootInv, Millisecond
    PROVE  BootInv'
<1>1. /\ boot' \in BootSet /\ boot'.pending = boot.pending /\ boot'.queued = boot.queued
      /\ boot'.failed = boot.failed
  <2> DEFINE asked == IF boot.asked > Limit THEN boot.asked ELSE boot.asked + 1
             told == IF boot.told > Limit \/ ~boot.queued THEN boot.told ELSE boot.told + 1
  <2>1. boot' = [boot EXCEPT !.asked = asked, !.told = told] /\ boot \in BootSet
    BY DEF Millisecond, BootInv
  <2>2. asked \in Ages /\ told \in Ages
    <3>1. boot.asked \in 0 .. Limit + 1 /\ boot.told \in 0 .. Limit + 1
      BY <2>1 DEF BootSet, Ages
    <3>2. QED
      BY <3>1, LimitAssumption DEF Ages
  <2> HIDE DEF asked, told
  <2>3. boot' \in BootSet
    BY <2>1, <2>2, Zenon DEF BootSet
  <2>4. QED
    BY <2>1, <2>3 DEF BootSet
<1>2. MotorInv' /\ AtRest' = AtRest
  BY DEF Millisecond, BootInv, MotorInv, MotorTypeOK, Safe, AtRest
<1>3. LockInv' /\ DecisionInv' /\ AnswerInv'
  BY <1>1, <1>2 DEF Millisecond, BootInv, LockInv, DecisionInv, AnswerInv
<1>4. fg' \in Places /\ tx' \in TxSet
  BY DEF Millisecond, BootInv
<1>5. QED
  BY <1>1, <1>2, <1>3, <1>4 DEF BootInv

LEMMA TransmitKeeps ==
    ASSUME BootInv, Transmit
    PROVE  BootInv'
<1>1. tx' \in TxSet /\ tx'.what = tx.what /\ tx'.sent
  BY DEF Transmit, BootInv, TxSet
<1>2. MotorInv' /\ AtRest' = AtRest
  BY DEF Transmit, BootInv, MotorInv, MotorTypeOK, Safe, AtRest
<1>3. LockInv' /\ DecisionInv' /\ AnswerInv'
  BY <1>1, <1>2 DEF Transmit, BootInv, LockInv, DecisionInv, AnswerInv
<1>4. QED
  BY <1>1, <1>2, <1>3 DEF Transmit, BootInv

-----------------------------------------------------------------------------
(* What the foreground does with a handover.                               *)

\* A step of the foreground that leaves the motor alone keeps the motor's part.
LEMMA MotorStays ==
    ASSUME BootInv, UNCHANGED <<m, can, tim, beat>>
    PROVE  MotorInv' /\ AtRest' = AtRest
  BY DEF BootInv, MotorInv, MotorTypeOK, Safe, AtRest

\* BootHandoff_Poll answers only a motor at rest, and resets only after an OK.
LEMMA PollVerdict ==
    ASSUME BootInv, boot.pending
    PROVE  LET p == Poll(boot) IN
           /\ p.failed \in BOOLEAN /\ (boot.failed => p.failed)
           /\ p.act \in {"stop", "fail", "send", "ok", "reset"}
           /\ p.act = "ok" => AtRest /\ ~boot.queued /\ ~p.failed
           /\ p.act = "fail" => ~boot.queued /\ p.failed
           /\ p.act = "reset" => boot.queued /\ ~p.failed /\ tx.sent
<1> DEFINE p == Poll(boot)
<1>1. boot \in BootSet /\ (Silent <=> AtRest)
  BY DEF BootInv, Silent, AtRest
<1>2. CASE ~Silent
  <2>1. p = Stop(boot)
    BY <1>2 DEF Poll
  <2>2. QED
    BY <1>1, <2>1, LimitAssumption DEF Stop, BootSet, Ages
<1>3. CASE Silent /\ ~boot.queued
  <2>1. p = Answer(boot)
    BY <1>3 DEF Poll
  <2>2. QED
    BY <1>1, <1>3, <2>1, LimitAssumption DEF Answer, BootSet, Ages
<1>4. CASE Silent /\ boot.queued /\ boot.failed
  <2>1. p = [failed |-> TRUE, act |-> "send"]
    BY <1>4 DEF Poll
  <2>2. QED
    BY <2>1
<1>5. CASE Silent /\ boot.queued /\ ~boot.failed
  <2>1. p = Leave(boot)
    BY <1>5 DEF Poll
  <2>2. QED
    BY <1>1, <1>5, <2>1, LimitAssumption DEF Leave, BootSet, Ages
<1>6. QED
  BY <1>1, <1>2, <1>3, <1>4, <1>5 DEF BootSet

LEMMA PollKeeps ==
    ASSUME BootInv, AppPoll
    PROVE  BootInv'
<1>1. MotorInv' /\ AtRest' = AtRest
  BY MotorStays DEF AppPoll
<1>2. fg = "poll" /\ stop = Nothing /\ stop' = stop /\ tx' = tx /\ can' = can /\ m' = m
  BY DEF AppPoll, Foreground, BootInv, DecisionInv
<1>3. CASE ~boot.pending
  <2>1. fg' = "send" /\ boot' = boot
    BY <1>3 DEF AppPoll
  <2>2. LockInv' /\ DecisionInv' /\ AnswerInv'
    BY <1>1, <1>2, <2>1 DEF BootInv, LockInv, DecisionInv, AnswerInv
  <2>3. QED
    BY <1>1, <1>2, <2>1, <2>2 DEF BootInv, Places
<1>4. CASE boot.pending
  <2> DEFINE p == Poll(boot)
  <2>1. fg' = p.act /\ boot' = [boot EXCEPT !.failed = p.failed]
    BY <1>4 DEF AppPoll
  <2>2. /\ p.failed \in BOOLEAN /\ (boot.failed => p.failed)
        /\ p.act \in {"stop", "fail", "send", "ok", "reset"}
        /\ p.act = "ok" => AtRest /\ ~boot.queued /\ ~p.failed
        /\ p.act = "fail" => ~boot.queued /\ p.failed
        /\ p.act = "reset" => boot.queued /\ ~p.failed /\ tx.sent
    BY <1>4, PollVerdict
  <2> HIDE DEF p
  <2>3. /\ boot' \in BootSet /\ boot'.pending = boot.pending /\ boot'.queued = boot.queued
        /\ boot'.failed = p.failed
    BY <2>1, <2>2 DEF BootInv, BootSet
  <2>4. LockInv'
    BY <1>2, <1>4, <2>3 DEF BootInv, LockInv
  <2>5. DecisionInv'
    BY <1>1, <1>2, <2>1, <2>2, <2>3 DEF DecisionInv
  <2>6. AnswerInv'
    BY <1>1, <1>2, <2>2, <2>3 DEF BootInv, AnswerInv
  <2>7. QED
    BY <1>1, <1>2, <2>1, <2>2, <2>3, <2>4, <2>5, <2>6 DEF BootInv, Places
<1>5. QED
  BY <1>3, <1>4

LEMMA StopKeeps ==
    ASSUME BootInv, AppStop
    PROVE  BootInv'
<1>1. MotorInv' /\ AtRest' = AtRest
  BY MotorStays DEF AppStop
<1>2. stop' \in {Nothing, Mode("disable")}
  <2>1. CanRun(m, "disable") /\ "disable" \notin Conditional
    BY DEF CanRun, Conditional, Modes, PowerModes
  <2>2. QED
    BY <2>1 DEF AppStop, ModeSwitch
<1>3. fg = "stop" /\ fg' = IF stop' = Nothing THEN "send" ELSE "write"
  BY DEF AppStop, Foreground
<1>4. Mode("disable") # Nothing
  BY DEF Mode, Nothing
<1>5. LockInv' /\ DecisionInv' /\ AnswerInv'
  BY <1>1, <1>2, <1>3, <1>4 DEF AppStop, BootInv, LockInv, DecisionInv, AnswerInv
<1>6. QED
  BY <1>1, <1>3, <1>5 DEF AppStop, BootInv, Places

\* Only the foreground's own stop is written, and a motor at rest stays so.
LEMMA WriteKeeps ==
    ASSUME BootInv, AppWrite
    PROVE  BootInv'
<1>1. stop = Mode("disable") /\ fg = "write"
  BY DEF AppWrite, Foreground, BootInv, DecisionInv
<1>2. m' = [m EXCEPT !.mode = "disable"] /\ m \in MotorSet
  BY <1>1 DEF AppWrite, Written, Mode, BootInv, MotorInv, MotorTypeOK
<1>3. Tame(m, m')
  <2>1. Mode("disable") \in Writes
    BY DEF Mode, Writes, Modes
  <2>2. QED
    BY <1>1, <1>2, <2>1, WritesTame DEF AppWrite
<1>4. MotorInv'
  <2>1. Safe(m')
    BY <1>2, <1>3, TameIsSafe DEF BootInv, MotorInv
  <2>2. QED
    BY <1>3, <2>1 DEF AppWrite, BootInv, MotorInv, MotorTypeOK, Tame, Safe
<1>5. AtRest => AtRest'
  BY <1>2 DEF AtRest, MotorSet
<1>6. m'.locked = m.locked
  BY <1>3 DEF Tame
<1>7. LockInv' /\ DecisionInv' /\ AnswerInv'
  BY <1>1, <1>5, <1>6 DEF AppWrite, BootInv, LockInv, DecisionInv, AnswerInv
<1>8. QED
  BY <1>4, <1>7 DEF AppWrite, BootInv, Places

LEMMA ReplyKeeps ==
    ASSUME BootInv, NEW what \in {"ok", "fail"}, AppReply(what)
    PROVE  BootInv'
<1>1. MotorInv' /\ AtRest' = AtRest
  BY MotorStays DEF AppReply
<1>2. fg = what /\ fg' = "send" /\ stop = Nothing /\ boot.pending /\ stop' = stop
      /\ m' = m /\ can' = can
  BY DEF AppReply, Foreground, BootInv, DecisionInv, LockInv
<1>3. CASE TxFree
  <2>1. tx' = [what |-> what, sent |-> FALSE]
        /\ boot' = [boot EXCEPT !.queued = TRUE, !.told = 0]
    BY <1>3 DEF AppReply
  <2>2. /\ boot' \in BootSet /\ boot'.queued /\ boot'.pending = boot.pending
        /\ boot'.failed = boot.failed
    <3>1. 0 \in Ages /\ boot \in BootSet
      BY LimitAssumption DEF Ages, BootInv
    <3>2. boot' \in BootSet
      BY <2>1, <3>1, Zenon DEF BootSet
    <3>3. QED
      BY <2>1, <3>1, <3>2 DEF BootSet
  <2>3. LockInv' /\ DecisionInv' /\ AnswerInv'
    BY <1>1, <1>2, <2>1, <2>2 DEF BootInv, LockInv, DecisionInv, AnswerInv
  <2>4. QED
    BY <1>1, <1>2, <2>1, <2>2, <2>3 DEF BootInv, Places, TxSet
<1>4. CASE ~TxFree
  <2>1. UNCHANGED <<tx, boot>>
    BY <1>4 DEF AppReply
  <2>2. LockInv' /\ DecisionInv' /\ AnswerInv'
    BY <1>1, <1>2, <2>1 DEF BootInv, LockInv, DecisionInv, AnswerInv
  <2>3. QED
    BY <1>1, <1>2, <2>1, <2>2 DEF BootInv, Places
<1>5. QED
  BY <1>3, <1>4

\* A frame checked before the request came may still go, but no later one.
LEMMA SendKeeps ==
    ASSUME BootInv, SendCheck \/ SendOther
    PROVE  BootInv'
<1>1. MotorInv' /\ AtRest' = AtRest
  BY MotorStays DEF SendCheck, SendOther
<1>2. CASE SendCheck
  <2>1. LockInv' /\ DecisionInv' /\ AnswerInv'
    BY <1>1, <1>2 DEF SendCheck, Foreground, BootInv, LockInv, DecisionInv, AnswerInv
  <2>2. QED
    BY <1>1, <1>2, <2>1 DEF SendCheck, BootInv, Places
<1>3. CASE SendOther
  <2>1. /\ fg = "sending" /\ fg' = "save" /\ ~boot.queued
        /\ tx' = tx \/ tx' = [what |-> "other", sent |-> FALSE]
    BY <1>3 DEF SendOther, Foreground, BootInv, DecisionInv
  <2>2. LockInv' /\ DecisionInv' /\ AnswerInv'
    BY <1>1, <1>3, <2>1 DEF SendOther, BootInv, LockInv, DecisionInv, AnswerInv
  <2>3. QED
    BY <1>1, <1>3, <2>1, <2>2 DEF SendOther, BootInv, Places, TxSet
<1>4. QED
  BY <1>2, <1>3

LEMMA SaveKeeps ==
    ASSUME BootInv, Save
    PROVE  BootInv'
<1>1. MotorInv'
  BY MotorStep DEF Save, BootInv, MotorNext
<1>2. UNCHANGED <<boot, stop, tx>> /\ fg = "save" /\ fg' = "poll"
  BY DEF Save, Foreground
<1>3. can' = can /\ m'.locked = m.locked /\ (AtRest => AtRest')
  <2>1. CASE SavePoll
    <3>1. Tame(m, m') /\ ~AtRest
      BY <2>1, SaveStep DEF SavePoll, AtRest, BootInv, MotorInv
    <3>2. QED
      BY <2>1, <3>1 DEF SavePoll, Tame
  <2>2. CASE UNCHANGED motorVars
    BY <2>2 DEF motorVars, AtRest
  <2>3. QED
    BY <2>1, <2>2 DEF Save
<1>4. LockInv' /\ DecisionInv' /\ AnswerInv'
  BY <1>2, <1>3 DEF BootInv, LockInv, DecisionInv, AnswerInv
<1>5. QED
  BY <1>1, <1>2, <1>4 DEF BootInv, Places

LEMMA BootStep == BootInv /\ [BootNext]_bootVars => BootInv'
<1> SUFFICES ASSUME BootInv, [BootNext]_bootVars PROVE BootInv'
  OBVIOUS
<1>1. CASE (Tick \/ CanStep \/ TimTemperature \/ TimStep) /\ UNCHANGED <<boot, fg, stop, tx>>
  BY <1>1, TickKeeps, CanKeeps, TimKeeps
<1>2. CASE \E c \in Commands : Frame(c)
  BY <1>2, FrameKeeps
<1>3. CASE BootFrame \/ Millisecond \/ Transmit
  BY <1>3, BootFrameKeeps, MillisecondKeeps, TransmitKeeps
<1>4. CASE Loop
  BY <1>4, PollKeeps, StopKeeps, WriteKeeps, ReplyKeeps, SendKeeps, SaveKeeps DEF Loop
<1>5. CASE UNCHANGED bootVars
  <2>1. MotorInv' /\ AtRest' = AtRest
    BY <1>5, MotorStays DEF bootVars
  <2>2. LockInv' /\ DecisionInv' /\ AnswerInv'
    BY <1>5, <2>1 DEF bootVars, BootInv, LockInv, DecisionInv, AnswerInv
  <2>3. QED
    BY <1>5, <2>1, <2>2 DEF bootVars, BootInv
<1>6. QED
  BY <1>1, <1>2, <1>3, <1>4, <1>5 DEF BootNext

-----------------------------------------------------------------------------

(* The inductive invariant of a handover.                                  *)
THEOREM BootInvariance == BootSpec => []BootInv
<1>1. QED
  BY BootInitInv, BootStep, PTL DEF BootSpec

(* Type correctness, and that the lock is on exactly while a request is    *)
(* pending (interface_can.c:910).                                          *)
THEOREM BootTypeCorrect == BootSpec => []BootTypeOK
<1>1. QED
  BY BootInvariance, BootMeans, PTL

(* The firmware resets only at rest, after an OK that has left the bus     *)
(* (boot_handoff.c:64).                                                    *)
THEOREM ResetsOnlyWhenSafe == BootSpec => []ResetOnlyWhenSafe
<1>1. QED
  BY BootInvariance, BootMeans, PTL

(* A host that was told OK has a motor that stays at rest                  *)
(* (boot_handoff.c:51).                                                    *)
THEOREM OkIsKept == BootSpec => []OkMeansStopped
<1>1. QED
  BY BootInvariance, BootMeans, PTL

(* No other frame follows the answer (boot_handoff_app.c:32,               *)
(* interface_can.c:978).                                                   *)
THEOREM AnswersAreLast == BootSpec => []AnswerIsLast
<1>1. QED
  BY BootInvariance, BootMeans, PTL
=============================================================================
