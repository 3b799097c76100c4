----------------------------- MODULE Calibration -----------------------------
(***************************************************************************)
(* The encoder calibrations: the linearization table from an open-loop     *)
(* sweep (mode 5, "offset") or from the sensorless observer (mode 13,      *)
(* "observer"), and the electrical zero (mode 15, "zero").                 *)
(*                                                                         *)
(* They are long sequences of ticks over statics that outlive them: one    *)
(* CalibStep and one workspace for both tables, in which the candidate     *)
(* table overlays the sample counts, and the counters of the zero.         *)
(* EncoderCalibration_Reset, in the tick that sees the motor stopped,      *)
(* is all that separates one calibration from the next.                    *)
(*                                                                         *)
(* Angles, currents and the observer are left out: what a tick makes of    *)
(* them (locked, stable, enough, timed out, refused) is nondeterministic.  *)
(* MotorMode has the fault machine around this; here a fault is a fault.   *)
(*                                                                         *)
(* An operator marked "Variant" is the definition below it with one        *)
(* mistake, which a property must notice.                                  *)
(***************************************************************************)
EXTENDS Naturals

CONSTANTS
    Bins,       \* ENCODER_OFFSET_LUT_SIZE
    Patience,   \* ticks that any stage with a time limit may last
    HoldTicks   \* ticks of the electrical zero's ramp, and again of its hold

ASSUME CalibrationAssumption ==
    /\ Bins \in Nat \ {0}
    /\ Patience \in Nat
    /\ HoldTicks \in Nat

Table == 0 .. Bins - 1

Calibrations == {"offset", "observer", "zero"}
Commands     == Calibrations \cup {"save", "default", "clear", "disable"}

OffsetSteps   == {"align", "align_loop", "ramp", "sample", "end"}
ObserverSteps == {"start_pwm", "origin", "wait", "stable", "find", "sampling",
                  "build", "verify", "decel", "current", "commit"}

(* A cell of the workspace by what it holds: an error sum or its mean, a   *)
(* count below or above the least number of samples, an entry of the       *)
(* candidate; "bad" is what an earlier calibration left (for all that is   *)
(* known of it), or a value computed from such.                            *)
SumCells    == {"clear", "sum", "mean", "bad"}
SharedCells == {"clear", "few", "enough", "candidate", "bad"}

VARIABLES
    s,          \* mode, error, outputs, CalibStep and the calibrations' statics
    enc,        \* the encoder: its table and its electrical zero
    can,        \* the mode the receive interrupt is about to write
    slipped     \* history: a calibration was left without a reset, see Slips

vars == <<s, enc, can, slipped>>

(* How the table in force came about; whether calib_flag has the zero, and *)
(* if so, measured with this table or another.                             *)
Zeros    == {"none", "this", "other"}
Encoders == [table : {"sound", "unsound"}, zero : Zeros]

Init ==
    /\ s = [mode |-> "disable", last |-> "disable", err |-> FALSE, on |-> FALSE,
            step |-> "null", held |-> FALSE,
            sum |-> [b \in Table |-> "bad"], shared |-> [b \in Table |-> "bad"],
            index |-> 0, stage |-> 0, ticks |-> 0, verified |-> FALSE,
            n |-> 0, samples |-> "none"]
    /\ enc \in [table : {"sound"}, zero : {"none", "this"}]
    /\ can = "none"
    /\ slipped = FALSE

-----------------------------------------------------------------------------
(* Building blocks.  Each maps the statics, or both records, on.           *)

All(cell) == [b \in Table |-> cell]

(* Encoder_Calib_Abort: the workspace is released, its contents stay and   *)
(* are of no run now; the mode stays.                                      *)
Abort(x) == [x EXCEPT !.step = "null", !.held = FALSE,
                      !.sum = All("bad"), !.shared = All("bad")]

\* Variant: the zero's counters are left to the next run.
ResetSteps(x) == Abort(x)

\* EncoderCalibration_Reset.
Reset(x) == [Abort(x) EXCEPT !.n = 0, !.samples = "none"]

Failed(x) == [x EXCEPT !.err = TRUE]

\* Encoder_ObserverCalib_Abort.
ObserverAbort(x) == [Abort(x) EXCEPT !.on = FALSE, !.mode = "disable"]

Refused(x) == ObserverAbort(Failed(x))

Go(x, step) == [x EXCEPT !.step = step, !.ticks = 0]

\* A stage with a time limit: it goes on, is done, or time is up.
Timed(x, done, late) ==
    {done} \cup (IF x.ticks < Patience THEN {[x EXCEPT !.ticks = @ + 1]} ELSE {late})

\* One sample into a bin, which may be the last it needs.
Counts(c) ==
    CASE c = "clear"  -> {"few", "enough"}
      [] c = "few"    -> {"few", "enough"}
      [] c = "enough" -> {"enough"}
      [] OTHER        -> {"bad"}

Sampled(x) ==
    UNION {{[x EXCEPT !.sum[b] = IF @ \in {"clear", "sum"} THEN "sum" ELSE "bad",
                      !.shared[b] = c] : c \in Counts(x.shared[b])} : b \in Table}

Averaged(x, b, least) ==
    IF x.sum[b] = "sum" /\ x.shared[b] \in least THEN "mean" ELSE "bad"

(* An entry of the candidate is a mean less the shift, which depends on    *)
(* all of them.                                                            *)
Entry(x) == IF \A b \in Table : x.sum[b] = "mean" THEN "candidate" ELSE "bad"

\* Encoder_Calib_CommitCandidateLut: whatever was measured before is void.
CommitTable(e, sound) ==
    [e EXCEPT !.table = IF sound THEN "sound" ELSE "unsound", !.zero = "none"]

Whole(x) == \A b \in Table : x.shared[b] = "candidate"

\* A table is replaced, and the save asked for; samples of a zero are old now.
Installed(x, e, sound) ==
    <<[Abort(x) EXCEPT !.mode = "save",
                       !.samples = IF @ = "none" THEN @ ELSE "other"],
      CommitTable(e, sound)>>

Kept(xs, e) == xs \X {e}

-----------------------------------------------------------------------------
(* Task_Calib_EncoderOffset, which does not look at the error word.        *)

\* Encoder_Calib_BuildLut(1U): sums to means, then means to the candidate.
Built(x) ==
    LET y == [x EXCEPT !.sum = [b \in Table |-> Averaged(x, b, {"few", "enough"})]]
    IN  [y EXCEPT !.shared = [b \in Table |-> Entry(y)]]

\* Encoder_Calib_Finalize; a bin without samples or an overflow refuses.
OffsetEnd(x, e) ==
    {<<Abort(Failed(x)), e>>}
    \cup (IF x.held /\ \A b \in Table : x.shared[b] # "clear"
          THEN {Installed(Built(x), e, Whole(Built(x)))} ELSE {})

OffsetStep(x, e) ==
    CASE x.step = "null" ->
           Kept({Go(x, "align")}, e)
      [] x.step = "align" ->
           Kept({[Go(x, "align_loop") EXCEPT !.held = TRUE,
                    !.sum = All("clear"), !.shared = All("clear")]}, e)
      [] x.step = "align_loop" -> Kept({x, Go(x, "ramp")}, e)
      [] x.step = "ramp"       -> Kept({x, Go(x, "sample")} \cup Sampled(Go(x, "sample")), e)
      [] x.step = "sample"     -> Kept({x, Abort(Failed(x)), Go(x, "end")} \cup Sampled(x), e)
      [] x.step = "end"        -> OffsetEnd(x, e)
      [] OTHER                 -> Kept({Abort(x)}, e)

\* An encoder off line or a bad parameter ends it at any step.
OffsetTask(x, e) == OffsetStep(x, e) \cup {<<Abort(Failed(x)), e>>}

-----------------------------------------------------------------------------
(* Task_Calib_EncoderObserver.                                             *)

\* The workspace is cleared piecewise while the rotor is aligned.
Origin(x) ==
    LET y == IF x.index = Bins THEN x
             ELSE [x EXCEPT !.sum[x.index] = "clear", !.shared[x.index] = "clear",
                            !.index = @ + 1]
        left == IF y.index < Bins THEN Refused(y) ELSE Go(y, "wait")
    IN  Timed(y, left, left) \cup {Refused(y)}

\* Variant: a tick that is not stable starts the time limit again.
StableAgain(x) == {[x EXCEPT !.ticks = 0]} \cup Timed(x, Go(x, "find"), Refused(x))

Stable(x) == Timed(x, Go(x, "find"), Refused(x))

Sampling(x) ==
    LET done(y) == [Go(y, "build") EXCEPT !.index = 0, !.stage = 0]
    IN  UNION {Timed(y, done(y), Refused(y)) : y \in Sampled(x) \cup {x}}

\* One bin further, or to the next pass over the table.
Onward(x) ==
    IF x.index + 1 < Bins THEN [x EXCEPT !.index = @ + 1]
    ELSE [x EXCEPT !.index = 0, !.stage = @ + 1]

\* Variant: an entry replaces its count while other means are still missing.
BuildAtOnce(x) ==
    LET c == x.shared[x.index]
    IN  CASE x.stage = 0 -> IF c \in {"clear", "few"} THEN {} ELSE {Onward(x)}
          [] x.stage \in {1, 2} ->
               {Onward([x EXCEPT !.sum[x.index] = Averaged(x, x.index, {"enough"}),
                                !.shared[x.index] = Entry(x)])}
          [] OTHER -> {Go(x, "verify")}

(* The passes over the table: are there enough samples, the means, their   *)
(* average, the candidate over the counts; an overflow refuses.            *)
Build(x) ==
    LET b == x.index
    IN  CASE x.stage = 0 -> IF x.shared[b] \in {"clear", "few"} THEN {} ELSE {Onward(x)}
          [] x.stage = 1 -> {Onward([x EXCEPT !.sum[b] = Averaged(x, b, {"enough"})])}
          [] x.stage = 2 -> {Onward(x)}
          [] OTHER ->
               LET y == [x EXCEPT !.shared[b] = Entry(x)]
               IN  {IF b + 1 < Bins THEN Onward(y) ELSE Go(y, "verify")}

Verify(x) ==
    Timed(x, [Go(x, "decel") EXCEPT !.verified = TRUE], Refused(x))

\* Encoder_ObserverCalib_StopForCommit: outputs off in a tick of its own.
StopForCommit(x) == [x EXCEPT !.on = FALSE, !.step = "commit"]

Decel(x) ==
    {StopForCommit(x)} \cup Timed(x, Go(x, "current"), Refused(x))

Current(x) == Timed(x, StopForCommit(x), StopForCommit(x))

Begin(x) ==
    [Go(x, "start_pwm") EXCEPT !.held = TRUE, !.index = 0, !.stage = 0,
        !.verified = FALSE]

ObserverStep(x, e) ==
    CASE x.step = "commit" ->
           {Installed(x, e, Whole(x) /\ x.verified /\ ~x.on)}
      [] x.step = "null"      -> Kept({Begin(x)}, e)
      [] x.step = "start_pwm" -> Kept({Go(x, "origin")}, e)
      [] x.step = "origin"    -> Kept(Origin(x), e)
      [] x.step = "wait"      -> Kept(Timed(x, Go(x, "stable"), Refused(x)), e)
      [] x.step = "stable"    -> Kept(Stable(x), e)
      [] x.step = "find"      -> Kept(Timed(x, Go(x, "sampling"), Refused(x)), e)
      [] x.step = "sampling"  -> Kept(Sampling(x), e)
      [] x.step = "build"     -> Kept(Build(x), e)
      [] x.step = "verify"    -> Kept(Verify(x), e)
      [] x.step = "decel"     -> Kept(Decel(x), e)
      [] x.step = "current"   -> Kept(Current(x), e)
      [] OTHER                -> Kept({Refused(x)}, e)

(* A fault raised earlier in the tick comes before anything is installed;  *)
(* so does an encoder off line, a parameter or the thermal limit.          *)
ObserverTask(x, e) ==
    IF x.err THEN {<<ObserverAbort(x), e>>}
    ELSE ObserverStep(x, e) \cup {<<Refused(x), e>>, <<Failed(x), e>>}

-----------------------------------------------------------------------------
(* Task_Calib_EleAngelOffset.                                              *)

\* One sample, if the frame was read.
ZeroSample(x) ==
    IF x.n < HoldTicks THEN {x}
    ELSE {x, [x EXCEPT !.samples = IF @ = "other" THEN @ ELSE "this"]}

ZeroDone(x) == [x EXCEPT !.n = 0, !.samples = "none"]

\* The average becomes the zero; without a sample, or off line, it fails.
ZeroEnd(x, e) ==
    {<<Failed(ZeroDone(x)), e>>}
    \cup (IF x.samples = "none" THEN {}
          ELSE {<<[ZeroDone(x) EXCEPT !.mode = "save"],
                  [e EXCEPT !.zero = x.samples]>>})

ZeroTask(x, e) ==
    LET first == x.n = 0
        y == IF first THEN [x EXCEPT !.samples = "none"] ELSE x
        f == IF first THEN [e EXCEPT !.zero = "none"] ELSE e
    IN  {<<Failed(ZeroDone(x)), e>>, <<Failed(x), e>>}
        \cup UNION {IF x.n < 2 * HoldTicks THEN {<<[z EXCEPT !.n = @ + 1], f>>}
                    ELSE ZeroEnd(z, f) : z \in ZeroSample(y)}

\* Task_TryClearError: a thermal trip stays until the winding is cool.
ClearTask(x, e) ==
    {<<[x EXCEPT !.mode = "disable", !.err = f], e>> : f \in {FALSE, x.err}}

\* Param_Return_Default, and the fall through into Clear_Error.
DefaultTask(x, e) ==
    ClearTask([x EXCEPT !.samples = IF @ = "none" THEN @ ELSE "other"],
              CommitTable(e, TRUE))

-----------------------------------------------------------------------------
(* The 20 kHz tick.                                                        *)

(* Sensors may raise a fault; a bad profile or a thermal trip stops the    *)
(* mode as well.                                                           *)
Upset(x) ==
    {x, Failed(x)}
    \cup (IF x.mode \in Calibrations \cup {"default"}
          THEN {[Failed(x) EXCEPT !.mode = "disable"]} ELSE {})

Task(x, e) ==
    CASE x.mode = "offset"   -> OffsetTask(x, e)
      [] x.mode = "observer" -> ObserverTask(x, e)
      [] x.mode = "zero"     -> ZeroTask(x, e)
      [] x.mode = "default"  -> DefaultTask(x, e)
      [] x.mode = "clear"    -> ClearTask(x, e)
      [] OTHER               -> {<<x, e>>}

\* An error ends every mode but a save.
Disarm(x) == IF x.err /\ x.mode # "save" THEN [x EXCEPT !.mode = "disable"] ELSE x

(* A stop resets what was running; a start that was only prepared counts,  *)
(* although ModeLast has not seen it.                                      *)
Quiet(x) ==
    IF x.mode = "disable" /\ (x.last # "disable" \/ x.on \/ x.step = "start_pwm")
    THEN [Reset(x) EXCEPT !.on = FALSE]
    ELSE IF x.mode = "save" THEN [x EXCEPT !.on = FALSE]
    ELSE x

(* Power goes on in the tick after a stop, for the observer calibration    *)
(* in the one after it was prepared.                                       *)
Energise(x, primed) ==
    LET starts == x.last = "disable" /\ x.mode \in Calibrations
        defers == starts /\ x.mode = "observer" /\ ~primed
    IN  [x EXCEPT !.on = @ \/ (starts /\ ~defers), !.last = IF defers THEN @ ELSE x.mode]

Settle(y, primed) == Energise(Quiet(Disarm(y)), primed)

Primed(x) == x.mode = "observer" /\ x.step = "start_pwm"

(* A calibration escapes the reset if a fault ends it in the tick that     *)
(* begins it, before ModeLast and the outputs tell of it; or if its STOP   *)
(* and the next start both come between two ticks (Start).                 *)
Slips(x, y) ==
    x.last = "disable" /\ x.mode \in Calibrations /\ y.last = "disable" /\ y.mode = "disable"

Tick ==
    /\ \E x \in Upset(s) : \E r \in Task(x, enc) :
         /\ s' = Settle(r[1], Primed(x))
         /\ enc' = r[2]
    /\ slipped' = (slipped \/ Slips(s, s'))
    /\ UNCHANGED can

-----------------------------------------------------------------------------
(* The receive interrupt: ModeSwitch_Handle, cut before its write; other   *)
(* conditions may refuse, with or without a fault.                         *)

Accepts(c) ==
    \/ ~s.err /\ s.mode = "disable"
    \/ ~s.err /\ s.mode \in Calibrations /\ c = "disable"
    \/ c = "clear"

CanCheck(c) ==
    /\ can = "none"
    /\ \/ Accepts(c) /\ can' = c /\ UNCHANGED s
       \/ c \in Calibrations \cup {"default"} /\ can' = can /\ s' = Failed(s)
    /\ UNCHANGED <<enc, slipped>>

CanWrite ==
    /\ can # "none"
    /\ s' = [s EXCEPT !.mode = can]
    /\ slipped' = (slipped \/ (can \notin {"disable", "clear"} /\ s.last \in Calibrations))
    /\ can' = "none"
    /\ UNCHANGED enc

\* ParameterPersistence_Poll in the foreground, with interrupts masked.
Save ==
    /\ can = "none"
    /\ s.mode = "save" /\ s.last = "save"
    /\ s' \in {IF failed THEN [s EXCEPT !.mode = "disable", !.err = TRUE, !.on = FALSE]
               ELSE [s EXCEPT !.mode = "disable"] : failed \in {s.on, TRUE}}
    /\ UNCHANGED <<enc, can, slipped>>

Next ==
    \/ Tick
    \/ \E c \in Commands : CanCheck(c)
    \/ CanWrite
    \/ Save

Spec == Init /\ [][Next]_vars

\* The timer never stops.
FairSpec == Spec /\ WF_vars(Tick)

-----------------------------------------------------------------------------
(* Properties                                                              *)

(* The table in force is a candidate of one run, every entry of it built   *)
(* from counts and sums of that run although both share one store, and one *)
(* the observer calibration installs was verified and is installed with    *)
(* the outputs off (foc_calibration.c:175) - whatever ran before, was      *)
(* aborted half-way or was swapped for another between two ticks.          *)
InstalledIsSound == enc.table = "sound"

AtRest == s.mode = "disable" /\ s.last = "disable" /\ can = "none"

(* Calibrations leave nothing to each other: at rest nothing is under way  *)
(* but a start the next tick will release, and the zero in force was       *)
(* measured, from the first sample to the last, with the table in force -  *)
(* as long as none slipped past the reset.                                 *)
RunsAreSeparate ==
    ~slipped => /\ AtRest => s.step \in {"null", "start_pwm"} /\ s.n = 0
                /\ enc.zero # "other"

Bounded == s.mode \in {"observer", "zero"}

(* Every stage of the observer calibration and of the electrical zero has  *)
(* a time limit or an end of its own: neither drives the motor for ever,   *)
(* whatever encoder and observer report.                                   *)
CalibrationEnds == Bounded ~> ~Bounded
=============================================================================
