------------------------- MODULE Calibration_proofs -------------------------
(***************************************************************************)
(* Proof that every table the calibrations install is sound, for any       *)
(* number of bins and any time limits.                                     *)
(***************************************************************************)
EXTENDS Calibration, TLAPS

Steps == {"null"} \cup OffsetSteps \cup ObserverSteps

States ==
    [mode : Commands, last : Commands, err : BOOLEAN, on : BOOLEAN,
     step : Steps, held : BOOLEAN,
     sum : [Table -> SumCells], shared : [Table -> SharedCells],
     index : 0 .. Bins, stage : Nat, ticks : Nat, verified : BOOLEAN,
     n : Nat, samples : Zeros]

TypeOK ==
    /\ s \in States
    /\ enc \in Encoders
    /\ can \in Commands \cup {"none"}
    /\ slipped \in BOOLEAN

-----------------------------------------------------------------------------
(* What each step knows of the workspace.                                  *)

ClearCell(x, b)    == x.sum[b] = "clear" /\ x.shared[b] = "clear"
GatheredCell(x, b) == ClearCell(x, b) \/ (x.sum[b] = "sum" /\ x.shared[b] \in {"few", "enough"})

Gathered(x) == \A b \in Table : GatheredCell(x, b)

CellsOrdered(x) ==
    /\ x.step = "start_pwm" => x.index = 0
    /\ x.step = "origin" => \A b \in Table : b < x.index => ClearCell(x, b)

CellsFresh(x) ==
    x.step \in {"wait", "stable", "find"} => \A b \in Table : ClearCell(x, b)

CellsGathered(x) ==
    x.step \in {"align_loop", "ramp", "sample", "end", "sampling"} => Gathered(x)

(* The passes of "build": the counts are enough up to the cursor, then the *)
(* sums are means up to it, then all are, then the candidate replaces the  *)
(* counts up to it.                                                        *)
CellsBuilt(x) ==
    x.step = "build" =>
        /\ x.index < Bins
        /\ \A b \in Table :
             CASE x.stage = 0 -> GatheredCell(x, b) /\ (b < x.index => x.shared[b] = "enough")
               [] x.stage = 1 -> /\ x.shared[b] = "enough"
                                 /\ x.sum[b] = (IF b < x.index THEN "mean" ELSE "sum")
               [] x.stage = 2 -> x.sum[b] = "mean"
               [] OTHER       -> x.sum[b] = "mean" /\ (b < x.index => x.shared[b] = "candidate")

CellsWhole(x) ==
    /\ x.step \in {"verify", "decel", "current", "commit"} => Whole(x)
    /\ x.step \in {"decel", "current", "commit"} => x.verified

WorkInv(x) ==
    CellsOrdered(x) /\ CellsFresh(x) /\ CellsGathered(x) /\ CellsBuilt(x) /\ CellsWhole(x)

(* A commit finds the outputs off, since they go on only after a stop, and *)
(* a stop seen by the tick resets the steps.                               *)
Underway == ObserverSteps \ {"start_pwm"}

CommitQuiet(x) == x.step = "commit" => ~x.on

Good(x) ==
    /\ x \in States
    /\ WorkInv(x)
    /\ CommitQuiet(x)
    /\ x.step \in Underway => x.last # "disable"

(* The same between the task and the end of the tick: the first step is    *)
(* taken before the power is on.                                           *)
Fair(x, primed) ==
    /\ x \in States
    /\ WorkInv(x)
    /\ CommitQuiet(x)
    /\ x.step \in Underway =>
         \/ x.last # "disable"
         \/ x.step = "origin" /\ x.mode = "observer" /\ ~x.err /\ primed

CalibInv ==
    /\ TypeOK
    /\ Good(s)
    /\ InstalledIsSound

-----------------------------------------------------------------------------
(* Small moves.                                                            *)

\* Nothing is known, and nothing claimed, of a released workspace.
LEMMA NullGood ==
    ASSUME NEW x \in States, x.step \in {"null", "align"}, NEW p
    PROVE  Good(x) /\ Fair(x, p)
BY DEF Good, Fair, WorkInv, CellsOrdered, CellsFresh, CellsGathered, CellsBuilt, CellsWhole,
       CommitQuiet, Underway, ObserverSteps

\* Nor of one only prepared, but that it will be cleared from its first cell.
LEMMA PreparedGood ==
    ASSUME NEW x \in States, x.step = "start_pwm", x.index = 0, NEW p
    PROVE  Good(x) /\ Fair(x, p)
BY DEF Good, Fair, WorkInv, CellsOrdered, CellsFresh, CellsGathered, CellsBuilt, CellsWhole,
       CommitQuiet, Underway, ObserverSteps

LEMMA GoodFair ==
    ASSUME NEW x, Good(x), NEW p
    PROVE  Fair(x, p)
BY DEF Good, Fair

\* The workspace invariant looks at the workspace and its cursors only.
LEMMA SameWork ==
    ASSUME NEW x \in States, NEW y \in States, WorkInv(x),
           y.step = x.step, y.sum = x.sum, y.shared = x.shared, y.index = x.index,
           y.stage = x.stage, y.verified = x.verified
    PROVE  WorkInv(y)
BY DEF WorkInv, CellsOrdered, CellsFresh, CellsGathered, CellsBuilt, CellsWhole,
       Gathered, GatheredCell, ClearCell, Whole

LEMMA Aborts ==
    ASSUME NEW x \in States
    PROVE  Abort(x) \in States /\ Abort(x).step = "null"
<1>1. All("bad") \in [Table -> SumCells] /\ All("bad") \in [Table -> SharedCells]
  BY DEF All, SumCells, SharedCells
<1>. QED  BY <1>1 DEF Abort, States, Steps

LEMMA Refuses ==
    ASSUME NEW x \in States, NEW p
    PROVE  /\ Good(Refused(x)) /\ Fair(Refused(x), p)
           /\ Good(ObserverAbort(x)) /\ Fair(ObserverAbort(x), p)
<1>1. Failed(x) \in States
  BY DEF Failed, States
<1>2. ASSUME NEW y \in States
      PROVE  ObserverAbort(y) \in States /\ ObserverAbort(y).step = "null"
  <2>. DEFINE a == Abort(y)
  <2>1. a \in States /\ a.step = "null"
    BY Aborts
  <2>2. ObserverAbort(y) = [a EXCEPT !.on = FALSE, !.mode = "disable"]
    BY DEF ObserverAbort
  <2>. HIDE DEF a
  <2>. QED  BY <2>1, <2>2 DEF States, Commands
<1>. QED  BY <1>1, <1>2, NullGood DEF Refused

LEMMA FailsGood ==
    ASSUME NEW x, Good(x), NEW p
    PROVE  Good(Failed(x)) /\ Fair(Failed(x), p)
<1>1. Failed(x) \in States
  BY DEF Failed, States, Good
<1>2. WorkInv(Failed(x))
  BY <1>1, SameWork DEF Failed, States, Good
<1>3. Good(Failed(x))
  BY <1>1, <1>2 DEF Failed, States, Good, CommitQuiet
<1>. QED  BY <1>3, GoodFair

LEMMA Counted ==
    ASSUME NEW x, Good(x), NEW p
    PROVE  Fair([x EXCEPT !.ticks = @ + 1], p)
<1>. DEFINE y == [x EXCEPT !.ticks = @ + 1]
<1>1. y \in States
  BY DEF States, Good
<1>2. WorkInv(y)
  BY <1>1, SameWork DEF States, Good
<1>3. Good(y)
  BY <1>1, <1>2 DEF States, Good, CommitQuiet
<1>. QED  BY <1>3, GoodFair

LEMMA TimedCases ==
    ASSUME NEW x, NEW done, NEW late, NEW y \in Timed(x, done, late)
    PROVE  y \in {done, late, [x EXCEPT !.ticks = @ + 1]}
BY DEF Timed

\* A move to a step whose cells are known.
LEMMA Goes ==
    ASSUME NEW x \in States, NEW k \in Steps
    PROVE  /\ Go(x, k) \in States
           /\ Go(x, k).step = k /\ Go(x, k).last = x.last /\ Go(x, k).on = x.on
           /\ Go(x, k).mode = x.mode /\ Go(x, k).err = x.err
           /\ Go(x, k).sum = x.sum /\ Go(x, k).shared = x.shared
           /\ Go(x, k).index = x.index /\ Go(x, k).stage = x.stage
           /\ Go(x, k).verified = x.verified
BY DEF Go, States

-----------------------------------------------------------------------------
(* Samples and tables.                                                     *)

LEMMA SampleKeeps ==
    ASSUME NEW x \in States, Gathered(x), NEW y \in Sampled(x)
    PROVE  /\ y \in States /\ Gathered(y)
           /\ y.step = x.step /\ y.last = x.last /\ y.on = x.on
           /\ y.mode = x.mode /\ y.err = x.err
<1>0. PICK b \in Table :
        \E c \in Counts(x.shared[b]) :
          y = [x EXCEPT !.sum[b] = IF @ \in {"clear", "sum"} THEN "sum" ELSE "bad",
                        !.shared[b] = c]
  BY DEF Sampled
<1>1. PICK c \in Counts(x.shared[b]) :
        y = [x EXCEPT !.sum[b] = IF @ \in {"clear", "sum"} THEN "sum" ELSE "bad",
                      !.shared[b] = c]
  BY <1>0
<1>2. GatheredCell(x, b)
  BY DEF Gathered
<1>3. x.sum[b] \in {"clear", "sum"} /\ x.shared[b] \in {"clear", "few", "enough"}
  BY <1>2 DEF GatheredCell, ClearCell
<1>4. c \in {"few", "enough"}
  BY <1>3, <1>1 DEF Counts
<1>5. y = [x EXCEPT !.sum = [@ EXCEPT ![b] = "sum"], !.shared = [@ EXCEPT ![b] = c]]
  BY <1>1, <1>3 DEF States
<1>6. y \in States
  BY <1>5, <1>4 DEF States, SumCells, SharedCells
<1>7. ASSUME NEW d \in Table
      PROVE  GatheredCell(y, d)
  BY <1>5, <1>4 DEF States, Gathered, GatheredCell, ClearCell
<1>. QED  BY <1>5, <1>6, <1>7 DEF States, Gathered

\* Of one run's sums, with a sample in every bin, the whole table is built.
LEMMA BuiltWhole ==
    ASSUME NEW x \in States, Gathered(x), \A b \in Table : x.shared[b] # "clear"
    PROVE  Built(x) \in States /\ Whole(Built(x))
<1>. DEFINE f == [b \in Table |-> Averaged(x, b, {"few", "enough"})]
            y == [x EXCEPT !.sum = f]
<1>1. ASSUME NEW b \in Table
      PROVE  f[b] = "mean"
  BY DEF Gathered, GatheredCell, ClearCell, Averaged
<1>2. f \in [Table -> SumCells]
  BY <1>1 DEF SumCells
<1>3. y \in States /\ y.sum = f
  BY <1>2 DEF States
<1>4. Entry(y) = "candidate"
  BY <1>1, <1>3 DEF Entry
<1>5. Built(x) = [y EXCEPT !.shared = [b \in Table |-> Entry(y)]]
  BY DEF Built
<1>6. [b \in Table |-> Entry(y)] \in [Table -> SharedCells]
  BY <1>4 DEF SharedCells
<1>7. Built(x) \in States /\ Built(x).shared = [b \in Table |-> Entry(y)]
  BY <1>3, <1>5, <1>6 DEF States
<1>. QED  BY <1>7, <1>4 DEF Whole

LEMMA InstalledGood ==
    ASSUME NEW x \in States, NEW e \in Encoders, NEW p
    PROVE  LET r == Installed(x, e, TRUE)
           IN  /\ Fair(r[1], p)
               /\ r[2] \in Encoders /\ r[2].table = "sound"
<1>. DEFINE a == Abort(x)
            y == [a EXCEPT !.mode = "save",
                           !.samples = IF @ = "none" THEN @ ELSE "other"]
<1>0. a \in States /\ a.step = "null"
  BY Aborts
<1>1. y \in States /\ y.step = "null"
  <2>. HIDE DEF a
  <2>. QED  BY <1>0 DEF States, Commands, Zeros
<1>2. Fair(y, p)
  <2>. HIDE DEF y
  <2>. QED  BY <1>1, NullGood
<1>3. CommitTable(e, TRUE) \in Encoders /\ CommitTable(e, TRUE).table = "sound"
  BY DEF CommitTable, Encoders, Zeros
<1>. QED  BY <1>2, <1>3 DEF Installed

-----------------------------------------------------------------------------
(* Outcomes of a task: the statics and the encoder.                        *)

OkPair(r, p) == Fair(r[1], p) /\ r[2] \in Encoders /\ r[2].table = "sound"

LEMMA KeptOk ==
    ASSUME NEW xs, NEW e \in Encoders, e.table = "sound", NEW p,
           \A y \in xs : Fair(y, p),
           NEW r \in Kept(xs, e)
    PROVE  OkPair(r, p)
BY DEF Kept, OkPair

LEMMA PairOk ==
    ASSUME NEW y, NEW e \in Encoders, e.table = "sound", NEW p, Fair(y, p)
    PROVE  OkPair(<<y, e>>, p)
BY DEF OkPair

LEMMA AbortOk ==
    ASSUME NEW x \in States, NEW p
    PROVE  Fair(Abort(x), p) /\ Fair(Abort(Failed(x)), p)
<1>1. Failed(x) \in States
  BY DEF Failed, States
<1>. QED  BY <1>1, Aborts, NullGood

LEMMA GatheredGood ==
    ASSUME NEW y \in States, y.step \in {"align_loop", "ramp", "sample", "end"}, Gathered(y),
           NEW p
    PROVE  Fair(y, p)
BY DEF Fair, WorkInv, CellsOrdered, CellsFresh, CellsGathered, CellsBuilt, CellsWhole,
       CommitQuiet, Underway, ObserverSteps

LEMMA OffsetAlign ==
    ASSUME NEW x \in States, NEW p
    PROVE  Fair([Go(x, "align_loop") EXCEPT !.held = TRUE,
                    !.sum = All("clear"), !.shared = All("clear")], p)
<1>. DEFINE g == Go(x, "align_loop")
            y == [g EXCEPT !.held = TRUE, !.sum = All("clear"), !.shared = All("clear")]
<1>1. g \in States /\ g.step = "align_loop"
  BY Goes DEF Steps, OffsetSteps
<1>2. All("clear") \in [Table -> SumCells] /\ All("clear") \in [Table -> SharedCells]
  BY DEF All, SumCells, SharedCells
<1>3. /\ y \in States /\ y.step = "align_loop"
      /\ y.sum = All("clear") /\ y.shared = All("clear")
  <2>. HIDE DEF g
  <2>. QED  BY <1>1, <1>2 DEF States
<1>4. Gathered(y)
  <2>. HIDE DEF y
  <2>. QED  BY <1>3 DEF All, Gathered, GatheredCell, ClearCell
<1>5. Fair(y, p)
  <2>. HIDE DEF y
  <2>. QED  BY <1>3, <1>4, GatheredGood
<1>. QED  BY <1>5

\* Mode 5 installs nothing but the table of its own sweep.
LEMMA OffsetOk ==
    ASSUME NEW x, Good(x), NEW e \in Encoders, e.table = "sound", NEW p,
           NEW r \in OffsetTask(x, e)
    PROVE  OkPair(r, p)
<1>1. x \in States /\ CellsGathered(x) /\ Fair(x, p)
  BY GoodFair DEF Good, WorkInv
<1>2. Fair(Abort(x), p) /\ Fair(Abort(Failed(x)), p)
  BY <1>1, AbortOk
<1>3. CASE r = <<Abort(Failed(x)), e>>
  BY <1>3, <1>2, PairOk
<1>4. CASE r \in OffsetStep(x, e)
  <2>1. CASE x.step = "null"
    <3>1. Go(x, "align") \in States /\ Go(x, "align").step = "align"
      BY <1>1, Goes DEF Steps, OffsetSteps
    <3>2. Fair(Go(x, "align"), p)
      BY <3>1, NullGood
    <3>3. r \in Kept({Go(x, "align")}, e)
      BY <2>1, <1>4 DEF OffsetStep
    <3>. QED  BY <3>2, <3>3, KeptOk
  <2>2. CASE x.step = "align"
    <3>1. r \in Kept({[Go(x, "align_loop") EXCEPT !.held = TRUE,
                         !.sum = All("clear"), !.shared = All("clear")]}, e)
      BY <2>2, <1>4 DEF OffsetStep
    <3>. QED  BY <3>1, <1>1, OffsetAlign, KeptOk
  <2>3. CASE x.step = "align_loop"
    <3>1. Go(x, "ramp") \in States /\ Go(x, "ramp").step = "ramp" /\ Gathered(Go(x, "ramp"))
      BY <2>3, <1>1, Goes DEF Steps, OffsetSteps, CellsGathered, Gathered, GatheredCell, ClearCell
    <3>2. Fair(Go(x, "ramp"), p)
      BY <3>1, GatheredGood
    <3>3. r \in Kept({x, Go(x, "ramp")}, e)
      BY <2>3, <1>4 DEF OffsetStep
    <3>. QED  BY <3>2, <3>3, <1>1, KeptOk
  <2>4. CASE x.step = "ramp"
    <3>. DEFINE g == Go(x, "sample")
    <3>1. g \in States /\ g.step = "sample" /\ Gathered(g)
      BY <2>4, <1>1, Goes DEF Steps, OffsetSteps, CellsGathered, Gathered, GatheredCell, ClearCell
    <3>2. \A y \in {x, g} \cup Sampled(g) : Fair(y, p)
      <4>. HIDE DEF g
      <4>. QED  BY <3>1, <1>1, GatheredGood, SampleKeeps
    <3>3. r \in Kept({x, g} \cup Sampled(g), e)
      BY <2>4, <1>4 DEF OffsetStep
    <3>. QED  BY <3>2, <3>3, KeptOk
  <2>5. CASE x.step = "sample"
    <3>. DEFINE g == Go(x, "end")
    <3>1. g \in States /\ g.step = "end" /\ Gathered(g) /\ Gathered(x)
      BY <2>5, <1>1, Goes DEF Steps, OffsetSteps, CellsGathered, Gathered, GatheredCell, ClearCell
    <3>2. \A y \in {x, Abort(Failed(x)), g} \cup Sampled(x) : Fair(y, p)
      <4>. HIDE DEF g
      <4>. QED  BY <2>5, <3>1, <1>1, <1>2, GatheredGood, SampleKeeps
    <3>3. r \in Kept({x, Abort(Failed(x)), g} \cup Sampled(x), e)
      BY <2>5, <1>4 DEF OffsetStep
    <3>. QED  BY <3>2, <3>3, KeptOk
  <2>6. CASE x.step = "end"
    <3>1. CASE r = <<Abort(Failed(x)), e>>
      BY <3>1, <1>2, PairOk
    <3>2. CASE r # <<Abort(Failed(x)), e>>
      <4>1. /\ \A b \in Table : x.shared[b] # "clear"
            /\ r = Installed(Built(x), e, Whole(Built(x)))
        BY <3>2, <2>6, <1>4 DEF OffsetStep, OffsetEnd
      <4>2. Gathered(x)
        BY <2>6, <1>1 DEF CellsGathered
      <4>3. Built(x) \in States /\ Whole(Built(x)) = TRUE
        BY <4>1, <4>2, <1>1, BuiltWhole DEF Whole
      <4>4. r = Installed(Built(x), e, TRUE)
        BY <4>1, <4>3
      <4>. QED  BY <4>3, <4>4, InstalledGood DEF OkPair
    <3>. QED  BY <3>1, <3>2
  <2>7. CASE x.step \notin {"null"} \cup OffsetSteps
    <3>1. r \in Kept({Abort(x)}, e)
      BY <2>7, <1>4 DEF OffsetStep, OffsetSteps
    <3>. QED  BY <3>1, <1>2, KeptOk
  <2>. QED  BY <2>1, <2>2, <2>3, <2>4, <2>5, <2>6, <2>7 DEF OffsetSteps
<1>. QED  BY <1>3, <1>4 DEF OffsetTask

-----------------------------------------------------------------------------
(* The stages of the observer calibration, once its power is on.           *)

Running(x) == Good(x) /\ x.step \in Underway

LEMMA RunningFacts ==
    ASSUME NEW x, Running(x), NEW p
    PROVE  /\ x \in States /\ WorkInv(x) /\ CommitQuiet(x) /\ x.last # "disable"
           /\ Fair(x, p) /\ Fair(Refused(x), p) /\ Fair([x EXCEPT !.ticks = @ + 1], p)
BY GoodFair, Refuses, Counted DEF Running, Good

\* What is left to show of a new step.
LEMMA StageGood ==
    ASSUME NEW y \in States, y.last # "disable", WorkInv(y), CommitQuiet(y), NEW p
    PROVE  Good(y) /\ Fair(y, p)
BY DEF Good, Fair

LEMMA GatheredStage ==
    ASSUME NEW y \in States, y.last # "disable", y.step = "sampling", Gathered(y), NEW p
    PROVE  Good(y) /\ Fair(y, p)
BY StageGood DEF WorkInv, CellsOrdered, CellsFresh, CellsGathered, CellsBuilt, CellsWhole, CommitQuiet

LEMMA FreshStage ==
    ASSUME NEW y \in States, y.last # "disable", y.step \in {"wait", "stable", "find"},
           \A b \in Table : ClearCell(y, b), NEW p
    PROVE  Good(y) /\ Fair(y, p)
BY StageGood DEF WorkInv, CellsOrdered, CellsFresh, CellsGathered, CellsBuilt, CellsWhole, CommitQuiet

LEMMA BuildStage ==
    ASSUME NEW y \in States, y.last # "disable", y.step = "build", CellsBuilt(y), NEW p
    PROVE  Good(y) /\ Fair(y, p)
BY StageGood DEF WorkInv, CellsOrdered, CellsFresh, CellsGathered, CellsWhole, CommitQuiet

LEMMA WholeStage ==
    ASSUME NEW y \in States, y.last # "disable", Whole(y),
           \/ y.step = "verify"
           \/ y.step \in {"decel", "current"} /\ y.verified
           \/ y.step = "commit" /\ y.verified /\ ~y.on,
           NEW p
    PROVE  Good(y) /\ Fair(y, p)
BY StageGood DEF WorkInv, CellsOrdered, CellsFresh, CellsGathered, CellsBuilt, CellsWhole, CommitQuiet

LEMMA OriginOk ==
    ASSUME NEW x, Running(x), x.step = "origin", NEW p, NEW z \in Origin(x)
    PROVE  Fair(z, p)
<1>. DEFINE y == IF x.index = Bins THEN x
                 ELSE [x EXCEPT !.sum[x.index] = "clear", !.shared[x.index] = "clear",
                                !.index = @ + 1]
            left == IF y.index < Bins THEN Refused(y) ELSE Go(y, "wait")
<1>1. /\ x \in States /\ x.last # "disable" /\ CommitQuiet(x)
      /\ \A b \in Table : b < x.index => ClearCell(x, b)
  BY RunningFacts DEF WorkInv, CellsOrdered
<1>2. /\ y \in States /\ y.last = x.last /\ y.on = x.on /\ y.step = "origin"
      /\ \A b \in Table : b < y.index => ClearCell(y, b)
  <2>1. CASE x.index = Bins
    BY <2>1, <1>1
  <2>2. CASE x.index # Bins
    <3>1. x.index \in Table /\ x.index + 1 \in 0 .. Bins
      BY <2>2, <1>1, CalibrationAssumption DEF States, Table
    <3>2. y = [x EXCEPT !.sum = [@ EXCEPT ![x.index] = "clear"],
                        !.shared = [@ EXCEPT ![x.index] = "clear"], !.index = @ + 1]
      BY <2>2
    <3>3. y \in States /\ y.last = x.last /\ y.on = x.on /\ y.step = "origin"
      BY <3>1, <3>2, <1>1 DEF States, SumCells, SharedCells
    <3>4. ASSUME NEW b \in Table, b < y.index
          PROVE  ClearCell(y, b)
      <4>1. y.index = x.index + 1
        BY <3>2, <1>1 DEF States
      <4>2. b = x.index \/ b < x.index
        BY <4>1, <3>1, <3>4 DEF Table
      <4>. QED  BY <3>2, <3>1, <4>2, <1>1 DEF States, ClearCell
    <3>. QED  BY <3>3, <3>4
  <2>. QED  BY <2>1, <2>2
<1>. HIDE DEF y
<1>3. Good(y)
  <2>1. WorkInv(y) /\ CommitQuiet(y)
    BY <1>2 DEF WorkInv, CellsOrdered, CellsFresh, CellsGathered, CellsBuilt, CellsWhole, CommitQuiet
  <2>. QED  BY <2>1, <1>1, <1>2, StageGood
<1>4. Fair(Refused(y), p) /\ Fair([y EXCEPT !.ticks = @ + 1], p)
  BY <1>2, <1>3, Refuses, Counted
<1>5. Fair(left, p)
  <2>1. CASE y.index < Bins
    BY <2>1, <1>4
  <2>2. CASE ~(y.index < Bins)
    <3>. DEFINE g == Go(y, "wait")
    <3>1. \A b \in Table : b < y.index
      BY <2>2, <1>2, CalibrationAssumption DEF States, Table
    <3>2. /\ g \in States /\ g.step = "wait" /\ g.last # "disable"
          /\ \A b \in Table : ClearCell(g, b)
      BY <3>1, <1>1, <1>2, Goes DEF Steps, ObserverSteps, ClearCell
    <3>3. Fair(g, p)
      <4>. HIDE DEF g
      <4>. QED  BY <3>2, FreshStage
    <3>. QED  BY <3>3, <2>2
  <2>. QED  BY <2>1, <2>2
<1>. HIDE DEF left
<1>6. z \in Timed(y, left, left) \cup {Refused(y)}
  BY DEF Origin, left, y
<1>. QED  BY <1>4, <1>5, <1>6, TimedCases

\* The stages that only wait for the observer.
LEMMA WaitOk ==
    ASSUME NEW x, Running(x), x.step \in {"wait", "stable", "find"}, NEW p,
           NEW k \in {"stable", "find", "sampling"}, NEW z \in Timed(x, Go(x, k), Refused(x))
    PROVE  Fair(z, p)
<1>. DEFINE g == Go(x, k)
<1>1. x \in States /\ x.last # "disable" /\ \A b \in Table : ClearCell(x, b)
  BY RunningFacts DEF WorkInv, CellsFresh
<1>2. /\ g \in States /\ g.step = k /\ g.last # "disable"
      /\ \A b \in Table : ClearCell(g, b)
  BY <1>1, Goes DEF Steps, ObserverSteps, ClearCell
<1>3. Fair(g, p)
  <2>. HIDE DEF g
  <2>. QED  BY <1>2, FreshStage, GatheredStage DEF Gathered, GatheredCell
<1>4. z \in {g, Refused(x), [x EXCEPT !.ticks = @ + 1]}
  BY TimedCases
<1>. HIDE DEF g
<1>. QED  BY <1>3, <1>4, RunningFacts

LEMMA SamplingOk ==
    ASSUME NEW x, Running(x), x.step = "sampling", NEW p, NEW z \in Sampling(x)
    PROVE  Fair(z, p)
<1>1. x \in States /\ x.last # "disable" /\ Gathered(x)
  BY RunningFacts DEF WorkInv, CellsGathered
<1>2. PICK y \in Sampled(x) \cup {x} :
        z \in Timed(y, [Go(y, "build") EXCEPT !.index = 0, !.stage = 0], Refused(y))
  BY DEF Sampling
<1>3. y \in States /\ y.last # "disable" /\ y.step = "sampling" /\ Gathered(y)
  BY <1>1, <1>2, SampleKeeps
<1>4. Good(y) /\ Fair([y EXCEPT !.ticks = @ + 1], p) /\ Fair(Refused(y), p)
  BY <1>3, GatheredStage, Counted, Refuses
<1>. DEFINE g == Go(y, "build")
            done == [g EXCEPT !.index = 0, !.stage = 0]
<1>5. /\ g \in States /\ g.step = "build" /\ g.last # "disable"
      /\ g.sum = y.sum /\ g.shared = y.shared
  BY <1>3, Goes DEF Steps, ObserverSteps
<1>6. /\ done \in States /\ done.step = "build" /\ done.last # "disable"
      /\ done.sum = y.sum /\ done.shared = y.shared /\ done.index = 0 /\ done.stage = 0
  <2>. HIDE DEF g
  <2>1. 0 \in 0 .. Bins
    BY CalibrationAssumption
  <2>. QED  BY <1>5, <2>1 DEF States
<1>7. Fair(done, p)
  <2>. HIDE DEF done
  <2>1. CellsBuilt(done)
    BY <1>3, <1>6, CalibrationAssumption DEF CellsBuilt, Gathered, GatheredCell, ClearCell, Table
  <2>. QED  BY <2>1, <1>6, BuildStage
<1>. HIDE DEF done
<1>8. z \in Timed(y, done, Refused(y))
  BY <1>2 DEF done
<1>. QED  BY <1>4, <1>7, <1>8, TimedCases

\* Onward leaves the workspace alone and keeps the cursor in the table.
LEMMA OnwardKeeps ==
    ASSUME NEW x \in States, x.index \in Table
    PROVE  LET y == Onward(x)
           IN  /\ y \in States /\ y.step = x.step /\ y.last = x.last
               /\ y.sum = x.sum /\ y.shared = x.shared /\ y.index \in Table
               /\ \/ y.index = x.index + 1 /\ y.stage = x.stage
                  \/ y.index = 0 /\ y.stage = x.stage + 1 /\ x.index = Bins - 1
<1>1. x.index \in Nat /\ Bins \in Nat \ {0} /\ x.index < Bins
  BY CalibrationAssumption DEF Table
<1>2. CASE x.index + 1 < Bins
  <2>. DEFINE y == [x EXCEPT !.index = @ + 1]
  <2>1. x.index + 1 \in 0 .. Bins /\ x.index + 1 \in Table
    BY <1>1, <1>2 DEF Table
  <2>2. y \in States
    BY <2>1 DEF States
  <2>3. /\ y.step = x.step /\ y.last = x.last /\ y.sum = x.sum /\ y.shared = x.shared
        /\ y.index = x.index + 1 /\ y.stage = x.stage
    BY DEF States
  <2>4. Onward(x) = y
    BY <1>2 DEF Onward
  <2>. HIDE DEF y
  <2>. QED  BY <2>1, <2>2, <2>3, <2>4
<1>3. CASE ~(x.index + 1 < Bins)
  <2>1. 0 \in 0 .. Bins /\ 0 \in Table /\ x.index = Bins - 1
    BY <1>1, <1>3 DEF Table
  <2>. DEFINE n == x.stage + 1
              y == [x EXCEPT !.index = 0, !.stage = n]
  <2>0. n \in Nat
    BY DEF States
  <2>2. y \in States
    <3>. HIDE DEF n
    <3>. QED  BY <2>0, <2>1 DEF States
  <2>3. /\ y.step = x.step /\ y.last = x.last /\ y.sum = x.sum /\ y.shared = x.shared
        /\ y.index = 0 /\ y.stage = x.stage + 1
    BY DEF States
  <2>4. Onward(x) = y
    BY <1>3 DEF Onward
  <2>. HIDE DEF y
  <2>. QED  BY <2>1, <2>2, <2>3, <2>4
<1>. QED  BY <1>2, <1>3

LEMMA BuildOk ==
    ASSUME NEW x, Running(x), x.step = "build", NEW p, NEW z \in Build(x)
    PROVE  Fair(z, p)
<1>. DEFINE i == x.index
<1>1. x \in States /\ x.last # "disable" /\ CellsBuilt(x)
  BY RunningFacts DEF WorkInv
<1>2. i \in Table /\ \A b \in Table : b \in Nat /\ b <= Bins - 1
  BY <1>1, CalibrationAssumption DEF CellsBuilt, States, Table
<1>3. CASE x.stage = 0
  <2>1. z = Onward(x) /\ x.shared[i] \notin {"clear", "few"}
    BY <1>3 DEF Build
  <2>2. \A b \in Table : GatheredCell(x, b) /\ (b < i => x.shared[b] = "enough")
    BY <1>1, <1>3 DEF CellsBuilt
  <2>3. x.shared[i] = "enough"
    BY <2>1, <2>2, <1>2 DEF GatheredCell, ClearCell
  <2>4. \A b \in Table : b < i + 1 => x.shared[b] = "enough"
    BY <2>2, <2>3, <1>2
  <2>5. \A b \in Table : x.shared[b] = "enough" => x.sum[b] = "sum"
    BY <2>2 DEF GatheredCell, ClearCell
  <2>6. /\ z \in States /\ z.step = "build" /\ z.last # "disable"
        /\ z.sum = x.sum /\ z.shared = x.shared /\ z.index \in Table
        /\ \/ z.index = i + 1 /\ z.stage = 0
           \/ z.index = 0 /\ z.stage = 1 /\ i = Bins - 1
    BY <2>1, <1>1, <1>2, <1>3, OnwardKeeps
  <2>7. CellsBuilt(z)
    <3>1. z.index < Bins
      BY <2>6, <1>2, CalibrationAssumption DEF Table
    <3>2. CASE z.index = i + 1 /\ z.stage = 0
      BY <3>1, <3>2, <2>2, <2>4, <2>6 DEF CellsBuilt, GatheredCell, ClearCell
    <3>3. CASE z.index = 0 /\ z.stage = 1 /\ i = Bins - 1
      <4>1. \A b \in Table : x.shared[b] = "enough" /\ ~(b < 0)
        BY <3>3, <2>4, <1>2, CalibrationAssumption
      <4>. QED  BY <4>1, <3>1, <3>3, <2>5, <2>6 DEF CellsBuilt
    <3>. QED  BY <3>2, <3>3, <2>6
  <2>. QED  BY <2>6, <2>7, BuildStage
<1>4. CASE x.stage = 1
  <2>. DEFINE y == [x EXCEPT !.sum[i] = Averaged(x, i, {"enough"})]
  <2>1. \A b \in Table : x.shared[b] = "enough" /\ x.sum[b] = (IF b < i THEN "mean" ELSE "sum")
    BY <1>1, <1>4 DEF CellsBuilt
  <2>2. Averaged(x, i, {"enough"}) = "mean"
    BY <2>1, <1>2 DEF Averaged
  <2>3. y = [x EXCEPT !.sum = [@ EXCEPT ![i] = "mean"]]
    BY <2>2
  <2>4. /\ y \in States /\ y.step = "build" /\ y.last = x.last /\ y.index = i /\ y.stage = 1
        /\ y.shared = x.shared /\ y.sum = [x.sum EXCEPT ![i] = "mean"]
    BY <2>3, <1>1, <1>2, <1>4 DEF States, SumCells
  <2>5. \A b \in Table : y.sum[b] = (IF b < i + 1 THEN "mean" ELSE "sum")
    BY <2>4, <2>1, <1>1, <1>2 DEF States
  <2>6. z = Onward(y)
    BY <1>4 DEF Build
  <2>. HIDE DEF y
  <2>7. /\ z \in States /\ z.step = "build" /\ z.last # "disable"
        /\ z.sum = y.sum /\ z.shared = x.shared /\ z.index \in Table
        /\ \/ z.index = i + 1 /\ z.stage = 1
           \/ z.index = 0 /\ z.stage = 2 /\ i = Bins - 1
    BY <2>4, <2>6, <1>1, <1>2, OnwardKeeps
  <2>8. CellsBuilt(z)
    <3>1. z.index < Bins
      BY <2>7, <1>2, CalibrationAssumption DEF Table
    <3>2. CASE z.index = i + 1 /\ z.stage = 1
      BY <3>1, <3>2, <2>1, <2>5, <2>7 DEF CellsBuilt
    <3>3. CASE z.index = 0 /\ z.stage = 2 /\ i = Bins - 1
      <4>1. \A b \in Table : y.sum[b] = "mean"
        BY <3>3, <2>5, <1>2, CalibrationAssumption
      <4>. QED  BY <4>1, <3>1, <3>3, <2>7 DEF CellsBuilt
    <3>. QED  BY <3>2, <3>3, <2>7
  <2>. QED  BY <2>7, <2>8, BuildStage
<1>5. CASE x.stage = 2
  <2>1. z = Onward(x)
    BY <1>5 DEF Build
  <2>2. \A b \in Table : x.sum[b] = "mean"
    BY <1>1, <1>5 DEF CellsBuilt
  <2>3. /\ z \in States /\ z.step = "build" /\ z.last # "disable"
        /\ z.sum = x.sum /\ z.index \in Table
        /\ \/ z.index = i + 1 /\ z.stage = 2
           \/ z.index = 0 /\ z.stage = 3
    BY <2>1, <1>1, <1>2, <1>5, OnwardKeeps
  <2>4. CellsBuilt(z)
    <3>1. z.index < Bins /\ \A b \in Table : ~(b < 0)
      BY <2>3, <1>2, CalibrationAssumption DEF Table
    <3>. QED  BY <3>1, <2>2, <2>3 DEF CellsBuilt
  <2>. QED  BY <2>3, <2>4, BuildStage
<1>6. CASE x.stage \notin {0, 1, 2}
  <2>. DEFINE y == [x EXCEPT !.shared[i] = Entry(x)]
  <2>1. \A b \in Table : x.sum[b] = "mean" /\ (b < i => x.shared[b] = "candidate")
    BY <1>1, <1>6 DEF CellsBuilt
  <2>2. Entry(x) = "candidate"
    BY <2>1 DEF Entry
  <2>3. y = [x EXCEPT !.shared = [@ EXCEPT ![i] = "candidate"]]
    BY <2>2
  <2>4. /\ y \in States /\ y.step = "build" /\ y.last = x.last /\ y.index = i
        /\ y.stage = x.stage /\ y.sum = x.sum
        /\ y.shared = [x.shared EXCEPT ![i] = "candidate"]
    BY <2>3, <1>1, <1>2 DEF States, SharedCells
  <2>5. \A b \in Table : b < i + 1 => y.shared[b] = "candidate"
    BY <2>4, <2>1, <1>1, <1>2 DEF States
  <2>6. z = IF i + 1 < Bins THEN Onward(y) ELSE Go(y, "verify")
    BY <1>6 DEF Build
  <2>. HIDE DEF y
  <2>7. CASE i + 1 < Bins
    <3>1. /\ z \in States /\ z.step = "build" /\ z.last # "disable"
          /\ z.sum = x.sum /\ z.shared = y.shared /\ z.index \in Table
          /\ z.index = i + 1 /\ z.stage = x.stage
      BY <2>4, <2>6, <2>7, <1>1, <1>2, OnwardKeeps, CalibrationAssumption
    <3>2. CellsBuilt(z)
      BY <3>1, <2>1, <2>5, <2>7, <1>6 DEF CellsBuilt
    <3>. QED  BY <3>1, <3>2, BuildStage
  <2>8. CASE ~(i + 1 < Bins)
    <3>1. Whole(y)
      BY <2>5, <2>8, <1>2, CalibrationAssumption DEF Whole
    <3>2. z \in States /\ z.step = "verify" /\ z.last # "disable" /\ z.shared = y.shared
      BY <2>4, <2>6, <2>8, <1>1, Goes DEF Steps, ObserverSteps
    <3>. QED  BY <3>1, <3>2, WholeStage DEF Whole
  <2>. QED  BY <2>7, <2>8
<1>. QED  BY <1>3, <1>4, <1>5, <1>6

LEMMA VerifyOk ==
    ASSUME NEW x, Running(x), x.step = "verify", NEW p, NEW z \in Verify(x)
    PROVE  Fair(z, p)
<1>. DEFINE g == Go(x, "decel")
            done == [g EXCEPT !.verified = TRUE]
<1>1. x \in States /\ x.last # "disable" /\ Whole(x)
  BY RunningFacts DEF WorkInv, CellsWhole
<1>2. g \in States /\ g.step = "decel" /\ g.last # "disable" /\ g.shared = x.shared
  BY <1>1, Goes DEF Steps, ObserverSteps
<1>3. /\ done \in States /\ done.step = "decel" /\ done.last # "disable"
      /\ done.shared = x.shared /\ done.verified
  <2>. HIDE DEF g
  <2>. QED  BY <1>2 DEF States
<1>4. z \in {done, Refused(x), [x EXCEPT !.ticks = @ + 1]}
  BY TimedCases DEF Verify
<1>. HIDE DEF done
<1>5. Fair(done, p)
  BY <1>1, <1>3, WholeStage DEF Whole
<1>. QED  BY <1>4, <1>5, RunningFacts

LEMMA BrakeOk ==
    ASSUME NEW x, Running(x), x.step \in {"decel", "current"}, NEW p
    PROVE  Fair(StopForCommit(x), p) /\ Fair(Go(x, "current"), p)
<1>. DEFINE g == Go(x, "current")
<1>1. x \in States /\ x.last # "disable" /\ Whole(x) /\ x.verified
  BY RunningFacts DEF WorkInv, CellsWhole
<1>2. /\ g \in States /\ g.step = "current" /\ g.last # "disable"
      /\ g.shared = x.shared /\ g.verified
  BY <1>1, Goes DEF Steps, ObserverSteps
<1>3. Fair(g, p)
  <2>. HIDE DEF g
  <2>. QED  BY <1>1, <1>2, WholeStage DEF Whole
<1>4. /\ StopForCommit(x) \in States /\ StopForCommit(x).step = "commit"
      /\ StopForCommit(x).last # "disable" /\ StopForCommit(x).shared = x.shared
      /\ StopForCommit(x).verified /\ ~StopForCommit(x).on
  BY <1>1 DEF StopForCommit, States, Steps, ObserverSteps
<1>5. Fair(StopForCommit(x), p)
  BY <1>1, <1>4, WholeStage DEF Whole
<1>. QED  BY <1>3, <1>5

LEMMA DecelOk ==
    ASSUME NEW x, Running(x), x.step = "decel", NEW p, NEW z \in Decel(x)
    PROVE  Fair(z, p)
<1>1. z \in {StopForCommit(x), Go(x, "current"), Refused(x), [x EXCEPT !.ticks = @ + 1]}
  BY TimedCases DEF Decel
<1>. QED  BY <1>1, BrakeOk, RunningFacts

LEMMA CurrentOk ==
    ASSUME NEW x, Running(x), x.step = "current", NEW p, NEW z \in Current(x)
    PROVE  Fair(z, p)
<1>1. z \in {StopForCommit(x), [x EXCEPT !.ticks = @ + 1]}
  BY TimedCases DEF Current
<1>. QED  BY <1>1, BrakeOk, RunningFacts

LEMMA BeginOk ==
    ASSUME NEW x \in States, NEW p
    PROVE  Fair(Begin(x), p)
<1>. DEFINE g == Go(x, "start_pwm")
<1>1. g \in States /\ g.step = "start_pwm"
  BY Goes DEF Steps, ObserverSteps
<1>2. 0 \in 0 .. Bins
  BY CalibrationAssumption
<1>. DEFINE h == [g EXCEPT !.held = TRUE, !.verified = FALSE]
            y == [h EXCEPT !.index = 0, !.stage = 0]
<1>3. h \in States /\ h.step = "start_pwm"
  <2>. HIDE DEF g
  <2>. QED  BY <1>1 DEF States
<1>4. y \in States /\ y.step = "start_pwm" /\ y.index = 0
  <2>. HIDE DEF h
  <2>. QED  BY <1>2, <1>3 DEF States
<1>5. Begin(x) = y
  <2>. HIDE DEF g
  <2>1. g \in States
    BY <1>1
  <2>2. Begin(x) = [g EXCEPT !.held = TRUE, !.index = 0, !.stage = 0, !.verified = FALSE]
    BY DEF Begin, g
  <2>. QED  BY <2>1, <2>2 DEF States
<1>. HIDE DEF y
<1>. QED  BY <1>4, <1>5, PreparedGood

\* Power was prepared one tick ago; the first cell is the first to be cleared.
LEMMA StartOk ==
    ASSUME NEW x, Good(x), x.step = "start_pwm", x.mode = "observer", ~x.err,
           NEW p, p = Primed(x)
    PROVE  Fair(Go(x, "origin"), p)
<1>. DEFINE g == Go(x, "origin")
<1>1. x \in States /\ x.index = 0 /\ p
  BY DEF Good, WorkInv, CellsOrdered, Primed
<1>2. /\ g \in States /\ g.step = "origin" /\ g.index = 0
      /\ g.mode = "observer" /\ ~g.err
  BY <1>1, Goes DEF Steps, ObserverSteps
<1>3. \A b \in Table : ~(b < 0)
  BY CalibrationAssumption DEF Table
<1>. HIDE DEF g
<1>4. WorkInv(g)
  BY <1>2, <1>3 DEF WorkInv, CellsOrdered, CellsFresh, CellsGathered, CellsBuilt, CellsWhole
<1>5. Fair(g, p)
  BY <1>1, <1>2, <1>4 DEF Fair, CommitQuiet
<1>. QED  BY <1>5 DEF g

\* What is committed is whole, verified, and committed with the outputs off.
LEMMA CommitOk ==
    ASSUME NEW x, Running(x), x.step = "commit", NEW e \in Encoders, NEW p,
           NEW r, r = Installed(x, e, Whole(x) /\ x.verified /\ ~x.on)
    PROVE  OkPair(r, p)
<1>1. x \in States /\ (Whole(x) /\ x.verified /\ ~x.on) = TRUE
  BY RunningFacts DEF WorkInv, CellsWhole, CommitQuiet, Whole
<1>2. r = Installed(x, e, TRUE)
  BY <1>1
<1>3. x \in States
  BY <1>1
<1>. QED  BY ONLY <1>2, <1>3, e \in Encoders, InstalledGood DEF OkPair

LEMMA ObserverStepOk ==
    ASSUME NEW x, Good(x), x.mode = "observer", ~x.err, NEW e \in Encoders, e.table = "sound",
           NEW p, p = Primed(x), NEW r \in ObserverStep(x, e)
    PROVE  OkPair(r, p)
<1>1. x \in States /\ Fair(Refused(x), p)
  BY Refuses DEF Good
<1>2. CASE x.step = "commit"
  <2>1. Running(x) /\ r = Installed(x, e, Whole(x) /\ x.verified /\ ~x.on)
    BY <1>2 DEF ObserverStep, Running, Underway, ObserverSteps
  <2>. QED  BY <1>2, <2>1, CommitOk
<1>3. CASE x.step = "null"
  <2>1. r \in Kept({Begin(x)}, e)
    BY <1>3 DEF ObserverStep
  <2>. QED  BY <1>1, <2>1, BeginOk, KeptOk
<1>4. CASE x.step = "start_pwm"
  <2>1. r \in Kept({Go(x, "origin")}, e)
    BY <1>4 DEF ObserverStep
  <2>. QED  BY <1>4, <2>1, StartOk, KeptOk
<1>5. CASE x.step = "origin"
  <2>1. Running(x) /\ r \in Kept(Origin(x), e)
    BY <1>5 DEF ObserverStep, Running, Underway, ObserverSteps
  <2>. QED  BY <1>5, <2>1, OriginOk, KeptOk
<1>6. CASE x.step = "wait"
  <2>1. Running(x) /\ r \in Kept(Timed(x, Go(x, "stable"), Refused(x)), e)
    BY <1>6 DEF ObserverStep, Running, Underway, ObserverSteps
  <2>. QED  BY <1>6, <2>1, WaitOk, KeptOk
<1>7. CASE x.step = "stable"
  <2>1. Running(x) /\ r \in Kept(Timed(x, Go(x, "find"), Refused(x)), e)
    BY <1>7 DEF ObserverStep, Running, Underway, ObserverSteps, Stable
  <2>. QED  BY <1>7, <2>1, WaitOk, KeptOk
<1>8. CASE x.step = "find"
  <2>1. Running(x) /\ r \in Kept(Timed(x, Go(x, "sampling"), Refused(x)), e)
    BY <1>8 DEF ObserverStep, Running, Underway, ObserverSteps
  <2>. QED  BY <1>8, <2>1, WaitOk, KeptOk
<1>9. CASE x.step = "sampling"
  <2>1. Running(x) /\ r \in Kept(Sampling(x), e)
    BY <1>9 DEF ObserverStep, Running, Underway, ObserverSteps
  <2>. QED  BY <1>9, <2>1, SamplingOk, KeptOk
<1>10. CASE x.step = "build"
  <2>1. Running(x) /\ r \in Kept(Build(x), e)
    BY <1>10 DEF ObserverStep, Running, Underway, ObserverSteps
  <2>. QED  BY <1>10, <2>1, BuildOk, KeptOk
<1>11. CASE x.step = "verify"
  <2>1. Running(x) /\ r \in Kept(Verify(x), e)
    BY <1>11 DEF ObserverStep, Running, Underway, ObserverSteps
  <2>. QED  BY <1>11, <2>1, VerifyOk, KeptOk
<1>12. CASE x.step = "decel"
  <2>1. Running(x) /\ r \in Kept(Decel(x), e)
    BY <1>12 DEF ObserverStep, Running, Underway, ObserverSteps
  <2>. QED  BY <1>12, <2>1, DecelOk, KeptOk
<1>13. CASE x.step = "current"
  <2>1. Running(x) /\ r \in Kept(Current(x), e)
    BY <1>13 DEF ObserverStep, Running, Underway, ObserverSteps
  <2>. QED  BY <1>13, <2>1, CurrentOk, KeptOk
<1>14. CASE x.step \notin {"null"} \cup ObserverSteps
  <2>1. r \in Kept({Refused(x)}, e)
    BY <1>14 DEF ObserverStep, ObserverSteps
  <2>. QED  BY <1>1, <2>1, KeptOk
<1>. QED  BY <1>2, <1>3, <1>4, <1>5, <1>6, <1>7, <1>8, <1>9, <1>10, <1>11, <1>12, <1>13,
             <1>14 DEF ObserverSteps

LEMMA ObserverOk ==
    ASSUME NEW x, Good(x), x.mode = "observer", NEW e \in Encoders, e.table = "sound",
           NEW p, p = Primed(x), NEW r \in ObserverTask(x, e)
    PROVE  OkPair(r, p)
<1>1. /\ Fair(ObserverAbort(x), p) /\ Fair(Refused(x), p) /\ Fair(Failed(x), p)
  BY Refuses, FailsGood DEF Good
<1>2. CASE x.err
  <2>1. r = <<ObserverAbort(x), e>>
    BY <1>2 DEF ObserverTask
  <2>. QED  BY <1>1, <2>1, PairOk
<1>3. CASE ~x.err
  <2>1. r \in ObserverStep(x, e) \cup {<<Refused(x), e>>, <<Failed(x), e>>}
    BY <1>3 DEF ObserverTask
  <2>. QED  BY <1>1, <1>3, <2>1, ObserverStepOk, PairOk
<1>. QED  BY <1>2, <1>3

-----------------------------------------------------------------------------
(* The modes that leave the workspace alone, and the rest of the tick.     *)

\* Neither the mode nor the error nor the zero's counters are of the workspace.
LEMMA AsideGood ==
    ASSUME NEW x, Good(x), NEW y \in States,
           y.step = x.step, y.sum = x.sum, y.shared = x.shared, y.index = x.index,
           y.stage = x.stage, y.verified = x.verified,
           y.last = x.last, y.on => x.on, NEW p
    PROVE  Good(y) /\ Fair(y, p)
<1>1. WorkInv(y)
  BY SameWork DEF Good
<1>. QED  BY <1>1 DEF Good, Fair, CommitQuiet

\* The zero is a matter of the counters.
LEMMA CountersGood ==
    ASSUME NEW x, Good(x), NEW n \in Nat, NEW z \in Zeros
    PROVE  Good([x EXCEPT !.n = n, !.samples = z])
<1>. DEFINE y == [x EXCEPT !.n = n, !.samples = z]
<1>1. /\ x \in States /\ y \in States
      /\ y.step = x.step /\ y.sum = x.sum /\ y.shared = x.shared /\ y.index = x.index
      /\ y.stage = x.stage /\ y.verified = x.verified /\ y.last = x.last /\ y.on = x.on
  BY DEF Good, States
<1>. HIDE DEF y
<1>2. Good(y)
  BY <1>1, AsideGood
<1>. QED  BY <1>2 DEF y

LEMMA ModeGood ==
    ASSUME NEW x, Good(x), NEW m \in Commands, NEW f \in BOOLEAN, NEW p
    PROVE  LET y == [x EXCEPT !.mode = m, !.err = f]
           IN  Good(y) /\ Fair(y, p)
<1>. DEFINE y == [x EXCEPT !.mode = m, !.err = f]
<1>1. /\ x \in States /\ y \in States
      /\ y.step = x.step /\ y.sum = x.sum /\ y.shared = x.shared /\ y.index = x.index
      /\ y.stage = x.stage /\ y.verified = x.verified /\ y.last = x.last /\ y.on = x.on
  BY DEF Good, States
<1>. HIDE DEF y
<1>2. Good(y) /\ Fair(y, p)
  BY <1>1, AsideGood
<1>. QED  BY <1>2 DEF y

LEMMA ClearOk ==
    ASSUME NEW x, Good(x), NEW e \in Encoders, e.table = "sound", NEW p,
           NEW r \in ClearTask(x, e)
    PROVE  OkPair(r, p)
<1>1. PICK f \in {FALSE, x.err} : r = <<[x EXCEPT !.mode = "disable", !.err = f], e>>
  BY DEF ClearTask
<1>2. f \in BOOLEAN /\ "disable" \in Commands
  BY DEF Good, States, Commands
<1>. QED  BY <1>1, <1>2, ModeGood, PairOk

LEMMA DefaultOk ==
    ASSUME NEW x, Good(x), NEW e \in Encoders, NEW p, NEW r \in DefaultTask(x, e)
    PROVE  OkPair(r, p)
<1>. DEFINE z == IF x.samples = "none" THEN "none" ELSE "other"
            y == [x EXCEPT !.n = x.n, !.samples = z]
<1>1. x \in States /\ z \in Zeros /\ x.n \in Nat
  BY DEF Good, States, Zeros
<1>2. Good(y)
  <2>. HIDE DEF z
  <2>. QED  BY <1>1, CountersGood
<1>3. [x EXCEPT !.samples = IF @ = "none" THEN @ ELSE "other"] = y
  BY <1>1 DEF States
<1>4. CommitTable(e, TRUE) \in Encoders /\ CommitTable(e, TRUE).table = "sound"
  BY DEF CommitTable, Encoders, Zeros
<1>. HIDE DEF y
<1>5. r \in ClearTask(y, CommitTable(e, TRUE))
  BY <1>3 DEF DefaultTask
<1>. QED  BY <1>2, <1>4, <1>5, ClearOk

LEMMA ZeroOk ==
    ASSUME NEW x, Good(x), NEW e \in Encoders, e.table = "sound", NEW p,
           NEW r \in ZeroTask(x, e)
    PROVE  OkPair(r, p)
<1>. DEFINE y == IF x.n = 0 THEN [x EXCEPT !.samples = "none"] ELSE x
            f == IF x.n = 0 THEN [e EXCEPT !.zero = "none"] ELSE e
<1>1. x \in States /\ x.n \in Nat /\ x.err \in BOOLEAN /\ x.mode \in Commands
  BY DEF Good, States
<1>2. ASSUME NEW w, Good(w)
      PROVE  /\ Good(ZeroDone(w)) /\ Fair(ZeroDone(w), p)
             /\ Fair(Failed(w), p) /\ Fair(Failed(ZeroDone(w)), p)
             /\ w \in States
  <2>1. w \in States /\ 0 \in Nat /\ "none" \in Zeros
    BY <1>2 DEF Good, Zeros
  <2>2. Good(ZeroDone(w))
    BY <1>2, <2>1, CountersGood DEF ZeroDone
  <2>. QED  BY <1>2, <2>1, <2>2, FailsGood, GoodFair
<1>3. Good(y) /\ f \in Encoders /\ f.table = "sound"
  <2>1. "none" \in Zeros
    BY DEF Zeros
  <2>2. Good([x EXCEPT !.n = x.n, !.samples = "none"])
    BY <2>1, <1>1, CountersGood
  <2>3. [x EXCEPT !.n = x.n, !.samples = "none"] = [x EXCEPT !.samples = "none"]
    BY <1>1 DEF States
  <2>4. f \in Encoders /\ f.table = "sound"
    BY <2>1 DEF Encoders
  <2>. QED  BY <2>2, <2>3, <2>4
<1>4. CASE r \in {<<Failed(ZeroDone(x)), e>>, <<Failed(x), e>>}
  BY <1>4, <1>2, PairOk
<1>5. CASE r \notin {<<Failed(ZeroDone(x)), e>>, <<Failed(x), e>>}
  <2>. HIDE DEF y, f
  <2>1. PICK z \in ZeroSample(y) :
          r \in (IF x.n < 2 * HoldTicks THEN {<<[z EXCEPT !.n = @ + 1], f>>} ELSE ZeroEnd(z, f))
    BY <1>5 DEF ZeroTask, y, f
  <2>2. Good(z)
    <3>. DEFINE k == IF y.samples = "other" THEN "other" ELSE "this"
    <3>1. y \in States /\ y.n \in Nat /\ k \in Zeros
      BY <1>3 DEF Good, States, Zeros
    <3>2. Good([y EXCEPT !.n = y.n, !.samples = k])
      <4>. HIDE DEF k
      <4>. QED  BY <1>3, <3>1, CountersGood
    <3>3. [y EXCEPT !.n = y.n, !.samples = k]
            = [y EXCEPT !.samples = IF @ = "other" THEN @ ELSE "this"]
      BY <3>1 DEF States
    <3>4. z = y \/ z = [y EXCEPT !.samples = IF @ = "other" THEN @ ELSE "this"]
      BY <2>1 DEF ZeroSample
    <3>. QED  BY <3>2, <3>3, <3>4, <1>3
  <2>3. CASE x.n < 2 * HoldTicks
    <3>. DEFINE m == z.n + 1
    <3>1. z \in States /\ z.samples \in Zeros /\ m \in Nat
      BY <2>2 DEF Good, States
    <3>2. Good([z EXCEPT !.n = m, !.samples = z.samples])
      <4>. HIDE DEF m
      <4>. QED  BY <2>2, <3>1, CountersGood
    <3>3. [z EXCEPT !.n = m, !.samples = z.samples] = [z EXCEPT !.n = @ + 1]
      BY <3>1 DEF States
    <3>4. r = <<[z EXCEPT !.n = @ + 1], f>>
      BY <2>1, <2>3
    <3>. QED  BY <3>2, <3>3, <3>4, <1>3, GoodFair, PairOk
  <2>4. CASE ~(x.n < 2 * HoldTicks)
    <3>. DEFINE d == ZeroDone(z)
    <3>1. r \in ZeroEnd(z, f)
      BY <2>1, <2>4
    <3>2. CASE r = <<Failed(d), f>>
      BY <3>2, <1>2, <2>2, <1>3, PairOk
    <3>3. CASE r # <<Failed(d), f>>
      <4>1. r = <<[d EXCEPT !.mode = "save"], [f EXCEPT !.zero = z.samples]>>
        BY <3>1, <3>3 DEF ZeroEnd
      <4>2. Good(d) /\ d \in States /\ d.err \in BOOLEAN /\ "save" \in Commands
        <5>1. Good(d)
          BY <1>2, <2>2
        <5>. HIDE DEF d
        <5>. QED  BY <5>1 DEF Good, States, Commands
      <4>. HIDE DEF d
      <4>3. Fair([d EXCEPT !.mode = "save", !.err = d.err], p)
        BY <4>2, ModeGood
      <4>4. [d EXCEPT !.mode = "save", !.err = d.err] = [d EXCEPT !.mode = "save"]
        BY <4>2 DEF States
      <4>5. [f EXCEPT !.zero = z.samples] \in Encoders
            /\ [f EXCEPT !.zero = z.samples].table = "sound"
        BY <1>3, <2>2 DEF Encoders, Good, States
      <4>. QED  BY <4>1, <4>3, <4>4, <4>5, PairOk
    <3>. QED  BY <3>2, <3>3
  <2>. QED  BY <2>3, <2>4
<1>. QED  BY <1>4, <1>5

LEMMA TaskOk ==
    ASSUME NEW x, Good(x), NEW e \in Encoders, e.table = "sound",
           NEW r \in Task(x, e)
    PROVE  OkPair(r, Primed(x))
<1>1. CASE x.mode = "offset"
  BY <1>1, OffsetOk DEF Task
<1>2. CASE x.mode = "observer"
  BY <1>2, ObserverOk DEF Task
<1>3. CASE x.mode = "zero"
  BY <1>3, ZeroOk DEF Task
<1>4. CASE x.mode = "default"
  BY <1>4, DefaultOk DEF Task
<1>5. CASE x.mode = "clear"
  BY <1>5, ClearOk DEF Task
<1>6. CASE x.mode \notin {"offset", "observer", "zero", "default", "clear"}
  BY <1>6, GoodFair, PairOk DEF Task
<1>. QED  BY <1>1, <1>2, <1>3, <1>4, <1>5, <1>6

LEMMA UpsetGood ==
    ASSUME NEW x, Good(x), NEW y \in Upset(x)
    PROVE  Good(y)
<1>1. Good(Failed(x)) /\ x \in States
  BY FailsGood DEF Good
<1>2. Good([Failed(x) EXCEPT !.mode = "disable"])
  <2>1. TRUE \in BOOLEAN /\ "disable" \in Commands
    BY DEF Commands
  <2>2. Good([x EXCEPT !.mode = "disable", !.err = TRUE])
    BY <2>1, ModeGood
  <2>3. [x EXCEPT !.mode = "disable", !.err = TRUE] = [Failed(x) EXCEPT !.mode = "disable"]
    BY <1>1 DEF Failed, States
  <2>. QED  BY <2>2, <2>3
<1>. QED  BY <1>1, <1>2 DEF Upset

\* The end of the tick: what is still on its way has its power already, or
\* gets it now.
LEMMA SettleGood ==
    ASSUME NEW y, NEW p \in BOOLEAN, Fair(y, p)
    PROVE  Good(Settle(y, p))
<1>. DEFINE d == Disarm(y)
            q == Quiet(d)
            starts == q.last = "disable" /\ q.mode \in Calibrations
            defers == starts /\ q.mode = "observer" /\ ~p
            on   == q.on \/ (starts /\ ~defers)
            last == IF defers THEN q.last ELSE q.mode
            z == [q EXCEPT !.on = on, !.last = last]
<1>1. Fair(d, p) /\ (d.step = "start_pwm" => d.last = y.last)
  <2>1. CASE y.err /\ y.mode # "save"
    <3>1. d = [y EXCEPT !.mode = "disable"]
      BY <2>1 DEF Disarm
    <3>2. /\ y \in States /\ d \in States /\ d.step = y.step /\ d.last = y.last /\ d.on = y.on
          /\ d.sum = y.sum /\ d.shared = y.shared /\ d.index = y.index
          /\ d.stage = y.stage /\ d.verified = y.verified
      BY <3>1 DEF Fair, States, Commands
    <3>. HIDE DEF d
    <3>3. WorkInv(d)
      BY <3>2, SameWork DEF Fair
    <3>. QED  BY <2>1, <3>2, <3>3 DEF Fair, CommitQuiet
  <2>2. CASE ~(y.err /\ y.mode # "save")
    BY <2>2 DEF Disarm
  <2>. QED  BY <2>1, <2>2
<1>. HIDE DEF d
<1>2. /\ Fair(q, p)
      /\ q.mode = "disable" => q.step = "null" \/ (q.last = "disable" /\ ~q.on)
  <2>1. CASE d.mode = "disable" /\ (d.last # "disable" \/ d.on \/ d.step = "start_pwm")
    <3>. DEFINE a == Abort(d)
    <3>1. a \in States /\ a.step = "null"
      BY <1>1, Aborts DEF Fair
    <3>2. q = [[a EXCEPT !.n = 0, !.samples = "none"] EXCEPT !.on = FALSE]
      BY <2>1 DEF Quiet, Reset
    <3>. HIDE DEF a, q
    <3>3. q \in States /\ q.step = "null"
      BY <3>1, <3>2 DEF States, Zeros
    <3>. QED  BY <3>3, NullGood
  <2>2. CASE /\ ~(d.mode = "disable" /\ (d.last # "disable" \/ d.on \/ d.step = "start_pwm"))
             /\ d.mode = "save"
    <3>1. q = [d EXCEPT !.on = FALSE]
      BY <2>2 DEF Quiet
    <3>2. /\ d \in States /\ q \in States /\ q.step = d.step /\ q.last = d.last /\ ~q.on
          /\ q.sum = d.sum /\ q.shared = d.shared /\ q.index = d.index
          /\ q.stage = d.stage /\ q.verified = d.verified /\ q.mode = "save"
      BY <3>1, <2>2, <1>1 DEF Fair, States
    <3>. HIDE DEF q
    <3>3. WorkInv(q)
      BY <3>2, <1>1, SameWork DEF Fair
    <3>. QED  BY <1>1, <2>2, <3>2, <3>3 DEF Fair, CommitQuiet
  <2>3. CASE /\ ~(d.mode = "disable" /\ (d.last # "disable" \/ d.on \/ d.step = "start_pwm"))
             /\ d.mode # "save"
    BY <2>3, <1>1 DEF Quiet
  <2>. QED  BY <2>1, <2>2, <2>3
<1>. HIDE DEF q
<1>3. Settle(y, p) = z
  BY DEF Settle, Energise, q, d
<1>4. /\ q \in States /\ WorkInv(q) /\ on \in BOOLEAN /\ last \in Commands
  BY <1>2 DEF Fair, States
<1>5. q.step \in Underway => last # "disable"
  <2>. HAVE q.step \in Underway
  <2>1. q.last # "disable" \/ (q.step = "origin" /\ q.mode = "observer" /\ p)
    BY <1>2 DEF Fair
  <2>2. q.step # "null"
    BY DEF Underway, ObserverSteps
  <2>3. q.mode # "disable"
    BY <1>2, <2>1, <2>2
  <2>4. ~defers
    BY <2>1
  <2>. QED  BY <2>3, <2>4
<1>6. q.step = "commit" => ~on
  <2>. HAVE q.step = "commit"
  <2>1. q.last # "disable" /\ ~q.on
    BY <1>2 DEF Fair, CommitQuiet, Underway, ObserverSteps
  <2>. QED  BY <2>1
<1>. HIDE DEF on, last
<1>7. /\ z \in States /\ z.step = q.step /\ z.last = last /\ z.on = on
      /\ z.sum = q.sum /\ z.shared = q.shared /\ z.index = q.index
      /\ z.stage = q.stage /\ z.verified = q.verified
  BY <1>4 DEF States
<1>. HIDE DEF z
<1>8. WorkInv(z)
  BY <1>4, <1>7, SameWork
<1>9. Good(z)
  BY <1>5, <1>6, <1>7, <1>8 DEF Good, CommitQuiet
<1>. QED  BY <1>3, <1>9

-----------------------------------------------------------------------------
(* The invariant.                                                          *)

LEMMA InitHolds == Init => CalibInv
<1>. SUFFICES ASSUME Init PROVE CalibInv
  OBVIOUS
<1>1. [b \in Table |-> "bad"] \in [Table -> SumCells]
      /\ [b \in Table |-> "bad"] \in [Table -> SharedCells]
  BY DEF SumCells, SharedCells
<1>2. 0 \in 0 .. Bins
  BY CalibrationAssumption
<1>3. s \in States /\ s.step = "null"
  BY <1>1, <1>2 DEF Init, States, Steps, Commands, Zeros
<1>4. Good(s)
  BY <1>3, NullGood
<1>. QED  BY <1>3, <1>4 DEF Init, CalibInv, TypeOK, InstalledIsSound, Encoders, Zeros

LEMMA TickKeeps == CalibInv /\ Tick => CalibInv'
<1>. SUFFICES ASSUME CalibInv, Tick PROVE CalibInv'
  OBVIOUS
<1>1. PICK x \in Upset(s) : \E r \in Task(x, enc) :
        s' = Settle(r[1], Primed(x)) /\ enc' = r[2]
  BY DEF Tick
<1>2. PICK r \in Task(x, enc) : s' = Settle(r[1], Primed(x)) /\ enc' = r[2]
  BY <1>1
<1>3. Good(x) /\ enc \in Encoders /\ enc.table = "sound" /\ Primed(x) \in BOOLEAN
  BY UpsetGood DEF CalibInv, TypeOK, InstalledIsSound, Primed
<1>4. OkPair(r, Primed(x))
  BY <1>3, TaskOk
<1>5. Good(s')
  BY <1>2, <1>3, <1>4, SettleGood DEF OkPair
<1>6. slipped' \in BOOLEAN /\ can' \in Commands \cup {"none"}
  BY DEF Tick, CalibInv, TypeOK, Slips
<1>7. (CalibInv)'
  BY <1>2, <1>4, <1>5, <1>6 DEF CalibInv, TypeOK, Good, OkPair, InstalledIsSound, WorkInv
<1>. QED  BY <1>7

LEMMA CanCheckKeeps == ASSUME NEW c \in Commands PROVE CalibInv /\ CanCheck(c) => CalibInv'
<1>. SUFFICES ASSUME CalibInv, CanCheck(c) PROVE CalibInv'
  OBVIOUS
<1>1. Good(s) /\ Good(Failed(s))
  BY FailsGood DEF CalibInv
<1>2. s' = s \/ s' = Failed(s)
  BY DEF CanCheck
<1>3. Good(s')
  BY <1>1, <1>2
<1>. QED  BY <1>3 DEF CanCheck, CalibInv, TypeOK, InstalledIsSound, Good

LEMMA CanWriteKeeps == CalibInv /\ CanWrite => CalibInv'
<1>. SUFFICES ASSUME CalibInv, CanWrite PROVE CalibInv'
  OBVIOUS
<1>1. Good(s) /\ s \in States /\ s.err \in BOOLEAN /\ can \in Commands
  BY DEF CalibInv, Good, States, TypeOK, CanWrite
<1>2. s' = [s EXCEPT !.mode = can, !.err = s.err]
  BY <1>1 DEF CanWrite, States
<1>3. Good(s')
  BY <1>1, <1>2, ModeGood
<1>. QED  BY <1>3 DEF CanWrite, CalibInv, TypeOK, InstalledIsSound, Good

LEMMA SaveKeeps == CalibInv /\ Save => CalibInv'
<1>. SUFFICES ASSUME CalibInv, Save PROVE CalibInv'
  OBVIOUS
<1>1. Good(s) /\ s \in States
  BY DEF CalibInv, Good
<1>2. /\ s' \in States
      /\ s'.step = s.step /\ s'.sum = s.sum /\ s'.shared = s.shared /\ s'.index = s.index
      /\ s'.stage = s.stage /\ s'.verified = s.verified /\ s'.last = s.last /\ (s'.on => s.on)
  <2>. "disable" \in Commands
    BY DEF Commands
  <2>1. PICK failed \in {s.on, TRUE} :
          s' = IF failed THEN [s EXCEPT !.mode = "disable", !.err = TRUE, !.on = FALSE]
               ELSE [s EXCEPT !.mode = "disable"]
    BY DEF Save
  <2>2. failed \in BOOLEAN
    BY <1>1 DEF States
  <2>3. CASE failed
    BY <1>1, <2>1, <2>3 DEF States
  <2>4. CASE ~failed
    BY <1>1, <2>1, <2>4 DEF States
  <2>. QED  BY <2>2, <2>3, <2>4
<1>3. Good(s')
  BY <1>1, <1>2, AsideGood
<1>. QED  BY <1>3 DEF Save, CalibInv, TypeOK, InstalledIsSound, Good

(* The invariant holds throughout: whatever is interrupted, no step finds  *)
(* in the workspace what another run left there.                           *)
THEOREM CalibInvariance == Spec => []CalibInv
<1>1. Init => CalibInv
  BY InitHolds
<1>2. CalibInv /\ [Next]_vars => CalibInv'
  <2>. SUFFICES ASSUME CalibInv, [Next]_vars PROVE CalibInv'
    OBVIOUS
  <2>1. CASE Tick
    BY <2>1, TickKeeps
  <2>2. ASSUME NEW c \in Commands, CanCheck(c) PROVE CalibInv'
    BY <2>2, CanCheckKeeps
  <2>3. CASE CanWrite
    BY <2>3, CanWriteKeeps
  <2>4. CASE Save
    BY <2>4, SaveKeeps
  <2>5. CASE UNCHANGED vars
    BY <2>5 DEF vars, CalibInv, TypeOK, InstalledIsSound, Good
  <2>. QED  BY <2>1, <2>2, <2>3, <2>4, <2>5 DEF Next
<1>. QED  BY <1>1, <1>2, PTL DEF Spec

(* Every variable keeps its type, the cursor and the cells of the          *)
(* workspace among them.                                                   *)
THEOREM CalibTypeCorrect == Spec => []TypeOK
<1>1. CalibInv => TypeOK
  BY DEF CalibInv
<1>. QED  BY <1>1, CalibInvariance, PTL

(* Task_Calib_EncoderOffset, Task_Calib_EncoderObserver and the defaults   *)
(* put no table in force but a sound one: whole, built from the samples of *)
(* one run, and from the observer verified and with the outputs off.       *)
THEOREM InstalledTablesAreSound == Spec => []InstalledIsSound
<1>1. CalibInv => InstalledIsSound
  BY DEF CalibInv
<1>. QED  BY <1>1, CalibInvariance, PTL


-----------------------------------------------------------------------------
(***************************************************************************)
(* Proof that calibrations leave nothing to each other unless one slips    *)
(* past the reset: a step under way, or a sample of the zero, belongs to   *)
(* the mode that ModeLast has on record.                                   *)
(***************************************************************************)

Idle == {"null", "start_pwm"}

(* ModeLast tells of what is under way, and only a stop or a clear takes   *)
(* the mode away from it.                                                  *)
Apart(x) ==
    /\ x.last \in Calibrations => x.mode \in {x.last, "disable", "clear"}
    /\ x.n # 0 \/ x.samples # "none" => x.last = "zero"
    /\ x.step \notin Idle => x.last \in {"offset", "observer"}
    /\ x.samples # "other"

(* The same between the task and the end of the tick, when it is the mode  *)
(* m of the task that tells.                                               *)
Within(m, y) ==
    /\ y.last \in Calibrations => y.last = m
    /\ y.mode \in {m, "disable", "save"}
    /\ y.n # 0 \/ y.samples # "none" => m = "zero"
    /\ y.step \notin Idle => m \in {"offset", "observer"}
    /\ y.samples # "other"
    /\ y.mode = "save" => y.n = 0 /\ y.samples = "none" /\ y.step \in Idle

SepInv == ~slipped => Apart(s) /\ enc.zero # "other"

-----------------------------------------------------------------------------
(* The tables' steps do not touch what belongs to the zero.                *)

Kin(x, y) ==
    /\ x \in States /\ y \in States
    /\ y.last = x.last /\ y.n = x.n /\ y.samples = x.samples
    /\ y.mode \in {x.mode, "disable"}

LEMMA KinTrans ==
    ASSUME NEW x, NEW y, NEW z, Kin(x, y), Kin(y, z)
    PROVE  Kin(x, z)
BY DEF Kin

LEMMA KinMoves ==
    ASSUME NEW x \in States
    PROVE  /\ Kin(x, x) /\ Kin(x, Failed(x)) /\ Kin(x, Abort(x))
           /\ Kin(x, Abort(Failed(x))) /\ Kin(x, ObserverAbort(x)) /\ Kin(x, Refused(x))
           /\ Kin(x, [x EXCEPT !.ticks = @ + 1])
<1>1. Kin(x, x) /\ Kin(x, Failed(x)) /\ Kin(x, [x EXCEPT !.ticks = @ + 1])
  <2>1. Kin(x, x)
    BY DEF Kin
  <2>2. Kin(x, Failed(x))
    BY DEF Kin, Failed, States
  <2>. DEFINE k == x.ticks + 1
  <2>3. k \in Nat
    BY DEF States
  <2>4. Kin(x, [x EXCEPT !.ticks = k])
    <3>. HIDE DEF k
    <3>. QED  BY <2>3 DEF Kin, States
  <2>. QED  BY <2>1, <2>2, <2>4
<1>2. ASSUME NEW y \in States PROVE Kin(y, Abort(y))
  <2>1. Abort(y) \in States
    BY Aborts
  <2>. QED  BY <2>1 DEF Kin, Abort, States
<1>3. ASSUME NEW y \in States PROVE Kin(y, ObserverAbort(y))
  <2>. DEFINE a == Abort(y)
  <2>1. Kin(y, a)
    BY <1>2
  <2>2. ObserverAbort(y) = [a EXCEPT !.on = FALSE, !.mode = "disable"]
    BY DEF ObserverAbort
  <2>. HIDE DEF a
  <2>. QED  BY <2>1, <2>2 DEF Kin, States, Commands
<1>. QED  BY <1>1, <1>2, <1>3, KinTrans DEF Kin, Refused

LEMMA KinGo ==
    ASSUME NEW x \in States, NEW k \in Steps
    PROVE  Kin(x, Go(x, k))
BY DEF Kin, Go, States

LEMMA KinTimed ==
    ASSUME NEW x \in States, NEW done, NEW late, Kin(x, done), Kin(x, late),
           NEW y \in Timed(x, done, late)
    PROVE  Kin(x, y)
BY TimedCases, KinMoves

LEMMA KinSampled ==
    ASSUME NEW x \in States, NEW y \in Sampled(x)
    PROVE  Kin(x, y)
<1>0. PICK b \in Table :
        \E c \in Counts(x.shared[b]) :
          y = [x EXCEPT !.sum[b] = IF @ \in {"clear", "sum"} THEN "sum" ELSE "bad",
                        !.shared[b] = c]
  BY DEF Sampled
<1>1. PICK c \in Counts(x.shared[b]) :
        y = [x EXCEPT !.sum[b] = IF @ \in {"clear", "sum"} THEN "sum" ELSE "bad",
                      !.shared[b] = c]
  BY <1>0
<1>2. c \in SharedCells
  BY <1>1 DEF Counts, SharedCells
<1>. DEFINE d == IF x.sum[b] \in {"clear", "sum"} THEN "sum" ELSE "bad"
<1>3. d \in SumCells
  BY DEF SumCells
<1>4. y = [x EXCEPT !.sum = [@ EXCEPT ![b] = d], !.shared = [@ EXCEPT ![b] = c]]
  BY <1>1 DEF States
<1>. HIDE DEF d
<1>. QED  BY <1>2, <1>3, <1>4 DEF Kin, States

-----------------------------------------------------------------------------
(* The steps of both tables.                                               *)

(* An outcome of either table's task: nothing of the zero changes but that *)
(* it may become void, or a table is installed.                            *)
Tabled(x, e, r) ==
    \/ Kin(x, r[1]) /\ r[2] = e
    \/ \E y \in States, t \in BOOLEAN : Kin(x, y) /\ r = Installed(y, e, t)

LEMMA KeptTabled ==
    ASSUME NEW x, NEW e, NEW xs, \A y \in xs : Kin(x, y), NEW r \in Kept(xs, e)
    PROVE  Tabled(x, e, r)
BY DEF Kept, Tabled

LEMMA BuiltKin ==
    ASSUME NEW x \in States
    PROVE  Kin(x, Built(x))
<1>. DEFINE f == [b \in Table |-> Averaged(x, b, {"few", "enough"})]
            y == [x EXCEPT !.sum = f]
            g == [b \in Table |-> Entry(y)]
<1>1. f \in [Table -> SumCells]
  BY DEF Averaged, SumCells
<1>2. Kin(x, y)
  <2>. HIDE DEF f
  <2>. QED  BY <1>1 DEF Kin, States
<1>3. Built(x) = [y EXCEPT !.shared = g]
  BY DEF Built
<1>4. g \in [Table -> SharedCells]
  BY DEF Entry, SharedCells
<1>. HIDE DEF y, g
<1>. QED  BY <1>2, <1>3, <1>4 DEF Kin, States

LEMMA OffsetTabled ==
    ASSUME NEW x \in States, NEW e, NEW r \in OffsetTask(x, e)
    PROVE  Tabled(x, e, r)
<1>1. /\ Kin(x, x) /\ Kin(x, Abort(x)) /\ Kin(x, Abort(Failed(x)))
      /\ \A k \in Steps : Kin(x, Go(x, k)) /\ Go(x, k) \in States
  BY KinMoves, KinGo, Goes
<1>2. {"align", "align_loop", "ramp", "sample", "end"} \subseteq Steps
  BY DEF Steps, OffsetSteps
<1>3. CASE r = <<Abort(Failed(x)), e>>
  BY <1>1, <1>3 DEF Tabled
<1>4. CASE r \in OffsetStep(x, e)
  <2>1. CASE x.step = "null"
    BY <2>1, <1>1, <1>2, <1>4, KeptTabled DEF OffsetStep
  <2>2. CASE x.step = "align"
    <3>. DEFINE g == Go(x, "align_loop")
                y == [g EXCEPT !.held = TRUE, !.sum = All("clear"), !.shared = All("clear")]
    <3>1. All("clear") \in [Table -> SumCells] /\ All("clear") \in [Table -> SharedCells]
      BY DEF All, SumCells, SharedCells
    <3>2. Kin(x, g)
      BY <1>1, <1>2
    <3>3. Kin(x, y)
      <4>. HIDE DEF g
      <4>. QED  BY <3>1, <3>2 DEF Kin, States
    <3>4. r \in Kept({y}, e)
      BY <2>2, <1>4 DEF OffsetStep
    <3>. HIDE DEF y
    <3>. QED  BY <3>3, <3>4, KeptTabled
  <2>3. CASE x.step = "align_loop"
    BY <2>3, <1>1, <1>2, <1>4, KeptTabled DEF OffsetStep
  <2>4. CASE x.step = "ramp"
    <3>. DEFINE g == Go(x, "sample")
    <3>1. Kin(x, g) /\ g \in States
      BY <1>1, <1>2
    <3>2. r \in Kept({x, g} \cup Sampled(g), e)
      BY <2>4, <1>4 DEF OffsetStep
    <3>. HIDE DEF g
    <3>3. \A y \in {x, g} \cup Sampled(g) : Kin(x, y)
      BY <3>1, <1>1, KinSampled, KinTrans
    <3>. QED  BY <3>2, <3>3, KeptTabled
  <2>5. CASE x.step = "sample"
    <3>1. r \in Kept({x, Abort(Failed(x)), Go(x, "end")} \cup Sampled(x), e)
      BY <2>5, <1>4 DEF OffsetStep
    <3>2. \A y \in {x, Abort(Failed(x)), Go(x, "end")} \cup Sampled(x) : Kin(x, y)
      BY <1>1, <1>2, KinSampled
    <3>. QED  BY <3>1, <3>2, KeptTabled
  <2>6. CASE x.step = "end"
    <3>1. \/ r = <<Abort(Failed(x)), e>>
          \/ r = Installed(Built(x), e, Whole(Built(x)))
      BY <2>6, <1>4 DEF OffsetStep, OffsetEnd
    <3>2. Kin(x, Built(x)) /\ Built(x) \in States /\ Whole(Built(x)) \in BOOLEAN
      BY BuiltKin DEF Kin, Whole
    <3>. QED  BY <3>1, <3>2, <1>1 DEF Tabled
  <2>7. CASE x.step \notin {"null"} \cup OffsetSteps
    BY <2>7, <1>1, <1>4, KeptTabled DEF OffsetStep, OffsetSteps
  <2>. QED  BY <2>1, <2>2, <2>3, <2>4, <2>5, <2>6, <2>7 DEF OffsetSteps
<1>. QED  BY <1>3, <1>4 DEF OffsetTask

LEMMA OriginKin ==
    ASSUME NEW x \in States, NEW z \in Origin(x)
    PROVE  Kin(x, z)
<1>. DEFINE y == IF x.index = Bins THEN x
                 ELSE [x EXCEPT !.sum[x.index] = "clear", !.shared[x.index] = "clear",
                                !.index = @ + 1]
            left == IF y.index < Bins THEN Refused(y) ELSE Go(y, "wait")
<1>1. Kin(x, y)
  <2>1. CASE x.index = Bins
    BY <2>1, KinMoves
  <2>2. CASE x.index # Bins
    <3>. DEFINE k == x.index + 1
    <3>1. x.index \in Table /\ k \in 0 .. Bins
      BY <2>2, CalibrationAssumption DEF States, Table
    <3>2. y = [x EXCEPT !.sum = [@ EXCEPT ![x.index] = "clear"],
                        !.shared = [@ EXCEPT ![x.index] = "clear"], !.index = k]
      BY <2>2
    <3>. HIDE DEF y, k
    <3>. QED  BY <3>1, <3>2 DEF Kin, States, SumCells, SharedCells
  <2>. QED  BY <2>1, <2>2
<1>. HIDE DEF y
<1>2. y \in States
  BY <1>1 DEF Kin
<1>3. "wait" \in Steps
  BY DEF Steps, ObserverSteps
<1>4. Kin(y, left) /\ Kin(y, Refused(y))
  BY <1>2, <1>3, KinMoves, KinGo
<1>. HIDE DEF left
<1>5. z \in Timed(y, left, left) \cup {Refused(y)}
  BY DEF Origin, left, y
<1>. QED  BY <1>1, <1>2, <1>4, <1>5, KinTimed, KinTrans

LEMMA SamplingKin ==
    ASSUME NEW x \in States, NEW z \in Sampling(x)
    PROVE  Kin(x, z)
<1>1. PICK y \in Sampled(x) \cup {x} :
        z \in Timed(y, [Go(y, "build") EXCEPT !.index = 0, !.stage = 0], Refused(y))
  BY DEF Sampling
<1>2. Kin(x, y) /\ y \in States
  BY KinSampled, KinMoves DEF Kin
<1>. DEFINE g == Go(y, "build")
            done == [g EXCEPT !.index = 0, !.stage = 0]
<1>3. "build" \in Steps /\ 0 \in 0 .. Bins
  BY CalibrationAssumption DEF Steps, ObserverSteps
<1>4. Kin(y, g)
  BY <1>2, <1>3, KinGo
<1>5. Kin(y, done)
  <2>. HIDE DEF g
  <2>. QED  BY <1>3, <1>4 DEF Kin, States
<1>. HIDE DEF done
<1>6. z \in Timed(y, done, Refused(y)) /\ Kin(y, Refused(y))
  BY <1>1, <1>2, KinMoves DEF done
<1>. QED  BY <1>2, <1>5, <1>6, KinTimed, KinTrans

LEMMA OnwardKin ==
    ASSUME NEW x \in States, x.index \in Table
    PROVE  Kin(x, Onward(x))
<1>1. x.index \in Nat /\ Bins \in Nat
  BY CalibrationAssumption DEF Table
<1>. DEFINE k == x.index + 1
            n == x.stage + 1
<1>2. n \in Nat /\ 0 \in 0 .. Bins /\ (k < Bins => k \in 0 .. Bins)
  BY <1>1, CalibrationAssumption DEF States
<1>3. CASE k < Bins
  <2>1. Onward(x) = [x EXCEPT !.index = k]
    BY <1>3 DEF Onward
  <2>. HIDE DEF k, n
  <2>. QED  BY <1>2, <1>3, <2>1 DEF Kin, States
<1>4. CASE ~(k < Bins)
  <2>1. Onward(x) = [x EXCEPT !.index = 0, !.stage = n]
    BY <1>4 DEF Onward
  <2>. HIDE DEF k, n
  <2>. QED  BY <1>2, <2>1 DEF Kin, States
<1>. QED  BY <1>3, <1>4

LEMMA BuildKin ==
    ASSUME NEW x \in States, x.index < Bins, NEW z \in Build(x)
    PROVE  Kin(x, z)
<1>. DEFINE i == x.index
            c == Averaged(x, i, {"enough"})
            v == [x EXCEPT !.sum = [@ EXCEPT ![i] = c]]
            d == Entry(x)
            w == [x EXCEPT !.shared = [@ EXCEPT ![i] = d]]
<1>1. i \in Table /\ c \in SumCells /\ d \in SharedCells
  BY CalibrationAssumption DEF States, Table, Averaged, SumCells, Entry, SharedCells
<1>2. Kin(x, v) /\ v.index = i
  <2>. HIDE DEF c
  <2>. QED  BY <1>1 DEF Kin, States
<1>3. Kin(x, w) /\ w.index = i
  <2>. HIDE DEF d
  <2>. QED  BY <1>1 DEF Kin, States
<1>4. z \in {Onward(x), Onward(v), Onward(w), Go(w, "verify")}
  BY DEF Build
<1>. HIDE DEF v, w
<1>5. v \in States /\ w \in States /\ "verify" \in Steps
  BY <1>2, <1>3 DEF Kin, Steps, ObserverSteps
<1>6. /\ Kin(x, Onward(x)) /\ Kin(v, Onward(v)) /\ Kin(w, Onward(w))
      /\ Kin(w, Go(w, "verify"))
  BY <1>1, <1>2, <1>3, <1>5, OnwardKin, KinGo
<1>. QED  BY <1>2, <1>3, <1>4, <1>6, KinTrans

LEMMA BrakeKin ==
    ASSUME NEW x \in States
    PROVE  Kin(x, StopForCommit(x)) /\ Kin(x, [Go(x, "decel") EXCEPT !.verified = TRUE])
<1>1. {"commit", "decel"} \subseteq Steps
  BY DEF Steps, ObserverSteps
<1>2. Kin(x, StopForCommit(x))
  BY <1>1 DEF Kin, StopForCommit, States
<1>. DEFINE g == Go(x, "decel")
<1>3. Kin(x, g)
  BY <1>1, KinGo
<1>4. Kin(x, [g EXCEPT !.verified = TRUE])
  <2>. HIDE DEF g
  <2>. QED  BY <1>3 DEF Kin, States
<1>. QED  BY <1>2, <1>4

LEMMA BeginKin ==
    ASSUME NEW x \in States
    PROVE  Kin(x, Begin(x)) /\ Begin(x).step = "start_pwm"
<1>. DEFINE g == Go(x, "start_pwm")
            h == [g EXCEPT !.held = TRUE, !.verified = FALSE]
            y == [h EXCEPT !.index = 0, !.stage = 0]
<1>1. "start_pwm" \in Steps /\ 0 \in 0 .. Bins
  BY CalibrationAssumption DEF Steps, ObserverSteps
<1>2. Kin(x, g) /\ g.step = "start_pwm"
  BY <1>1, KinGo, Goes
<1>3. Kin(x, h) /\ h.step = "start_pwm"
  <2>. HIDE DEF g
  <2>. QED  BY <1>2 DEF Kin, States
<1>4. Kin(x, y) /\ y.step = "start_pwm"
  <2>. HIDE DEF h
  <2>. QED  BY <1>1, <1>3 DEF Kin, States
<1>5. Begin(x) = y
  <2>. HIDE DEF g
  <2>1. g \in States
    BY <1>2 DEF Kin
  <2>2. Begin(x) = [g EXCEPT !.held = TRUE, !.index = 0, !.stage = 0, !.verified = FALSE]
    BY DEF Begin, g
  <2>. QED  BY <2>1, <2>2 DEF States
<1>. HIDE DEF y
<1>. QED  BY <1>4, <1>5

LEMMA ObserverTabled ==
    ASSUME NEW x \in States, x.step = "build" => x.index < Bins,
           NEW e, NEW r \in ObserverTask(x, e)
    PROVE  Tabled(x, e, r)
<1>1. /\ Kin(x, x) /\ Kin(x, Refused(x)) /\ Kin(x, Failed(x)) /\ Kin(x, ObserverAbort(x))
      /\ \A k \in Steps : Kin(x, Go(x, k))
  BY KinMoves, KinGo
<1>2. ObserverSteps \subseteq Steps
  BY DEF Steps
<1>3. CASE r \in {<<ObserverAbort(x), e>>, <<Refused(x), e>>, <<Failed(x), e>>}
  BY <1>1, <1>3 DEF Tabled
<1>4. CASE r \in ObserverStep(x, e)
  <2>1. CASE x.step = "commit"
    <3>1. r = Installed(x, e, Whole(x) /\ x.verified /\ ~x.on)
      BY <2>1, <1>4 DEF ObserverStep
    <3>2. (Whole(x) /\ x.verified /\ ~x.on) \in BOOLEAN
      BY DEF Whole
    <3>. QED  BY <3>1, <3>2, <1>1 DEF Tabled
  <2>2. CASE x.step \in {"null", "start_pwm", "origin", "wait", "stable", "find", "sampling",
                         "build", "verify", "decel", "current"}
    <3>1. PICK xs :
            /\ r \in Kept(xs, e)
            /\ xs = CASE x.step = "null"      -> {Begin(x)}
                      [] x.step = "start_pwm" -> {Go(x, "origin")}
                      [] x.step = "origin"    -> Origin(x)
                      [] x.step = "wait"      -> Timed(x, Go(x, "stable"), Refused(x))
                      [] x.step = "stable"    -> Timed(x, Go(x, "find"), Refused(x))
                      [] x.step = "find"      -> Timed(x, Go(x, "sampling"), Refused(x))
                      [] x.step = "sampling"  -> Sampling(x)
                      [] x.step = "build"     -> Build(x)
                      [] x.step = "verify"    -> Verify(x)
                      [] x.step = "decel"     -> Decel(x)
                      [] x.step = "current"   -> Current(x)
      BY <2>2, <1>4 DEF ObserverStep, Stable
    <3>2. /\ Kin(x, Go(x, "origin")) /\ Kin(x, Go(x, "stable")) /\ Kin(x, Go(x, "find"))
          /\ Kin(x, Go(x, "sampling")) /\ Kin(x, Go(x, "current"))
      BY <1>1, <1>2 DEF ObserverSteps
    <3>3. ASSUME NEW y \in xs PROVE Kin(x, y)
      <4>1. CASE x.step \in {"null", "start_pwm"}
        BY <4>1, <3>1, <3>2, <3>3, BeginKin
      <4>2. CASE x.step = "origin"
        BY <4>2, <3>1, <3>3, OriginKin
      <4>3. CASE x.step \in {"wait", "stable", "find"}
        BY <4>3, <3>1, <3>2, <3>3, <1>1, KinTimed
      <4>4. CASE x.step = "sampling"
        BY <4>4, <3>1, <3>3, SamplingKin
      <4>5. CASE x.step = "build"
        BY <4>5, <3>1, <3>3, BuildKin
      <4>6. CASE x.step = "verify"
        BY <4>6, <3>1, <3>3, <1>1, BrakeKin, KinTimed DEF Verify
      <4>7. CASE x.step = "decel"
        BY <4>7, <3>1, <3>2, <3>3, <1>1, BrakeKin, KinTimed DEF Decel
      <4>8. CASE x.step = "current"
        BY <4>8, <3>1, <3>3, BrakeKin, KinTimed DEF Current
      <4>. QED  BY <2>2, <4>1, <4>2, <4>3, <4>4, <4>5, <4>6, <4>7, <4>8
    <3>. QED  BY <3>1, <3>3, KeptTabled
  <2>3. CASE x.step \notin {"null"} \cup ObserverSteps
    BY <2>3, <1>1, <1>4, KeptTabled DEF ObserverStep, ObserverSteps
  <2>. QED  BY <2>1, <2>2, <2>3 DEF ObserverSteps
<1>. QED  BY <1>3, <1>4 DEF ObserverTask

-----------------------------------------------------------------------------
(* What a task leaves.                                                     *)

LEMMA TableWithin ==
    ASSUME NEW x \in States, Apart(x), x.mode \in {"offset", "observer"},
           NEW e \in Encoders, e.zero # "other", NEW r, Tabled(x, e, r)
    PROVE  Within(x.mode, r[1]) /\ r[2].zero # "other"
<1>1. /\ x.last \in Calibrations => x.last = x.mode
      /\ x.n = 0 /\ x.samples = "none"
  BY DEF Apart, Calibrations
<1>2. CASE Kin(x, r[1]) /\ r[2] = e
  BY <1>1, <1>2 DEF Kin, Within
<1>3. ASSUME NEW y \in States, NEW t \in BOOLEAN, Kin(x, y), r = Installed(y, e, t)
      PROVE  Within(x.mode, r[1]) /\ r[2].zero # "other"
  <2>. DEFINE a == Abort(y)
              w == [a EXCEPT !.mode = "save",
                             !.samples = IF @ = "none" THEN @ ELSE "other"]
  <2>1. Kin(y, a) /\ a.step = "null"
    BY KinMoves, Aborts
  <2>2. /\ w.mode = "save" /\ w.samples = "none" /\ w.n = 0 /\ w.step = "null"
        /\ w.last = x.last
    <3>. HIDE DEF a
    <3>. QED  BY <1>1, <1>3, <2>1 DEF Kin, States
  <2>3. Within(x.mode, w)
    <3>. HIDE DEF w
    <3>. QED  BY <1>1, <2>2 DEF Within, Idle
  <2>4. r[1] = w /\ r[2] = CommitTable(e, t)
    BY <1>3 DEF Installed
  <2>5. CommitTable(e, t).zero = "none"
    BY DEF CommitTable, Encoders
  <2>. HIDE DEF w
  <2>. QED  BY <2>3, <2>4, <2>5
<1>. QED  BY <1>2, <1>3 DEF Tabled

LEMMA ZeroWithin ==
    ASSUME NEW x \in States, Apart(x), x.mode = "zero",
           NEW e \in Encoders, e.zero # "other", NEW r \in ZeroTask(x, e)
    PROVE  Within(x.mode, r[1]) /\ r[2].zero # "other"
<1>. DEFINE Own(y) == /\ y \in States /\ y.last = x.last /\ y.step = x.step
                      /\ y.mode = "zero" /\ y.samples # "other"
            y == IF x.n = 0 THEN [x EXCEPT !.samples = "none"] ELSE x
            f == IF x.n = 0 THEN [e EXCEPT !.zero = "none"] ELSE e
<1>1. (x.last \in Calibrations => x.last = "zero") /\ x.step \in Idle /\ Own(x)
  BY DEF Apart, Calibrations
<1>2. ASSUME NEW w, Own(w)
      PROVE  /\ Own(Failed(w)) /\ Within("zero", w)
             /\ Own(ZeroDone(w)) /\ ZeroDone(w).n = 0 /\ ZeroDone(w).samples = "none"
  BY <1>1, <1>2 DEF Failed, ZeroDone, States, Within, Zeros, Calibrations
<1>3. Own(y) /\ f \in Encoders /\ f.zero # "other"
  BY <1>1 DEF States, Zeros, Encoders
<1>4. CASE r \in {<<Failed(ZeroDone(x)), e>>, <<Failed(x), e>>}
  <2>1. Own(Failed(ZeroDone(x))) /\ Own(Failed(x))
    BY <1>1, <1>2
  <2>2. Within("zero", Failed(ZeroDone(x))) /\ Within("zero", Failed(x))
    BY <1>2, <2>1
  <2>. QED  BY <1>4, <2>2
<1>5. CASE r \notin {<<Failed(ZeroDone(x)), e>>, <<Failed(x), e>>}
  <2>. HIDE DEF y, f
  <2>1. PICK z \in ZeroSample(y) :
          r \in (IF x.n < 2 * HoldTicks THEN {<<[z EXCEPT !.n = @ + 1], f>>} ELSE ZeroEnd(z, f))
    BY <1>5 DEF ZeroTask, y, f
  <2>2. Own(z)
    BY <1>3, <2>1 DEF ZeroSample, States, Zeros
  <2>3. CASE x.n < 2 * HoldTicks
    <3>. DEFINE k == z.n + 1
                w == [z EXCEPT !.n = k]
    <3>1. k \in Nat
      BY <2>2 DEF States
    <3>2. Own(w)
      <4>. HIDE DEF k
      <4>. QED  BY <2>2, <3>1 DEF States
    <3>3. r = <<w, f>>
      BY <2>1, <2>3
    <3>. HIDE DEF w
    <3>4. Within("zero", w)
      BY <1>2, <3>2
    <3>. QED  BY <1>3, <3>3, <3>4
  <2>4. CASE ~(x.n < 2 * HoldTicks)
    <3>. DEFINE d == ZeroDone(z)
    <3>1. r \in ZeroEnd(z, f)
      BY <2>1, <2>4
    <3>2. Own(d) /\ d.n = 0 /\ d.samples = "none" /\ Own(Failed(d))
      BY <1>2, <2>2
    <3>3. CASE r = <<Failed(d), f>>
      <4>1. Within("zero", Failed(d))
        BY <1>2, <3>2
      <4>. QED  BY <1>3, <3>3, <4>1
    <3>4. CASE r # <<Failed(d), f>>
      <4>. DEFINE w == [d EXCEPT !.mode = "save"]
      <4>1. r = <<w, [f EXCEPT !.zero = z.samples]>>
        BY <3>1, <3>4 DEF ZeroEnd
      <4>2. w.mode = "save" /\ w.n = 0 /\ w.samples = "none" /\ w.step \in Idle /\ w.last = x.last
        <5>. HIDE DEF d
        <5>. QED  BY <1>1, <3>2 DEF States
      <4>. HIDE DEF w
      <4>3. Within("zero", w)
        BY <1>1, <4>2 DEF Within
      <4>4. [f EXCEPT !.zero = z.samples].zero # "other"
        BY <1>3, <2>2 DEF Encoders
      <4>. QED  BY <4>1, <4>3, <4>4
    <3>. QED  BY <3>3, <3>4
  <2>. QED  BY <2>3, <2>4
<1>. QED  BY <1>4, <1>5

\* In the other modes all stays as it is, but that the mode may end.
LEMMA OtherApart ==
    ASSUME NEW x \in States, Apart(x), x.mode \notin Calibrations,
           NEW e \in Encoders, e.zero # "other", NEW r \in Task(x, e)
    PROVE  /\ Apart(r[1]) /\ r[1] \in States /\ r[1].mode \notin Calibrations
           /\ r[1].mode # "clear" /\ r[1].last = x.last /\ r[2].zero # "other"
<1>1. ASSUME NEW y \in States, Apart(y), NEW g, NEW q \in ClearTask(y, g)
      PROVE  /\ Apart(q[1]) /\ q[1] \in States /\ q[1].mode = "disable"
             /\ q[1].last = y.last /\ q[2] = g
  <2>1. PICK f \in {FALSE, y.err} : q = <<[y EXCEPT !.mode = "disable", !.err = f], g>>
    BY <1>1 DEF ClearTask
  <2>2. f \in BOOLEAN
    BY <1>1 DEF States
  <2>. DEFINE w == [y EXCEPT !.mode = "disable", !.err = f]
  <2>3. /\ w \in States /\ w.mode = "disable" /\ w.last = y.last /\ w.n = y.n
        /\ w.samples = y.samples /\ w.step = y.step
    BY <1>1, <2>2 DEF States, Commands
  <2>. HIDE DEF w
  <2>4. Apart(w)
    BY <1>1, <2>3 DEF Apart
  <2>. QED  BY <2>1, <2>3, <2>4 DEF w
<1>2. CASE x.mode = "default"
  <2>. DEFINE y == [x EXCEPT !.samples = IF @ = "none" THEN @ ELSE "other"]
  <2>1. x.samples = "none"
    BY <1>2 DEF Apart, Calibrations
  <2>2. y = x
    BY <2>1 DEF States
  <2>. DEFINE g == CommitTable(e, TRUE)
  <2>3. r \in ClearTask(x, g)
    BY <1>2, <2>2 DEF Task, DefaultTask
  <2>4. g.zero = "none"
    BY DEF CommitTable, Encoders
  <2>. HIDE DEF g
  <2>5. /\ Apart(r[1]) /\ r[1] \in States /\ r[1].mode = "disable"
        /\ r[1].last = x.last /\ r[2] = g
    BY <1>1, <2>3
  <2>. QED  BY <2>4, <2>5 DEF Calibrations
<1>3. CASE x.mode = "clear"
  <2>1. r \in ClearTask(x, e)
    BY <1>3 DEF Task
  <2>. QED  BY <1>1, <2>1 DEF Calibrations
<1>4. CASE x.mode \notin {"default", "clear"}
  BY <1>4 DEF Task, Calibrations
<1>. QED  BY <1>2, <1>3, <1>4

LEMMA TabledLast ==
    ASSUME NEW x, NEW e, NEW r, Tabled(x, e, r)
    PROVE  r[1].last = x.last
<1>1. ASSUME NEW y \in States, NEW t \in BOOLEAN, Kin(x, y), r = Installed(y, e, t)
      PROVE  r[1].last = x.last
  <2>. DEFINE a == Abort(y)
  <2>1. Kin(y, a)
    BY KinMoves
  <2>2. r[1] = [a EXCEPT !.mode = "save", !.samples = IF @ = "none" THEN @ ELSE "other"]
    BY <1>1 DEF Installed
  <2>. HIDE DEF a
  <2>. QED  BY <1>1, <2>1, <2>2 DEF Kin, States
<1>. QED  BY <1>1 DEF Tabled, Kin

LEMMA ZeroLast ==
    ASSUME NEW x \in States, NEW e, NEW r \in ZeroTask(x, e)
    PROVE  r[1].last = x.last
<1>. DEFINE y == IF x.n = 0 THEN [x EXCEPT !.samples = "none"] ELSE x
            f == IF x.n = 0 THEN [e EXCEPT !.zero = "none"] ELSE e
            Own(w) == w \in States /\ w.last = x.last
<1>1. ASSUME NEW w, Own(w)
      PROVE  Own(Failed(w)) /\ Own(ZeroDone(w)) /\ Own([w EXCEPT !.mode = "save"])
  <2>1. Own(Failed(w))
    BY <1>1 DEF Failed, States
  <2>2. Own(ZeroDone(w))
    BY <1>1 DEF ZeroDone, States, Zeros
  <2>3. Own([w EXCEPT !.mode = "save"])
    BY <1>1 DEF States, Commands
  <2>. QED  BY <2>1, <2>2, <2>3
<1>2. Own(x) /\ Own(y)
  BY DEF States, Zeros
<1>3. CASE r \in {<<Failed(ZeroDone(x)), e>>, <<Failed(x), e>>}
  <2>1. Own(Failed(x)) /\ Own(ZeroDone(x))
    BY <1>1, <1>2
  <2>2. Own(Failed(ZeroDone(x)))
    BY <1>1, <2>1
  <2>. QED  BY <1>3, <2>1, <2>2
<1>4. CASE r \notin {<<Failed(ZeroDone(x)), e>>, <<Failed(x), e>>}
  <2>. HIDE DEF y, f
  <2>1. PICK z \in ZeroSample(y) :
          r \in (IF x.n < 2 * HoldTicks THEN {<<[z EXCEPT !.n = @ + 1], f>>} ELSE ZeroEnd(z, f))
    BY <1>4 DEF ZeroTask, y, f
  <2>2. Own(z)
    BY <1>2, <2>1 DEF ZeroSample, States, Zeros
  <2>3. Own(Failed(ZeroDone(z))) /\ Own([ZeroDone(z) EXCEPT !.mode = "save"])
    BY <1>1, <2>2
  <2>4. r[1] \in {[z EXCEPT !.n = @ + 1], Failed(ZeroDone(z)), [ZeroDone(z) EXCEPT !.mode = "save"]}
    BY <2>1 DEF ZeroEnd
  <2>. QED  BY <2>2, <2>3, <2>4 DEF States
<1>. QED  BY <1>3, <1>4

\* The first tick of the observer calibration prepares it, at most.
LEMMA FirstIdle ==
    ASSUME NEW x \in States, x.step = "null", NEW e, NEW r \in ObserverTask(x, e)
    PROVE  r[1].step \in Idle
<1>1. ASSUME NEW y \in States PROVE ObserverAbort(y).step = "null"
  <2>. DEFINE a == Abort(y)
  <2>1. a \in States /\ a.step = "null"
    BY Aborts
  <2>2. ObserverAbort(y) = [a EXCEPT !.on = FALSE, !.mode = "disable"]
    BY DEF ObserverAbort
  <2>. HIDE DEF a
  <2>. QED  BY <2>1, <2>2 DEF States
<1>2. Failed(x) \in States /\ Failed(x).step = "null"
  BY DEF Failed, States
<1>3. Begin(x).step = "start_pwm"
  BY BeginKin
<1>4. r[1] \in {ObserverAbort(x), ObserverAbort(Failed(x)), Failed(x), Begin(x)}
  BY DEF ObserverTask, ObserverStep, Kept, Refused
<1>. QED  BY <1>1, <1>2, <1>3, <1>4 DEF Idle

LEMMA UpsetApart ==
    ASSUME NEW x \in States, Apart(x), NEW y \in Upset(x)
    PROVE  /\ y \in States /\ Apart(y) /\ y.last = x.last
           /\ y.mode = x.mode \/ y.mode = "disable"
<1>1. y \in {x, Failed(x), [Failed(x) EXCEPT !.mode = "disable"]}
  BY DEF Upset
<1>2. /\ y \in States /\ y.last = x.last /\ y.n = x.n /\ y.samples = x.samples
      /\ y.step = x.step /\ y.mode \in {x.mode, "disable"}
  <2>1. CASE y = x
    BY <2>1
  <2>2. CASE y = Failed(x)
    BY <2>2 DEF Failed, States
  <2>3. CASE y = [Failed(x) EXCEPT !.mode = "disable"]
    BY <2>3 DEF Failed, States, Commands
  <2>. QED  BY <1>1, <2>1, <2>2, <2>3
<1>. QED  BY <1>2 DEF Apart

-----------------------------------------------------------------------------
(* The end of the tick.                                                    *)

\* The reset leaves nothing; without it, at a stop, there was nothing left.
LEMMA QuietFacts ==
    ASSUME NEW d \in States
    PROVE  LET q == Quiet(d)
           IN  /\ q \in States /\ q.mode = d.mode
               /\ \/ q.last = d.last /\ q.step = d.step /\ q.n = d.n /\ q.samples = d.samples
                  \/ q.mode = "disable" /\ q.step = "null" /\ q.n = 0 /\ q.samples = "none"
               /\ q.mode = "disable" /\ d.last # "disable" =>
                    q.step = "null" /\ q.n = 0 /\ q.samples = "none"
               /\ q.last = d.last
<1>. DEFINE q == Quiet(d)
<1>1. CASE d.mode = "disable" /\ (d.last # "disable" \/ d.on \/ d.step = "start_pwm")
  <2>. DEFINE a == Abort(d)
  <2>1. a \in States /\ a.step = "null" /\ a.last = d.last /\ a.mode = d.mode
    <3>1. Kin(d, a) /\ a.mode = d.mode
      BY KinMoves DEF Abort, States
    <3>. QED  BY <3>1, Aborts DEF Kin
  <2>2. q = [[a EXCEPT !.n = 0, !.samples = "none"] EXCEPT !.on = FALSE]
    BY <1>1 DEF Quiet, Reset
  <2>. HIDE DEF a, q
  <2>3. /\ q \in States /\ q.step = "null" /\ q.last = d.last /\ q.mode = d.mode
        /\ q.n = 0 /\ q.samples = "none"
    BY <2>1, <2>2 DEF States, Zeros
  <2>. QED  BY <1>1, <2>3 DEF q
<1>2. CASE /\ ~(d.mode = "disable" /\ (d.last # "disable" \/ d.on \/ d.step = "start_pwm"))
           /\ d.mode = "save"
  BY <1>2 DEF Quiet, States
<1>3. CASE /\ ~(d.mode = "disable" /\ (d.last # "disable" \/ d.on \/ d.step = "start_pwm"))
           /\ d.mode # "save"
  BY <1>3 DEF Quiet
<1>. QED  BY <1>1, <1>2, <1>3

LEMMA DisarmFacts ==
    ASSUME NEW y \in States
    PROVE  LET d == Disarm(y)
           IN  /\ d \in States /\ d.mode \in {y.mode, "disable"} /\ d.last = y.last
               /\ d.step = y.step /\ d.n = y.n /\ d.samples = y.samples
BY DEF Disarm, States, Commands

LEMMA EnergiseFacts ==
    ASSUME NEW q \in States, NEW p
    PROVE  LET z == Energise(q, p)
           IN  /\ z.mode = q.mode /\ z.step = q.step /\ z.n = q.n /\ z.samples = q.samples
               /\ \/ z.last = q.mode
                  \/ /\ z.last = "disable" /\ q.last = "disable"
                     /\ q.mode = "observer" /\ ~p
BY DEF Energise, States, Calibrations

(* What a calibration leaves is released at its stop, or belongs to the    *)
(* mode now on record, unless the calibration slipped.                     *)
LEMMA SettleWithin ==
    ASSUME NEW m \in Calibrations, NEW y \in States, Within(m, y), NEW p,
           m = "observer" /\ y.last = "disable" /\ ~p => y.step \in Idle
    PROVE  LET z == Settle(y, p)
           IN  \/ Apart(z)
               \/ y.last = "disable" /\ z.last = "disable" /\ z.mode = "disable"
<1>. DEFINE d == Disarm(y)
            q == Quiet(d)
            z == Energise(q, p)
<1>1. /\ d \in States /\ d.mode \in {y.mode, "disable"} /\ d.last = y.last
      /\ d.step = y.step /\ d.n = y.n /\ d.samples = y.samples
  BY DisarmFacts
<1>. HIDE DEF d
<1>2. /\ q \in States /\ q.mode = d.mode
      /\ \/ q.last = d.last /\ q.step = d.step /\ q.n = d.n /\ q.samples = d.samples
         \/ q.mode = "disable" /\ q.step = "null" /\ q.n = 0 /\ q.samples = "none"
      /\ q.mode = "disable" /\ d.last # "disable" =>
           q.step = "null" /\ q.n = 0 /\ q.samples = "none"
      /\ q.last = d.last
  BY <1>1, QuietFacts
<1>. HIDE DEF q
<1>3. /\ z.mode = q.mode /\ z.step = q.step /\ z.n = q.n /\ z.samples = q.samples
      /\ \/ z.last = q.mode
         \/ /\ z.last = "disable" /\ q.last = "disable"
            /\ q.mode = "observer" /\ ~p
  BY <1>2, EnergiseFacts
<1>. HIDE DEF z
<1>4. q.mode \in {m, "disable", "save"}
  BY <1>1, <1>2 DEF Within
<1>5. CASE q.mode = "disable"
  <2>1. z.last = "disable" /\ z.mode = "disable"
    BY <1>3, <1>5
  <2>2. CASE y.last = "disable"
    BY <2>1, <2>2 DEF z, q, d, Settle
  <2>3. CASE y.last # "disable"
    <3>1. Apart(z)
      BY <1>1, <1>2, <1>3, <1>5, <2>1, <2>3 DEF Apart, Idle, Calibrations
    <3>. QED  BY <3>1 DEF z, q, d, Settle
  <2>. QED  BY <2>2, <2>3
<1>6. CASE q.mode = "save"
  <2>1. q.n = 0 /\ q.samples = "none" /\ q.step \in Idle
    BY <1>1, <1>2, <1>6 DEF Within, Calibrations
  <2>2. Apart(z)
    BY <1>3, <1>6, <2>1 DEF Apart, Calibrations
  <2>. QED  BY <2>2 DEF z, q, d, Settle
<1>7. CASE q.mode = m
  <2>1. /\ q.n # 0 \/ q.samples # "none" => m = "zero"
        /\ q.step \notin Idle => m \in {"offset", "observer"}
        /\ q.samples # "other" /\ m # "disable"
        /\ q.step = y.step
    BY <1>1, <1>2, <1>7 DEF Within, Calibrations
  <2>2. CASE z.last = m
    <3>1. Apart(z)
      BY <1>3, <1>7, <2>1, <2>2 DEF Apart
    <3>. QED  BY <3>1 DEF z, q, d, Settle
  <2>3. CASE z.last = "disable" /\ q.last = "disable" /\ q.mode = "observer" /\ ~p
    <3>1. q.step \in Idle
      BY <1>1, <1>2, <1>7, <2>1, <2>3
    <3>2. Apart(z)
      BY <1>3, <1>7, <2>1, <2>3, <3>1 DEF Apart, Calibrations
    <3>. QED  BY <3>2 DEF z, q, d, Settle
  <2>. QED  BY <1>3, <1>7, <2>2, <2>3
<1>. QED  BY <1>4, <1>5, <1>6, <1>7

LEMMA SettleApart ==
    ASSUME NEW y \in States, Apart(y), y.mode \notin Calibrations, y.mode # "clear", NEW p
    PROVE  Apart(Settle(y, p))
<1>. DEFINE d == Disarm(y)
            q == Quiet(d)
            z == Energise(q, p)
<1>1. /\ d \in States /\ d.mode \in {y.mode, "disable"} /\ d.last = y.last
      /\ d.step = y.step /\ d.n = y.n /\ d.samples = y.samples
  BY DisarmFacts
<1>. HIDE DEF d
<1>2. /\ q \in States /\ q.mode = d.mode
      /\ \/ q.last = d.last /\ q.step = d.step /\ q.n = d.n /\ q.samples = d.samples
         \/ q.mode = "disable" /\ q.step = "null" /\ q.n = 0 /\ q.samples = "none"
      /\ q.mode = "disable" /\ d.last # "disable" =>
           q.step = "null" /\ q.n = 0 /\ q.samples = "none"
      /\ q.last = d.last
  BY <1>1, QuietFacts
<1>. HIDE DEF q
<1>3. /\ z.mode = q.mode /\ z.step = q.step /\ z.n = q.n /\ z.samples = q.samples
      /\ \/ z.last = q.mode
         \/ /\ z.last = "disable" /\ q.last = "disable"
            /\ q.mode = "observer" /\ ~p
  BY <1>2, EnergiseFacts
<1>. HIDE DEF z
<1>4. q.mode \notin Calibrations /\ z.last = q.mode
  BY <1>1, <1>2, <1>3 DEF Calibrations
<1>5. q.n = 0 /\ q.samples = "none" /\ q.step \in Idle
  <2>1. CASE q.mode = "disable" /\ d.last # "disable"
    BY <1>2, <2>1 DEF Idle
  <2>2. CASE q.mode = "disable" /\ d.last = "disable"
    BY <1>1, <1>2, <2>2 DEF Apart, Idle
  <2>3. CASE q.mode # "disable"
    BY <1>1, <1>2, <1>4, <2>3 DEF Apart, Calibrations
  <2>. QED  BY <2>1, <2>2, <2>3
<1>6. Apart(z)
  BY <1>3, <1>4, <1>5 DEF Apart
<1>. QED  BY <1>6 DEF z, q, d, Settle

-----------------------------------------------------------------------------
(* The invariant.                                                          *)

LEMMA TickSeparates ==
    ASSUME CalibInv, SepInv, Tick
    PROVE  SepInv'
<1>. SUFFICES ASSUME ~slipped, ~Slips(s, s')
              PROVE  Apart(s') /\ enc'.zero # "other"
  BY DEF Tick, SepInv, Apart
<1>1. PICK x \in Upset(s) : \E r \in Task(x, enc) :
        s' = Settle(r[1], Primed(x)) /\ enc' = r[2]
  BY DEF Tick
<1>2. PICK r \in Task(x, enc) : s' = Settle(r[1], Primed(x)) /\ enc' = r[2]
  BY <1>1
<1>3. /\ s \in States /\ Good(s) /\ enc \in Encoders /\ enc.table = "sound"
      /\ Apart(s) /\ enc.zero # "other"
  BY DEF CalibInv, Good, TypeOK, InstalledIsSound, SepInv
<1>4. /\ x \in States /\ Apart(x) /\ x.last = s.last /\ Good(x)
      /\ x.mode = s.mode \/ x.mode = "disable"
  BY <1>3, UpsetApart, UpsetGood
<1>5. r[1] \in States
  BY <1>3, <1>4, TaskOk DEF OkPair, Fair
<1>6. CASE x.mode \notin Calibrations
  <2>1. Apart(r[1]) /\ r[1].mode \notin Calibrations /\ r[1].mode # "clear" /\ r[2].zero # "other"
    BY <1>3, <1>4, <1>6, OtherApart
  <2>. QED  BY <1>2, <1>5, <2>1, SettleApart
<1>7. CASE x.mode \in Calibrations
  <2>. DEFINE y == r[1]
              p == Primed(x)
  <2>1. /\ Within(x.mode, y) /\ r[2].zero # "other" /\ y.last = x.last
        /\ x.mode = "observer" /\ x.last = "disable" /\ ~p => y.step \in Idle
    <3>1. CASE x.mode = "zero"
      <4>1. r \in ZeroTask(x, enc)
        BY <3>1, <1>2 DEF Task
      <4>2. Within(x.mode, y) /\ r[2].zero # "other"
        BY <1>3, <1>4, <3>1, <4>1, ZeroWithin
      <4>. QED  BY <3>1, <4>1, <4>2, <1>4, ZeroLast
    <3>2. CASE x.mode = "offset"
      <4>1. Tabled(x, enc, r)
        BY <3>2, <1>2, <1>4, OffsetTabled DEF Task
      <4>2. Within(x.mode, y) /\ r[2].zero # "other"
        BY <1>3, <1>4, <3>2, <4>1, TableWithin
      <4>. QED  BY <3>2, <4>1, <4>2, TabledLast
    <3>3. CASE x.mode = "observer"
      <4>1. r \in ObserverTask(x, enc)
        BY <3>3, <1>2 DEF Task
      <4>2. Tabled(x, enc, r)
        BY <1>4, <4>1, ObserverTabled DEF Good, WorkInv, CellsBuilt
      <4>3. Within(x.mode, y) /\ r[2].zero # "other"
        BY <1>3, <1>4, <3>3, <4>2, TableWithin
      <4>4. x.last = "disable" /\ ~p => x.step = "null"
        BY <1>4, <3>3 DEF Apart, Idle, Primed
      <4>5. x.step = "null" => y.step \in Idle
        BY <1>4, <4>1, FirstIdle
      <4>. QED  BY <4>2, <4>3, <4>4, <4>5, TabledLast
    <3>. QED  BY <1>7, <3>1, <3>2, <3>3 DEF Calibrations
  <2>2. y \in States
    BY <1>5
  <2>3. s' = Settle(y, p)
    BY <1>2
  <2>. HIDE DEF y, p
  <2>4. Apart(s') \/ (y.last = "disable" /\ s'.last = "disable" /\ s'.mode = "disable")
    BY <1>7, <2>1, <2>2, <2>3, SettleWithin
  <2>5. ~(y.last = "disable" /\ s'.last = "disable" /\ s'.mode = "disable")
    <3>1. x.mode = s.mode
      BY <1>4, <1>7 DEF Calibrations
    <3>. QED  BY <1>4, <1>7, <2>1, <3>1 DEF Slips
  <2>. QED  BY <1>2, <2>1, <2>4, <2>5
<1>. QED  BY <1>6, <1>7

LEMMA OthersSeparate ==
    ASSUME CalibInv, SepInv,
           \/ \E c \in Commands : CanCheck(c)
           \/ CanWrite
           \/ Save
           \/ UNCHANGED vars
    PROVE  SepInv'
<1>. USE DEF SepInv, Apart
<1>0. s \in States
  BY DEF CalibInv, TypeOK
<1>1. ASSUME NEW c \in Commands, CanCheck(c) PROVE SepInv'
  BY <1>0, <1>1 DEF CanCheck, Failed, States
<1>2. CASE CanWrite
  <2>1. s' = [s EXCEPT !.mode = can] /\ UNCHANGED enc
        /\ slipped' = (slipped \/ (can \notin {"disable", "clear"} /\ s.last \in Calibrations))
    BY <1>2 DEF CanWrite
  <2>. QED  BY <1>0, <2>1 DEF States
<1>3. CASE Save
  <2>1. /\ s'.mode = "disable" /\ s'.last = s.last /\ s'.n = s.n /\ s'.step = s.step
        /\ s'.samples = s.samples /\ UNCHANGED <<enc, slipped>>
    BY <1>0, <1>3 DEF Save, States
  <2>. QED  BY <2>1
<1>4. CASE UNCHANGED vars
  BY <1>4 DEF vars
<1>. QED  BY <1>1, <1>2, <1>3, <1>4

(* EncoderCalibration_Reset, in the tick that sees the motor stopped, is   *)
(* enough: unless a calibration slipped past it, nothing is under way at   *)
(* rest, and no zero in force was measured with another table.             *)
THEOREM CalibrationsAreSeparate == Spec => []RunsAreSeparate
<1>1. Init => SepInv
  BY DEF Init, SepInv, Apart, Idle, Calibrations
<1>2. CalibInv /\ SepInv /\ [Next]_vars => SepInv'
  BY TickSeparates, OthersSeparate DEF Next
<1>3. SepInv => RunsAreSeparate
  BY DEF SepInv, Apart, Idle, RunsAreSeparate, AtRest
<1>. QED  BY <1>1, <1>2, <1>3, CalibInvariance, PTL DEF Spec

=============================================================================
