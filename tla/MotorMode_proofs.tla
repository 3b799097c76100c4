-------------------------- MODULE MotorMode_proofs --------------------------
(***************************************************************************)
(* Proofs about MotorMode for every set of commands and every heartbeat    *)
(* limit.  There is one lemma for each stage of the tick, which says what  *)
(* the stage may change, and one for each step of the other contexts.      *)
(***************************************************************************)
EXTENDS MotorMode, TLAPS

(* What the bridge is bound to: the fields a tick must leave in agreement, *)
(* whatever the other contexts wrote since the tick before it.             *)
Safe(x) ==
    /\ x.phases # "off" => x.errLast = "none" /\ x.last \notin Unpowered
    /\ x.heat \in {"latched", "invalid"} => x.phases = "off" \/ x.last = "offset"
    /\ (x.waits /\ x.last # "offset") \/ x.load = "taken" => x.phases = "off"

MotorInv == MotorTypeOK /\ Safe(m)

\* The three state properties are what Safe says of the motor.
LEMMA SafeMeans ==
    Safe(m) => PoweredIsHealthy /\ SaveIsQuiet /\ TrippedIsOff /\ SettledBeforeDriven
  BY DEF Safe, PoweredIsHealthy, SaveIsQuiet, TrippedIsOff, SettledBeforeDriven, Unpowered

LEMMA MotorInitInv == MotorInit => MotorInv
<1> SUFFICES ASSUME MotorInit PROVE MotorInv
  OBVIOUS
<1>1. m \in MotorSet /\ m.phases = "off"
  BY DEF MotorInit, MotorSet, Modes, Errors, Heats
<1>2. can \in [pc : {"idle", "resume", "command", "write"},
               cmd : Commands \cup {"query"}, write : Writes]
  BY DEF MotorInit, NoFrame, Writes, Nothing
<1>3. QED
  BY <1>1, <1>2, CommandAssumption DEF MotorInv, MotorTypeOK, MotorInit, Safe

-----------------------------------------------------------------------------
(* The stages of the tick.                                                 *)

\* The fields that no stage before the mode's own work touches.
Same(x, y) ==
    /\ y.last = x.last /\ y.phases = x.phases /\ y.errLast = x.errLast
    /\ y.prepared = x.prepared /\ y.primed = x.primed /\ y.locked = x.locked

LEMMA SenseStage ==
    ASSUME NEW x \in MotorSet, NEW y \in Sense(x)
    PROVE  /\ y \in MotorSet /\ Same(x, y)
           /\ y.mode = x.mode /\ y.outer = x.outer /\ y.ready = x.ready
           /\ y.waits = x.waits /\ y.load = x.load
<1>1. PICK e \in {x.err, "hard"}, h \in Heating(x) : y = [x EXCEPT !.err = e, !.heat = h]
  BY Zenon DEF Sense
<1>2. e \in Errors /\ h \in Heats
  BY <1>1 DEF MotorSet, Errors, Heating, Heats
<1>3. y \in MotorSet
  BY <1>1, <1>2, Zenon DEF MotorSet
<1>4. QED
  BY <1>1, <1>3 DEF MotorSet, Same

LEMMA SettleStage ==
    ASSUME NEW x \in MotorSet, NEW y, y = Handover(Configured(x))
    PROVE  /\ y \in MotorSet /\ Same(x, y)
           /\ y.mode = x.mode /\ y.outer = x.outer /\ y.err = x.err
           /\ y.ready => x.ready
           /\ y.waits => x.phases # "off"
           /\ y.load = "taken" => /\ y.mode = "disable" /\ y.last = "disable"
                                  /\ y.err = "none" /\ y.phases = "off"
<1> DEFINE c == Configured(x)
<1>1. c \in MotorSet
  BY Zenon DEF Configured, MotorSet
<1>2. /\ Same(x, c) /\ c.mode = x.mode /\ c.outer = x.outer /\ c.err = x.err
      /\ c.ready = x.ready /\ (c.waits => x.phases # "off")
  BY DEF Configured, MotorSet, Same
<1> HIDE DEF c
<1>3. CASE c.load = "asked" /\ c.mode = "disable" /\ c.last = "disable"
           /\ c.err = "none" /\ c.phases = "off"
  <2>1. y = [c EXCEPT !.load = "taken", !.ready = FALSE]
    BY <1>3 DEF Handover, c
  <2>2. y \in MotorSet
    BY <1>1, <2>1, Zenon DEF MotorSet
  <2>3. QED
    BY <1>1, <1>2, <1>3, <2>1, <2>2 DEF MotorSet, Same
<1>4. CASE ~(c.load = "asked" /\ c.mode = "disable" /\ c.last = "disable"
             /\ c.err = "none" /\ c.phases = "off")
  <2>1. y = [c EXCEPT !.load = "none"]
    BY <1>4 DEF Handover, c
  <2>2. y \in MotorSet
    BY <1>1, <2>1, Zenon DEF MotorSet
  <2>3. QED
    BY <1>1, <1>2, <2>1, <2>2 DEF MotorSet, Same
<1>5. QED
  BY <1>3, <1>4

LEMMA ProfileStage ==
    ASSUME NEW x \in MotorSet, NEW y \in Profile(x)
    PROVE  /\ y \in MotorSet /\ Same(x, y)
           /\ y.outer = x.outer /\ y.ready = x.ready
           /\ y.waits = x.waits /\ y.load = x.load /\ y.heat = x.heat
           /\ y.mode \in {x.mode, "disable"}
           /\ x.mode = "disable" => y = x
<1>1. y = x \/ (x.mode # "disable" /\ y = [x EXCEPT !.mode = "disable", !.err = "hard"])
  BY Zenon DEF Profile
<1>2. "disable" \in Modes /\ "hard" \in Errors
  BY DEF Modes, Errors
<1>3. y \in MotorSet
  BY <1>1, <1>2, Zenon DEF MotorSet
<1>4. QED
  BY <1>1, <1>3 DEF MotorSet, Same

\* After the guard no powered mode is left to a tripped or waiting model.
LEMMA GuardStage ==
    ASSUME NEW x \in MotorSet, NEW y \in Guard(x)
    PROVE  /\ y \in MotorSet /\ Same(x, y)
           /\ y.outer = x.outer /\ y.ready = x.ready
           /\ y.waits = x.waits /\ y.load = x.load
           /\ y.mode \in {x.mode, "disable"}
           /\ y.mode \in PowerModes => y.heat \notin {"latched", "invalid"} /\ ~y.waits
           /\ x.mode = "disable" => y = x
<1> DEFINE t == Trip(x)
<1>1. t \in MotorSet
  <2>1. /\ "disable" \in Modes
        /\ (IF x.err = "none" THEN "thermal" ELSE x.err) \in Errors
        /\ (IF x.heat = "derating" /\ x.mode \in AbortOnDerating
            THEN "latched" ELSE x.heat) \in Heats
    BY DEF MotorSet, Modes, Errors, Heats
  <2>2. QED
    BY <2>1, Zenon DEF MotorSet, Trip
<1>2. /\ Same(x, t) /\ t.outer = x.outer /\ t.ready = x.ready
      /\ t.waits = x.waits /\ t.load = x.load /\ t.mode = "disable"
  BY DEF Trip, MotorSet, Same
<1>3. x.mode = "disable" => CanRun(x, x.mode)
  BY DEF CanRun, PowerModes, Modes
<1>4. CanRun(x, x.mode) /\ x.mode \in PowerModes
      => x.heat \notin {"latched", "invalid"} /\ ~x.waits
  BY DEF CanRun
<1>5. y \in {x, t} /\ (~CanRun(x, x.mode) => y = t) /\ (x.mode = "disable" => y = x)
  BY <1>3 DEF Guard
<1>6. "disable" \notin PowerModes
  BY DEF PowerModes
<1> HIDE DEF t
<1>7. CASE y = x
  <2>1. CanRun(x, x.mode) \/ x = t
    BY <1>5, <1>7
  <2>2. QED
    BY <1>2, <1>4, <1>6, <1>7, <2>1 DEF Same
<1>8. CASE y = t
  BY <1>1, <1>2, <1>5, <1>6, <1>8
<1>9. QED
  BY <1>5, <1>7, <1>8

\* An answer counts only for the mode the outer loop has been in before.
LEMMA OuterStage ==
    ASSUME NEW x \in MotorSet, NEW y \in OuterTick(x)
    PROVE  /\ y \in MotorSet /\ Same(x, y)
           /\ y.mode = x.mode /\ y.heat = x.heat
           /\ y.waits = x.waits /\ y.load = x.load
           /\ x.mode # "servo" => y.err = x.err
           /\ y.mode = "servo" /\ y.ready => x.outer = "servo"
<1> DEFINE a == IF x.mode = x.outer THEN x
                ELSE [x EXCEPT !.outer = x.mode, !.ready = FALSE]
           b == [a EXCEPT !.ready = FALSE]
<1>1. a \in MotorSet
  <2>1. x.mode \in Modes
    BY DEF MotorSet
  <2>2. QED
    BY <2>1, Zenon DEF MotorSet
<1>2. /\ Same(x, a) /\ a.mode = x.mode /\ a.heat = x.heat
      /\ a.waits = x.waits /\ a.load = x.load /\ a.err = x.err
      /\ a.ready => x.outer = x.mode
  BY DEF MotorSet, Same
<1>3. /\ y \in {a, b, [a EXCEPT !.err = "hard"], [b EXCEPT !.err = "hard"],
                [a EXCEPT !.ready = (x.mode = x.outer)]}
      /\ x.mode # "servo" => y = a
  BY Zenon DEF OuterTick
<1> HIDE DEF a
<1>4. y \in MotorSet
  <2>1. b \in MotorSet /\ "hard" \in Errors /\ (x.mode = x.outer) \in BOOLEAN
    BY <1>1, Zenon DEF MotorSet, Errors
  <2> HIDE DEF b
  <2>2. [a EXCEPT !.err = "hard"] \in MotorSet
    BY <1>1, <2>1, Zenon DEF MotorSet
  <2>3. [b EXCEPT !.err = "hard"] \in MotorSet
    BY <2>1, Zenon DEF MotorSet
  <2>4. [a EXCEPT !.ready = (x.mode = x.outer)] \in MotorSet
    BY <1>1, <2>1, Zenon DEF MotorSet
  <2>5. QED
    BY <1>1, <1>3, <2>1, <2>2, <2>3, <2>4
<1>5. CASE y = a
  BY <1>2, <1>4, <1>5 DEF Same
<1>6. CASE y = b
  <2>1. Same(a, y) /\ y.mode = a.mode /\ y.heat = a.heat /\ ~y.ready
        /\ y.waits = a.waits /\ y.load = a.load /\ y.err = a.err
    BY <1>1, <1>6 DEF MotorSet, Same
  <2>2. QED
    BY <1>2, <1>4, <2>1 DEF Same
<1>7. CASE y = [a EXCEPT !.err = "hard"]
  BY <1>1, <1>2, <1>3, <1>4, <1>7 DEF MotorSet, Same
<1>8. CASE y = [b EXCEPT !.err = "hard"]
  <2>1. x.mode # "servo" => y.err = x.err
    BY <1>2, <1>3
  <2>2. Same(a, y) /\ y.mode = a.mode /\ y.heat = a.heat /\ ~y.ready
        /\ y.waits = a.waits /\ y.load = a.load
    BY <1>1, <1>8 DEF MotorSet, Same
  <2>3. QED
    BY <1>2, <1>4, <2>1, <2>2 DEF Same
<1>9. CASE y = [a EXCEPT !.ready = (x.mode = x.outer)]
  BY <1>1, <1>2, <1>3, <1>4, <1>9 DEF MotorSet, Same
<1>10. QED
  BY <1>3, <1>5, <1>6, <1>7, <1>8, <1>9

-----------------------------------------------------------------------------
(* The mode's own work.                                                    *)

\* What the work of a mode may do to the record, whatever the mode.
Worked(x, y) ==
    /\ y \in MotorSet
    /\ y.last = x.last /\ y.errLast = x.errLast /\ y.prepared = x.prepared
    /\ y.locked = x.locked /\ y.waits = x.waits /\ y.load = x.load
    /\ y.phases \in {x.phases, "off"}
    /\ y.mode \in PowerModes => y.mode = x.mode /\ y.heat = x.heat
    /\ y.mode \notin {"default", "clear"}
    /\ y.mode = "zero" => y.err = "hard"
    /\ y.ready => x.ready

LEMMA UnchangedWorked ==
    ASSUME NEW x \in MotorSet, x.mode \notin {"default", "clear", "zero"}
    PROVE  Worked(x, x)
  BY DEF Worked

LEMMA FaultedWorked ==
    ASSUME NEW x \in MotorSet, x.mode \notin {"default", "clear", "zero"}, NEW y \in Faulted(x)
    PROVE  Worked(x, y) /\ y.mode = x.mode
<1>1. PICK e \in {"thermal", "hard"} : y = [x EXCEPT !.err = e]
  BY Zenon DEF Faulted
<1>2. y \in MotorSet
  <2>1. e \in Errors
    BY DEF Errors
  <2>2. QED
    BY <1>1, <2>1, Zenon DEF MotorSet
<1>3. QED
  BY <1>1, <1>2 DEF MotorSet, Worked

\* A mode that ends does so in a save or stopped.
LEMMA EndedWorked ==
    ASSUME NEW x \in MotorSet, NEW mode \in {"save", "disable"}, NEW y,
           y \in {[x EXCEPT !.mode = mode], [x EXCEPT !.mode = mode, !.primed = FALSE],
                  [x EXCEPT !.mode = mode, !.ready = FALSE]}
    PROVE  Worked(x, y)
<1>1. mode \in Modes /\ mode \notin PowerModes
  BY DEF Modes, PowerModes
<1>2. CASE y = [x EXCEPT !.mode = mode]
  <2>1. y \in MotorSet
    BY <1>1, <1>2, Zenon DEF MotorSet
  <2>2. QED
    BY <1>1, <1>2, <2>1 DEF MotorSet, Worked
<1>3. CASE y = [x EXCEPT !.mode = mode, !.primed = FALSE]
  <2>1. y \in MotorSet
    BY <1>1, <1>3, Zenon DEF MotorSet
  <2>2. QED
    BY <1>1, <1>3, <2>1 DEF MotorSet, Worked
<1>4. CASE y = [x EXCEPT !.mode = mode, !.ready = FALSE]
  <2>1. y \in MotorSet
    BY <1>1, <1>4, Zenon DEF MotorSet
  <2>2. QED
    BY <1>1, <1>4, <2>1 DEF MotorSet, Worked
<1>5. QED
  BY <1>2, <1>3, <1>4

LEMMA AbortedWorked ==
    ASSUME NEW x \in MotorSet
    PROVE  Worked(x, Aborted(x))
<1>1. Aborted(x) \in MotorSet
  <2>1. "disable" \in Modes /\ "off" \in {"off", "pwm", "short"}
    BY DEF Modes
  <2>2. QED
    BY <2>1, Zenon DEF MotorSet, Aborted
<1>2. QED
  BY <1>1 DEF MotorSet, Worked, Aborted, PowerModes

LEMMA ClearedWorked ==
    ASSUME NEW x \in MotorSet, NEW y \in TryClear(x)
    PROVE  Worked(x, y)
<1>1. PICK cool \in CanClear(x) :
        y = [x EXCEPT !.mode = "disable",
                      !.err  = IF cool \/ @ # "thermal" THEN "none" ELSE @,
                      !.heat = IF cool /\ @ = "latched" THEN "cool" ELSE @]
  BY Zenon DEF TryClear
<1>2. /\ "disable" \in Modes
      /\ (IF cool \/ x.err # "thermal" THEN "none" ELSE x.err) \in Errors
      /\ (IF cool /\ x.heat = "latched" THEN "cool" ELSE x.heat) \in Heats
  BY DEF MotorSet, Modes, Errors, Heats
<1>3. y \in MotorSet
  BY <1>1, <1>2, Zenon DEF MotorSet
<1>4. QED
  BY <1>1, <1>3 DEF MotorSet, Worked, PowerModes

LEMMA ObserveWorked ==
    ASSUME NEW x \in MotorSet, x.mode = "observer", NEW y \in Observe(x)
    PROVE  Worked(x, y)
<1>1. CASE y = Aborted(x)
  BY <1>1, AbortedWorked
<1>2. CASE y = x \/ y \in Faulted(x)
  BY <1>2, UnchangedWorked, FaultedWorked
<1>3. CASE y = [x EXCEPT !.primed = (~@ /\ x.last = "disable")]
  <2>1. (~x.primed /\ x.last = "disable") \in BOOLEAN
    OBVIOUS
  <2>2. y \in MotorSet
    BY <1>3, <2>1, Zenon DEF MotorSet
  <2>3. QED
    BY <1>3, <2>2 DEF MotorSet, Worked
<1>4. CASE y = [x EXCEPT !.mode = "save", !.primed = FALSE]
  BY <1>4, EndedWorked
<1>5. CASE y \in {Aborted(z) : z \in Faulted(x)}
  <2>1. PICK z \in Faulted(x) : y = Aborted(z)
    BY <1>5
  <2>2. Worked(x, z) /\ Worked(z, y)
    BY <2>1, FaultedWorked, AbortedWorked DEF Worked
  <2>3. y.mode = "disable"
    BY <2>1, <2>2 DEF Aborted, Worked, MotorSet
  <2>4. QED
    BY <2>2, <2>3 DEF Worked, PowerModes
<1>6. QED
  BY <1>1, <1>2, <1>3, <1>4, <1>5, Zenon DEF Observe

LEMMA TaskStage ==
    ASSUME NEW x \in MotorSet, NEW y \in Task(x)
    PROVE  Worked(x, y) /\ (x.mode = "disable" => y = x)
<1>1. CASE x.mode \in {"current", "servo"}
  <2>1. y = x \/ y \in Faulted(x)
    BY <1>1 DEF Task, Drive
  <2>2. QED
    BY <1>1, <2>1, UnchangedWorked, FaultedWorked
<1>2. CASE x.mode = "calib"
  <2>1. \/ y = x \/ y \in Faulted(x)
        \/ y = [x EXCEPT !.mode = "save"] \/ y = [x EXCEPT !.mode = "disable"]
    BY <1>2 DEF Task, Calibrate
  <2>2. QED
    BY <1>2, <2>1, UnchangedWorked, FaultedWorked, EndedWorked
<1>3. CASE x.mode = "observer"
  <2>1. y \in Observe(x)
    BY <1>3 DEF Task
  <2>2. QED
    BY <1>3, <2>1, ObserveWorked
<1>4. CASE x.mode = "offset"
  <2>1. y = x \/ y = [x EXCEPT !.mode = "disable"]
    BY <1>4 DEF Task, MeasureOffset
  <2>2. QED
    BY <1>4, <2>1, UnchangedWorked, EndedWorked
<1>5. CASE x.mode = "zero"
  <2>1. \/ y = [x EXCEPT !.err = "hard"]
        \/ y = [x EXCEPT !.mode = "save", !.ready = FALSE]
    BY <1>5 DEF Task, SetZero
  <2>2. CASE y = [x EXCEPT !.err = "hard"]
    <3>1. y \in MotorSet
      <4>1. "hard" \in Errors
        BY DEF Errors
      <4>2. QED
        BY <2>2, <4>1, Zenon DEF MotorSet
    <3>2. QED
      BY <1>5, <2>2, <3>1 DEF MotorSet, Worked
  <2>3. QED
    BY <1>5, <2>1, <2>2, EndedWorked
<1>6. CASE x.mode = "default"
  <2> DEFINE z == [x EXCEPT !.mode = "save"]
  <2>1. Worked(x, z) /\ z \in MotorSet
    BY EndedWorked DEF Worked
  <2>2. y \in TryClear(z)
    BY <1>6 DEF Task, ReturnDefault
  <2> HIDE DEF z
  <2>3. Worked(z, y)
    BY <2>1, <2>2, ClearedWorked
  <2>4. QED
    BY <1>6, <2>1, <2>3 DEF Worked
<1>7. CASE x.mode = "clear"
  <2>1. y \in TryClear(x)
    BY <1>7 DEF Task
  <2>2. QED
    BY <1>7, <2>1, ClearedWorked
<1>8. CASE x.mode \in {"disable", "damping", "save"}
  <2>1. y = x
    BY <1>8 DEF Task
  <2>2. QED
    BY <1>8, <2>1, UnchangedWorked
<1>9. QED
  BY <1>1, <1>2, <1>3, <1>4, <1>5, <1>6, <1>7, <1>8 DEF MotorSet, Modes

-----------------------------------------------------------------------------
(* The end of the tick.                                                    *)

\* A tick with an error ends stopped or saving, and a new zero never lasts.
LEMMA DisarmStage ==
    ASSUME NEW x \in MotorSet, x.mode \notin {"default", "clear"},
           x.mode = "zero" => x.err = "hard"
    PROVE  LET y == Disarm(x) IN
           /\ y \in MotorSet /\ Same(x, y) /\ y.heat = x.heat
           /\ y.waits = x.waits /\ y.load = x.load /\ y.ready = x.ready /\ y.err = x.err
           /\ y.mode \in {x.mode, "disable"}
           /\ y.mode \notin {"default", "clear", "zero"}
           /\ y.err # "none" => y.mode \in {"disable", "save"}
<1> DEFINE y == Disarm(x)
<1>1. y = x \/ y = [x EXCEPT !.mode = "disable"]
  BY DEF Disarm
<1>2. y \in MotorSet
  <2>1. "disable" \in Modes
    BY DEF Modes
  <2>2. QED
    BY <1>1, <2>1, Zenon DEF MotorSet
<1>3. x.err # "none" /\ x.mode # "save" => y.mode = "disable"
  BY DEF Disarm, MotorSet
<1> HIDE DEF y
<1>4. /\ Same(x, y) /\ y.heat = x.heat
      /\ y.waits = x.waits /\ y.load = x.load /\ y.ready = x.ready /\ y.err = x.err
      /\ y.mode \in {x.mode, "disable"}
  BY <1>1 DEF MotorSet, Same
<1>5. QED
  BY <1>2, <1>3, <1>4 DEF y

\* Whoever is stopped or saving has the outputs off.
LEMMA QuietStage ==
    ASSUME NEW x \in MotorSet, x.mode # "zero"
    PROVE  LET y == Quiet(x) IN
           /\ y \in MotorSet
           /\ y.mode = x.mode /\ y.err = x.err /\ y.heat = x.heat
           /\ y.last = x.last /\ y.errLast = x.errLast /\ y.prepared = x.prepared
           /\ y.waits = x.waits /\ y.load = x.load /\ y.locked = x.locked
           /\ y.ready => x.ready
           /\ y.phases \in {x.phases, "off"}
           /\ y.mode \in {"disable", "save"} => y.phases = "off"
<1> DEFINE y == Quiet(x)
<1>1. \/ y = [x EXCEPT !.phases = "off", !.primed = FALSE, !.ready = FALSE]
      \/ y = [x EXCEPT !.phases = "off"]
      \/ y = x /\ (x.mode = "disable" => x.phases = "off") /\ x.mode # "save"
  BY DEF Quiet
<1> HIDE DEF y
<1>2. y \in MotorSet
  <2>1. "off" \in {"off", "pwm", "short"}
    OBVIOUS
  <2>2. QED
    BY <1>1, <2>1, Zenon DEF MotorSet
<1>3. QED
  BY <1>1, <1>2 DEF MotorSet, y

\* Outputs go on only in a driving mode, which is then the last mode.
LEMMA EnergiseStage ==
    ASSUME NEW x \in MotorSet, NEW primed,
           x.mode \in {"disable", "save"} => x.phases = "off",
           x.last = "disable" => x.phases = "off",
           x.mode # "zero"
    PROVE  LET y == Energise(x, primed) IN
           /\ y \in MotorSet
           /\ y.mode = x.mode /\ y.err = x.err /\ y.errLast = x.err /\ y.heat = x.heat
           /\ y.waits = x.waits /\ y.load = x.load /\ y.locked = x.locked
           /\ y.ready = x.ready
           /\ y.phases # "off" => y.last = x.mode /\ x.mode \notin Unpowered
           /\ y.last \in {x.last, x.mode}
           /\ x.mode \in Unpowered => y.phases = x.phases /\ y.last = x.mode
           /\ x.phases = "off" /\ y.phases = "pwm" /\ x.mode = "servo"
                => x.prepared /\ x.ready
<1> DEFINE starts == x.last = "disable" /\ x.mode \notin Unpowered
           defers == /\ starts
                     /\ \/ x.mode = "observer" /\ ~primed
                        \/ x.mode = "servo" /\ ~(x.prepared /\ x.ready)
           phases == IF ~starts \/ defers THEN x.phases
                     ELSE IF x.mode = "damping" THEN "short" ELSE "pwm"
           prepared == defers /\ (x.prepared \/ x.mode = "servo")
           last == IF defers THEN x.last ELSE x.mode
           y == Energise(x, primed)
<1>1. y = [x EXCEPT !.phases = phases, !.prepared = prepared, !.last = last,
                    !.errLast = x.err]
  BY Zenon DEF Energise
<1>2. /\ phases \in {"off", "pwm", "short"} /\ prepared \in BOOLEAN
      /\ last \in Modes /\ x.err \in Errors
  BY DEF MotorSet
<1>3. /\ phases # "off" => last = x.mode /\ x.mode \notin Unpowered
      /\ last \in {x.last, x.mode}
      /\ x.mode \in Unpowered => phases = x.phases /\ last = x.mode
      /\ x.phases = "off" /\ phases = "pwm" /\ x.mode = "servo" => x.prepared /\ x.ready
  BY DEF Unpowered
<1> HIDE DEF y, phases, prepared, last
<1>4. y \in MotorSet
  BY <1>1, <1>2, Zenon DEF MotorSet
<1>5. /\ y.phases = phases /\ y.last = last /\ y.errLast = x.err
      /\ y.mode = x.mode /\ y.err = x.err /\ y.heat = x.heat
      /\ y.waits = x.waits /\ y.load = x.load /\ y.locked = x.locked /\ y.ready = x.ready
  BY <1>1 DEF MotorSet
<1>6. QED
  BY <1>3, <1>4, <1>5 DEF y

-----------------------------------------------------------------------------
(* The tick as a whole.                                                    *)

\* What the mode's own work finds.
LEMMA EnteredStage ==
    ASSUME NEW x \in MotorSet, NEW y \in Entered(x)
    PROVE  /\ y \in MotorSet /\ Same(x, y)
           /\ y.mode \in {x.mode, "disable"}
           /\ y.waits => x.phases # "off"
           /\ y.load = "taken" => y.mode = "disable" /\ y.last = "disable" /\ y.phases = "off"
           /\ y.mode \in PowerModes => y.heat \notin {"latched", "invalid"} /\ ~y.waits
           /\ y.mode = "servo" /\ y.ready => x.outer = "servo"
<1> DEFINE settled == {Handover(Configured(a)) : a \in Sense(x)}
           guarded == UNION {Guard(a) : a \in UNION {Profile(b) : b \in settled}}
<1>1. PICK g \in guarded : y \in OuterTick(g)
  BY Zenon DEF Entered
<1>2. PICK p \in UNION {Profile(b) : b \in settled} : g \in Guard(p)
  BY Zenon
<1>3. PICK h \in settled : p \in Profile(h)
  BY Zenon
<1>4. PICK a \in Sense(x) : h = Handover(Configured(a))
  BY Zenon
<1> HIDE DEF settled, guarded
<1>5. a \in MotorSet /\ Same(x, a) /\ a.mode = x.mode /\ a.outer = x.outer
  BY SenseStage
<1>6. /\ h \in MotorSet /\ Same(x, h) /\ h.mode = x.mode /\ h.outer = x.outer
      /\ h.waits => x.phases # "off"
      /\ h.load = "taken" => /\ h.mode = "disable" /\ h.last = "disable"
                             /\ h.err = "none" /\ h.phases = "off"
  BY <1>4, <1>5, SettleStage DEF Same
<1>7. /\ p \in MotorSet /\ Same(x, p) /\ p.mode \in {x.mode, "disable"} /\ p.outer = x.outer
      /\ p.waits => x.phases # "off"
      /\ p.load = "taken" => p.mode = "disable" /\ p.last = "disable" /\ p.phases = "off"
  BY <1>3, <1>6, ProfileStage DEF Same
<1>8. /\ g \in MotorSet /\ Same(x, g) /\ g.mode \in {x.mode, "disable"} /\ g.outer = x.outer
      /\ g.waits => x.phases # "off"
      /\ g.load = "taken" => g.mode = "disable" /\ g.last = "disable" /\ g.phases = "off"
      /\ g.mode \in PowerModes => g.heat \notin {"latched", "invalid"} /\ ~g.waits
  BY <1>2, <1>7, GuardStage DEF Same
<1>9. /\ y \in MotorSet /\ Same(g, y) /\ y.mode = g.mode /\ y.heat = g.heat
      /\ y.waits = g.waits /\ y.load = g.load
      /\ y.mode = "servo" /\ y.ready => g.outer = "servo"
  BY <1>1, <1>8, OuterStage
<1>10. QED
  BY <1>8, <1>9 DEF Same

Ticked(x, z) == \E a \in Entered(x) : \E b \in Task(a) :
                   z = Energise(Quiet(Disarm(b)), a.mode = "observer" /\ a.primed)

\* A tick leaves the bridge safe, starts a servo mode only when it is ready,
\* and leaves a motor at rest that nobody asked to move.
LEMMA TickStage ==
    ASSUME NEW x \in MotorSet, NEW z, Ticked(x, z), Safe(x)
    PROVE  /\ z \in MotorSet /\ Safe(z) /\ z.locked = x.locked
           /\ x.phases = "off" /\ z.phases = "pwm" /\ z.last = "servo"
                => x.prepared /\ z.ready /\ x.outer = "servo"
           /\ x.mode = "disable" /\ x.last = "disable" /\ x.phases = "off"
                => z.mode = "disable" /\ z.last = "disable" /\ z.phases = "off"
<1>0. PICK a \in Entered(x) : \E b \in Task(a) :
        z = Energise(Quiet(Disarm(b)), a.mode = "observer" /\ a.primed)
  BY DEF Ticked
<1>1. PICK b \in Task(a) :
        z = Energise(Quiet(Disarm(b)), a.mode = "observer" /\ a.primed)
  BY <1>0
<1> DEFINE d == Disarm(b)
           q == Quiet(d)
<1>2. /\ a \in MotorSet /\ Same(x, a)
      /\ a.mode \in {x.mode, "disable"}
      /\ a.waits => x.phases # "off"
      /\ a.load = "taken" => a.mode = "disable" /\ a.last = "disable" /\ a.phases = "off"
      /\ a.mode \in PowerModes => a.heat \notin {"latched", "invalid"} /\ ~a.waits
      /\ a.mode = "servo" /\ a.ready => x.outer = "servo"
  BY EnteredStage
<1>3. Worked(a, b) /\ (a.mode = "disable" => b = a)
  BY <1>2, TaskStage
<1>4. b \in MotorSet /\ b.mode \notin {"default", "clear"} /\ (b.mode = "zero" => b.err = "hard")
  BY <1>3 DEF Worked
<1>5. /\ d \in MotorSet /\ Same(b, d) /\ d.heat = b.heat
      /\ d.waits = b.waits /\ d.load = b.load /\ d.ready = b.ready
      /\ d.mode \in {b.mode, "disable"}
      /\ d.mode \notin {"default", "clear", "zero"}
      /\ d.err # "none" => d.mode \in {"disable", "save"}
  BY <1>4, DisarmStage
<1> HIDE DEF d
<1>6. /\ q \in MotorSet
      /\ q.mode = d.mode /\ q.err = d.err /\ q.heat = d.heat
      /\ q.last = d.last /\ q.prepared = d.prepared
      /\ q.waits = d.waits /\ q.load = d.load /\ q.locked = d.locked
      /\ q.ready => d.ready
      /\ q.phases \in {d.phases, "off"}
      /\ q.mode \in {"disable", "save"} => q.phases = "off"
  BY <1>5, QuietStage
<1> HIDE DEF q
<1>7. b.last = x.last /\ b.prepared = x.prepared /\ b.phases \in {x.phases, "off"}
      /\ b.locked = x.locked
  BY <1>2, <1>3 DEF Worked, Same
<1>8. q.last = "disable" => q.phases = "off"
  BY <1>5, <1>6, <1>7 DEF Safe, Same, Unpowered
<1>9. /\ z \in MotorSet
      /\ z.mode = q.mode /\ z.errLast = q.err /\ z.heat = q.heat
      /\ z.waits = q.waits /\ z.load = q.load /\ z.locked = q.locked
      /\ z.ready = q.ready
      /\ z.phases # "off" => z.last = q.mode /\ q.mode \notin Unpowered
      /\ q.mode \in Unpowered => z.phases = q.phases /\ z.last = q.mode
      /\ q.phases = "off" /\ z.phases = "pwm" /\ q.mode = "servo" => q.prepared /\ q.ready
  <2>1. z = Energise(q, a.mode = "observer" /\ a.primed)
    BY <1>1 DEF q, d
  <2>2. q.mode # "zero"
    BY <1>5, <1>6
  <2>3. QED
    BY <1>6, <1>8, <2>1, <2>2, EnergiseStage
<1>10. z.phases # "off" =>
          /\ z.errLast = "none"
          /\ z.last = q.mode /\ q.mode = b.mode
          /\ b.mode \in PowerModes \cup {"offset"}
          /\ b.mode \in PowerModes => b.heat \notin {"latched", "invalid"} /\ ~b.waits
  <2>1. ASSUME z.phases # "off" PROVE q.mode \notin Unpowered \cup {"default", "clear"}
    BY <1>5, <1>6, <1>9, <2>1
  <2>2. ASSUME z.phases # "off" PROVE q.mode = b.mode /\ d.err = "none"
    BY <1>5, <1>6, <2>1, <2>2 DEF Unpowered, MotorSet
  <2>3. ASSUME z.phases # "off" PROVE b.mode \in PowerModes \cup {"offset"}
    BY <1>4, <2>1, <2>2, <2>3 DEF Unpowered, MotorSet, Modes, PowerModes
  <2>4. b.mode \in PowerModes => b.heat \notin {"latched", "invalid"} /\ ~b.waits
    BY <1>2, <1>3 DEF Worked
  <2>5. QED
    BY <1>6, <1>9, <2>1, <2>2, <2>3, <2>4
<1>11. z.load = "taken" => z.phases = "off"
  BY <1>2, <1>3, <1>5, <1>6, <1>9 DEF Unpowered, Same, Worked
<1>12. Safe(z)
  BY <1>5, <1>6, <1>9, <1>10, <1>11 DEF Safe
<1>13. x.phases = "off" /\ z.phases = "pwm" /\ z.last = "servo"
         => x.prepared /\ z.ready /\ x.outer = "servo"
  <2> SUFFICES ASSUME x.phases = "off", z.phases = "pwm", z.last = "servo"
               PROVE  x.prepared /\ z.ready /\ x.outer = "servo"
    OBVIOUS
  <2>1. q.mode = "servo" /\ b.mode = "servo"
    BY <1>10
  <2>2. q.phases = "off"
    BY <1>5, <1>6, <1>7 DEF Same
  <2>3. q.prepared /\ q.ready
    BY <1>9, <2>1, <2>2
  <2>4. b.ready /\ b.prepared
    BY <1>5, <1>6, <2>3 DEF Same
  <2>5. a.mode = "servo" /\ a.ready
    BY <1>3, <2>1, <2>4 DEF Worked, PowerModes
  <2>6. QED
    BY <1>2, <1>7, <1>9, <2>3, <2>4, <2>5
<1>14. x.mode = "disable" /\ x.last = "disable" /\ x.phases = "off"
         => z.mode = "disable" /\ z.last = "disable" /\ z.phases = "off"
  BY <1>2, <1>3, <1>5, <1>6, <1>7, <1>9 DEF Unpowered
<1>15. z.locked = x.locked
  BY <1>5, <1>6, <1>7, <1>9 DEF Same
<1>16. QED
  BY <1>9, <1>12, <1>13, <1>14, <1>15

-----------------------------------------------------------------------------
(* The other contexts: none of them switches the outputs on, or changes    *)
(* what the last tick left of the mode and the error.                      *)

Tame(x, y) ==
    /\ y \in MotorSet
    /\ y.last = x.last /\ y.errLast = x.errLast /\ y.locked = x.locked
    /\ y.phases \in {x.phases, "off"}
    /\ y.heat \in {x.heat, "late"}
    /\ y.waits => x.waits \/ x.phases = "off"
    /\ y.load = "taken" => x.load = "taken"

LEMMA TameIsSafe ==
    ASSUME NEW x \in MotorSet, NEW y, Tame(x, y), Safe(x)
    PROVE  Safe(y)
  BY DEF Tame, Safe

CanSet == [pc : {"idle", "resume", "command", "write"},
           cmd : Commands \cup {"query"}, write : Writes]

LEMMA WritesTame ==
    ASSUME NEW x \in MotorSet, NEW w \in Writes
    PROVE  Tame(x, Written(x, w))
<1> DEFINE y == Written(x, w)
<1>1. CASE w = Nothing
  <2>1. y = x
    BY <1>1 DEF Written, Nothing
  <2>2. QED
    BY <2>1 DEF Tame
<1>2. CASE w \in [kind : {"mode"}, mode : Modes]
  <2>1. w.mode \in Modes /\ y = [x EXCEPT !.mode = w.mode]
    BY <1>2 DEF Written
  <2>2. y \in MotorSet
    BY <2>1, Zenon DEF MotorSet
  <2>3. QED
    BY <2>1, <2>2 DEF Tame, MotorSet
<1>3. CASE w \in [kind : {"err"}, err : Errors]
  <2>1. w.err \in Errors /\ y = [x EXCEPT !.err = w.err]
    BY <1>3 DEF Written
  <2>2. y \in MotorSet
    BY <2>1, Zenon DEF MotorSet
  <2>3. QED
    BY <2>1, <2>2 DEF Tame, MotorSet
<1>4. QED
  BY <1>1, <1>2, <1>3 DEF Writes

\* What ModeSwitch_Handle is about to write, whatever it is asked for.
LEMMA SwitchType ==
    ASSUME NEW c
    PROVE  ModeSwitch(c) \subseteq Writes
<1>1. Nothing \in Writes /\ Fault("thermal") \in Writes /\ Fault("hard") \in Writes
  BY DEF Writes, Fault, Errors
<1>2. CanRun(m, c) => Mode(c) \in Writes
  BY DEF Writes, Mode, CanRun
<1>3. QED
  BY <1>1, <1>2 DEF ModeSwitch

LEMMA CanRxStep ==
    ASSUME MotorTypeOK, NEW c \in Commands, CanRx(c)
    PROVE  MotorTypeOK' /\ m' = m
<1>1. can' \in CanSet
  BY DEF CanRx, CanSet, Writes
<1>2. QED
  BY <1>1, CommandAssumption DEF CanRx, MotorTypeOK, CanSet

LEMMA CanSteps ==
    ASSUME MotorTypeOK, CanStep
    PROVE  MotorTypeOK' /\ Tame(m, m')
<1>1. NoFrame \in CanSet
  BY DEF NoFrame, CanSet, Writes
<1>2. m \in MotorSet /\ can \in CanSet
  BY DEF MotorTypeOK, CanSet
<1>3. UNCHANGED <<tim, beat>>
  BY DEF CanStep, CanResume, CanCommand, CanSettings, CanWrite
<1>4. CASE CanResume
  <2>1. can' \in CanSet
    BY <1>2, <1>4 DEF CanResume, CanSet
  <2>2. m' \in MotorSet
    <3>1. "none" \in Errors
      BY DEF Errors
    <3>2. QED
      BY <1>2, <1>4, <3>1, Zenon DEF CanResume, MotorSet
  <2>3. QED
    BY <1>2, <1>3, <1>4, <2>1, <2>2 DEF CanResume, MotorTypeOK, MotorSet, Tame, CanSet
<1>5. CASE CanCommand
  <2>1. PICK w \in Writes :
          /\ can' = IF w = Nothing THEN NoFrame ELSE [can EXCEPT !.pc = "write", !.write = w]
          /\ m' \in {m, [m EXCEPT !.ready = @ /\ w # Mode("servo")]}
    <3>1. Nothing \in Writes
      BY DEF Writes
    <3>2. QED
      BY <1>5, <3>1, SwitchType DEF CanCommand
  <2>2. can' \in CanSet
    BY <1>1, <1>2, <2>1 DEF CanSet
  <2>3. m' \in MotorSet
    <3>1. (m.ready /\ w # Mode("servo")) \in BOOLEAN
      OBVIOUS
    <3>2. QED
      BY <1>2, <2>1, <3>1, Zenon DEF MotorSet
  <2>4. Tame(m, m')
    BY <1>2, <2>1, <2>3 DEF MotorSet, Tame
  <2>5. QED
    BY <1>3, <2>2, <2>3, <2>4 DEF MotorTypeOK, CanSet
<1>6. CASE CanSettings
  <2> DEFINE waits == m.waits \/ (m.mode = "disable" /\ m.phases = "off" /\ m.heat # "invalid")
             load == IF m.mode = "disable" /\ m.last = "disable"
                        /\ m.err = "none" /\ m.phases = "off" THEN "asked" ELSE m.load
  <2>1. m' = [m EXCEPT !.waits = waits] \/ m' = [m EXCEPT !.load = load]
    BY <1>6 DEF CanSettings
  <2>2. /\ waits \in BOOLEAN /\ load \in {"none", "asked", "taken"}
        /\ waits => m.waits \/ m.phases = "off"
        /\ load = "taken" => m.load = "taken"
    BY <1>2 DEF MotorSet
  <2> HIDE DEF waits, load
  <2>3. m' \in MotorSet
    BY <1>2, <2>1, <2>2, Zenon DEF MotorSet
  <2>4. Tame(m, m')
    BY <1>2, <2>1, <2>2, <2>3 DEF MotorSet, Tame
  <2>5. QED
    BY <1>1, <1>3, <1>6, <2>3, <2>4 DEF CanSettings, MotorTypeOK, CanSet
<1>7. CASE CanWrite
  <2>1. can.write \in Writes
    BY <1>2 DEF CanSet
  <2>2. Tame(m, m')
    BY <1>2, <1>7, <2>1, WritesTame DEF CanWrite
  <2>3. QED
    BY <1>1, <1>3, <1>7, <2>2 DEF CanWrite, MotorTypeOK, CanSet, Tame
<1>8. QED
  BY <1>4, <1>5, <1>6, <1>7 DEF CanStep

LEMMA TimTame ==
    ASSUME MotorTypeOK, TimTemperature \/ TimStep
    PROVE  Tame(m, m')
<1>1. m \in MotorSet
  BY DEF MotorTypeOK
<1>2. m' = m => Tame(m, m')
  BY <1>1 DEF Tame
<1>3. CASE TimTemperature \/ TimFault \/ TimSilence
  <2>1. PICK e \in Errors : m' = [m EXCEPT !.err = e]
    BY <1>1, <1>3 DEF TimTemperature, TimFault, TimSilence, MotorSet, Errors
  <2>2. m' \in MotorSet
    BY <1>1, <2>1, Zenon DEF MotorSet
  <2>3. QED
    BY <1>1, <2>1, <2>2 DEF MotorSet, Tame
<1>4. CASE TimLate
  <2>1. \E h \in {m.heat, "late"} : m' = [m EXCEPT !.heat = h]
    BY <1>4 DEF TimLate
  <2>2. ASSUME NEW h \in {m.heat, "late"}, m' = [m EXCEPT !.heat = h] PROVE Tame(m, m')
    <3>1. h \in Heats
      BY <1>1 DEF MotorSet, Heats
    <3>2. m' \in MotorSet
      BY <1>1, <2>2, <3>1, Zenon DEF MotorSet
    <3>3. QED
      BY <1>1, <2>2, <3>2 DEF MotorSet, Tame
  <2>3. QED
    BY <2>1, <2>2
<1>5. CASE TimDisable
  <2>1. m' = [m EXCEPT !.mode = "disable"] /\ "disable" \in Modes
    BY <1>5 DEF TimDisable, Modes
  <2>2. m' \in MotorSet
    BY <1>1, <2>1, Zenon DEF MotorSet
  <2>3. QED
    BY <1>1, <2>1, <2>2 DEF MotorSet, Tame
<1>6. CASE TimStop
  <2>1. m' = [m EXCEPT !.phases = "off"] /\ "off" \in {"off", "pwm", "short"}
    BY <1>6 DEF TimStop
  <2>2. m' \in MotorSet
    BY <1>1, <2>1, Zenon DEF MotorSet
  <2>3. QED
    BY <1>1, <2>1, <2>2 DEF MotorSet, Tame
<1>7. CASE TimWatch \/ TimTest \/ TimHeartbeat
  BY <1>2, <1>7 DEF TimWatch, TimTest, TimHeartbeat
<1>8. QED
  BY <1>3, <1>4, <1>5, <1>6, <1>7 DEF TimStep

LEMMA TimSteps ==
    ASSUME MotorTypeOK, TimTemperature \/ TimStep
    PROVE  MotorTypeOK' /\ Tame(m, m')
<1>1. Tame(m, m')
  BY TimTame
<1>2. can' = can
  BY DEF TimTemperature, TimStep, TimWatch, TimLate, TimTest, TimFault, TimDisable,
         TimStop, TimHeartbeat, TimSilence
<1>3. /\ tim' \in {"idle", "watch", "late", "test", "fault", "disable", "stop", "beat",
                 "silence"}
      /\ beat' \in [count : 0 .. HeartbeatMs, rx : BOOLEAN]
  BY CommandAssumption
  DEF MotorTypeOK, TimTemperature, TimStep, TimWatch, TimLate, TimTest, TimFault,
      TimDisable, TimStop, TimHeartbeat, TimSilence
<1>4. QED
  BY <1>1, <1>2, <1>3 DEF MotorTypeOK, Tame

LEMMA SaveStep ==
    ASSUME MotorTypeOK, SavePoll
    PROVE  MotorTypeOK' /\ Tame(m, m')
<1>1. m \in MotorSet
  BY DEF MotorTypeOK
<1>2. "disable" \in Modes /\ "hard" \in Errors /\ "off" \in {"off", "pwm", "short"}
  BY DEF Modes, Errors
<1>3. \/ m' = [m EXCEPT !.mode = "disable"]
      \/ m' = [m EXCEPT !.mode = "disable", !.phases = "off", !.err = "hard"]
  BY DEF SavePoll
<1>4. m' \in MotorSet
  BY <1>1, <1>2, <1>3, Zenon DEF MotorSet
<1>5. QED
  BY <1>1, <1>3, <1>4 DEF SavePoll, MotorTypeOK, MotorSet, Tame

-----------------------------------------------------------------------------

LEMMA TickStep ==
    ASSUME MotorInv, Tick
    PROVE  MotorInv'
<1>1. Ticked(m, m') /\ UNCHANGED <<can, tim, beat>>
  BY DEF Tick, Ticked
<1>2. m' \in MotorSet /\ Safe(m')
  BY <1>1, TickStage DEF MotorInv, MotorTypeOK
<1>3. QED
  BY <1>1, <1>2 DEF MotorInv, MotorTypeOK, Safe

LEMMA MotorStep == MotorInv /\ [MotorNext]_motorVars => MotorInv'
<1> SUFFICES ASSUME MotorInv, [MotorNext]_motorVars PROVE MotorInv'
  OBVIOUS
<1>1. MotorTypeOK /\ Safe(m) /\ m \in MotorSet
  BY DEF MotorInv, MotorTypeOK
<1>2. ASSUME MotorTypeOK', Tame(m, m') PROVE MotorInv'
  <2>1. Safe(m')
    BY <1>1, <1>2, TameIsSafe
  <2>2. QED
    BY <1>2, <2>1 DEF MotorInv, Safe
<1>3. CASE Tick
  BY <1>3, TickStep
<1>4. ASSUME NEW c \in Commands, CanRx(c) PROVE MotorInv'
  <2>1. MotorTypeOK' /\ Tame(m, m')
    BY <1>1, <1>4, CanRxStep DEF Tame
  <2>2. QED
    BY <1>2, <2>1
<1>5. CASE CanStep
  BY <1>1, <1>2, <1>5, CanSteps
<1>6. CASE TimTemperature \/ TimStep
  BY <1>1, <1>2, <1>6, TimSteps
<1>7. CASE SavePoll
  BY <1>1, <1>2, <1>7, SaveStep
<1>8. CASE UNCHANGED motorVars
  BY <1>1, <1>8 DEF motorVars, MotorInv, MotorTypeOK, Safe
<1>9. QED
  BY <1>3, <1>4, <1>5, <1>6, <1>7, <1>8 DEF MotorNext

(* The inductive invariant: types, and the bridge bound to what the last   *)
(* tick ended with, whatever the other contexts wrote since.               *)
THEOREM MotorInvariance == MotorSpec => []MotorInv
<1>1. QED
  BY MotorInitInv, MotorStep, PTL DEF MotorSpec

(* Type correctness of the mode machine (foc_task.c, foc_errhandle.c).     *)
THEOREM MotorTypeCorrect == MotorSpec => []MotorTypeOK
<1>1. MotorInv => MotorTypeOK
  BY DEF MotorInv
<1>2. QED
  BY <1>1, MotorInvariance, PTL

(* Outputs are on only after a tick that ended healthy in a driving mode   *)
(* (foc_task.c:760-819).                                                   *)
THEOREM OutputsAreHealthy == MotorSpec => []PoweredIsHealthy
<1>1. MotorInv => PoweredIsHealthy
  BY SafeMeans DEF MotorInv
<1>2. QED
  BY <1>1, MotorInvariance, PTL

(* The foreground never writes flash under a live bridge                   *)
(* (parameter_persistence.c:123).                                          *)
THEOREM SavesAreQuiet == MotorSpec => []SaveIsQuiet
<1>1. MotorInv => SaveIsQuiet
  BY SafeMeans DEF MotorInv
<1>2. QED
  BY <1>1, MotorInvariance, PTL

(* A tripped or blind thermal model leaves nothing driving the motor       *)
(* (motor_thermal_control.c:300).                                          *)
THEOREM TripsSwitchOff == MotorSpec => []TrippedIsOff
<1>1. MotorInv => TrippedIsOff
  BY SafeMeans DEF MotorInv
<1>2. QED
  BY <1>1, MotorInvariance, PTL

(* Nothing runs half configured (motor_thermal_control.c:151,              *)
(* foc_task.c:112).                                                        *)
THEOREM SettlesFirst == MotorSpec => []SettledBeforeDriven
<1>1. MotorInv => SettledBeforeDriven
  BY SafeMeans DEF MotorInv
<1>2. QED
  BY <1>1, MotorInvariance, PTL

\* Only a tick switches modulation on.
LEMMA ServoStep ==
    MotorInv /\ [MotorNext]_motorVars =>
      [m.phases = "off" /\ m'.phases = "pwm" /\ m'.last = "servo"
         => m.prepared /\ m'.ready /\ m.outer = "servo"]_motorVars
<1> SUFFICES ASSUME MotorInv, MotorNext, m.phases = "off", m'.phases = "pwm",
                    m'.last = "servo"
             PROVE  m.prepared /\ m'.ready /\ m.outer = "servo"
  BY DEF MotorInv
<1>1. MotorTypeOK /\ Safe(m) /\ m \in MotorSet
  BY DEF MotorInv, MotorTypeOK
<1>2. CASE Tick
  <2>1. Ticked(m, m')
    BY <1>2 DEF Tick, Ticked
  <2>2. QED
    BY <1>1, <2>1, TickStage
<1>3. Tame(m, m') => FALSE
  BY DEF Tame
<1>4. ASSUME NEW c \in Commands, CanRx(c) PROVE FALSE
  BY <1>1, <1>4, CanRxStep
<1>5. CASE CanStep \/ TimTemperature \/ TimStep \/ SavePoll
  BY <1>1, <1>3, <1>5, CanSteps, TimSteps, SaveStep
<1>6. QED
  BY <1>2, <1>4, <1>5 DEF MotorNext

(* A servo mode gets power only once prepared in an earlier tick and       *)
(* answered by its own outer loop (foc_task.c:804).                        *)
THEOREM ServoStartsWhenReady == MotorSpec => ServoStartsReady
<1>1. QED
  BY MotorInvariance, ServoStep, PTL DEF MotorSpec, ServoStartsReady
=============================================================================
