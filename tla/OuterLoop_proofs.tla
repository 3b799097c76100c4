--------------------------- MODULE OuterLoop_proofs ---------------------------
(***************************************************************************)
(* Proofs about OuterLoop for every divider and any number of commands: an *)
(* answer the tick takes is of its own session, an overrun is a real one,  *)
(* no snapshot is torn, and every tick is one MotorMode reckons with.      *)
(***************************************************************************)
EXTENDS OuterLoop, TLAPS

(* What the epochs are worth.  A request and the worker's memory are of    *)
(* the present epoch or of an older one, and being of the present one      *)
(* means being of the present session.                                     *)
MailInv(o) ==
    /\ o \in Mailbox
    /\ o.request <= o.epoch /\ o.worker <= o.epoch
    /\ o.status # "idle" /\ o.request = o.epoch => o.asked = o.session /\ o.kind = o.mode
    /\ o.worker = o.epoch => o.begun = o.session
    /\ o.status \in {"running", "done"} => o.worker = o.request

Standing(o) == o.status \in {"queued", "running"}

(* Who is at work on a question that stands, given PendSV's state.         *)
Served(o, p) ==
    /\ o.status = "queued" => p \/ worker = "service"
    /\ o.status = "running" <=> worker = "compute"

(* The age of a question that a running servo mode waits for.              *)
Due(mo, o) == Active(mo) /\ Standing(o) => o.mode = mo.mode /\ o.age = o.divider

(* The worker and the receive interrupt exclude each other, and a servo    *)
(* mode is started from rest, with no question standing.                   *)
TurnInv ==
    /\ can.pc # "idle" => worker = "idle"
    /\ can.pc = "check" /\ (motor.mode = "clear" \/ (motor.err = "none" /\ ~Active(motor)))
         => ~Standing(outer)
    /\ can.pc \in {"load", "store", "unready"} \/ (can.pc = "write" /\ can.cmd \in Servo)
         => motor.mode = "disable" /\ ~Standing(outer)
    /\ can.pc \in {"load", "store", "unready"} => can.cmd = "position"
    /\ can.pc = "store" => /\ outer.request <= can.loaded
                           /\ outer.worker <= can.loaded
                           /\ can.loaded <= outer.epoch

OuterInv ==
    /\ OuterTypeOK
    /\ MailInv(outer)
    /\ Served(outer, pend)
    /\ Due(motor, outer)
    /\ TurnInv
    /\ FrameIsWhole /\ (worker = "encode" => rtt.ready)

LEMMA MailMeans == ASSUME MailInv(outer) PROVE AnswerOfItsSession
  BY DEF MailInv, AnswerOfItsSession, Mailbox

LEMMA OuterInitInv == OuterInit => OuterInv
<1> SUFFICES ASSUME OuterInit PROVE OuterInv
  OBVIOUS
<1>1. motor \in MotorWords
  BY DEF OuterInit, MotorWords, Stages, Servo, Faults
<1>2. outer \in Mailbox
  BY OuterAssumption DEF OuterInit, Mailbox, Stages, Servo
<1>3. OuterTypeOK
  <2>1. can \in [pc : {"idle", "check", "load", "store", "unready", "write"},
                 cmd : Commands, loaded : Nat]
    BY DEF OuterInit, NoCommand, Commands
  <2>2. left \in 0 .. MaxCommands
    BY OuterAssumption DEF OuterInit
  <2>3. rtt \in [ready : BOOLEAN, torn : BOOLEAN]
    BY DEF OuterInit
  <2>4. QED
    BY <1>1, <1>2, <2>1, <2>2, <2>3 DEF OuterInit, OuterTypeOK
<1>4. MailInv(outer)
  BY <1>2 DEF OuterInit, MailInv
<1>5. QED
  BY <1>3, <1>4
  DEF OuterInit, OuterInv, Served, Due, Standing, Active, TurnInv, FrameIsWhole,
      NoCommand, Servo

-----------------------------------------------------------------------------
(* The stages of the tick.                                                 *)

Words == [m : MotorWords, o : Mailbox, pend : BOOLEAN]

\* The fields no reset touches.
SameQuestion(o, q) ==
    /\ q.status = o.status /\ q.request = o.request /\ q.worker = o.worker
    /\ q.age = o.age /\ q.kind = o.kind /\ q.valid = o.valid
    /\ q.asked = o.asked /\ q.begun = o.begun

\* A reset leaves the question to a session that is over.
LEMMA ResetStage ==
    ASSUME NEW o \in Mailbox, MailInv(o)
    PROVE  LET q == Reset(o) IN
           /\ q \in Mailbox /\ SameQuestion(o, q) /\ q.epoch = o.epoch + 1
           /\ q.mode = o.mode /\ q.divider = o.divider /\ q.missed = o.missed
           /\ q.request < q.epoch /\ q.worker < q.epoch
           /\ MailInv(q)
<1> DEFINE q == Reset(o)
<1>1. q = [o EXCEPT !.epoch = o.epoch + 1, !.session = o.session + 1, !.ready = FALSE]
  BY DEF Reset
<1>2. o.epoch + 1 \in Nat /\ o.session + 1 \in Nat /\ FALSE \in BOOLEAN
  BY DEF Mailbox
<1>3. q \in Mailbox
  BY <1>1, <1>2, Zenon DEF Mailbox
<1> HIDE DEF q
<1>4. /\ SameQuestion(o, q) /\ q.epoch = o.epoch + 1
      /\ q.mode = o.mode /\ q.divider = o.divider /\ q.missed = o.missed
  BY <1>1 DEF Mailbox, SameQuestion
<1>5. q.request < q.epoch /\ q.worker < q.epoch
  BY <1>4 DEF MailInv, Mailbox, SameQuestion
<1>6. MailInv(q)
  <2>1. q.request <= q.epoch /\ q.worker <= q.epoch
        /\ q.request # q.epoch /\ q.worker # q.epoch
    BY <1>3, <1>5 DEF Mailbox
  <2>2. QED
    BY <1>3, <1>4, <2>1 DEF MailInv, SameQuestion
<1>7. QED
  BY <1>3, <1>4, <1>5, <1>6 DEF q

\* Of a question of an old session mode, divider and the like may change.
LEMMA OldQuestion ==
    ASSUME NEW o \in Mailbox, NEW q \in Mailbox, SameQuestion(o, q),
           o.request < q.epoch, o.worker < q.epoch, MailInv(o)
    PROVE  MailInv(q)
  BY DEF MailInv, SameQuestion, Mailbox

LEMMA NoticeStage ==
    ASSUME NEW s \in Words, MailInv(s.o), Due(s.m, s.o)
    PROVE  LET n == Notice(s) IN
           /\ n \in Words /\ n.m = s.m /\ n.pend = s.pend
           /\ MailInv(n.o) /\ SameQuestion(s.o, n.o) /\ s.o.epoch <= n.o.epoch
           /\ n.o.missed = s.o.missed
           /\ n.o.mode = n.m.mode /\ Due(n.m, n.o)
<1> DEFINE n == Notice(s)
           r == Reset(s.o)
           q == [r EXCEPT !.mode = s.m.mode, !.divider = Divider - 1]
<1>1. s.o \in Mailbox /\ s.m \in MotorWords /\ s.m.mode \in Stages
  BY DEF Words, MotorWords
<1>2. CASE s.m.mode = s.o.mode
  <2>1. n = s
    BY <1>2 DEF Notice
  <2>2. QED
    BY <1>1, <1>2, <2>1 DEF SameQuestion, Mailbox
<1>3. CASE s.m.mode # s.o.mode
  <2>1. n = [s EXCEPT !.o = q]
    BY <1>3 DEF Notice
  <2>2. /\ r \in Mailbox /\ SameQuestion(s.o, r) /\ r.epoch = s.o.epoch + 1
        /\ r.missed = s.o.missed /\ MailInv(r)
        /\ r.request < r.epoch /\ r.worker < r.epoch
    BY <1>1, ResetStage
  <2> HIDE DEF r
  <2>3. Divider - 1 \in 0 .. (Divider - 1)
    BY OuterAssumption
  <2>4. q \in Mailbox
    BY <1>1, <2>2, <2>3, Zenon DEF Mailbox
  <2>5. /\ SameQuestion(r, q) /\ q.epoch = r.epoch /\ q.missed = r.missed
        /\ q.mode = s.m.mode
    BY <2>2 DEF Mailbox, SameQuestion
  <2>6. MailInv(q)
    BY <2>2, <2>4, <2>5, OldQuestion
  <2> HIDE DEF q
  <2>7. /\ n \in Words /\ n.m = s.m /\ n.o = q /\ n.pend = s.pend
    BY <2>1, <2>4 DEF Words
  <2>8. Due(n.m, n.o)
    BY <1>3, <2>2, <2>5, <2>7 DEF Due, Standing, SameQuestion
  <2>9. QED
    BY <1>1, <2>2, <2>5, <2>6, <2>7, <2>8 DEF SameQuestion, Mailbox
<1>4. QED
  BY <1>2, <1>3

\* Changing the error word keeps the types.
LEMMA ErrorSet ==
    ASSUME NEW mo \in MotorWords, NEW e \in Faults
    PROVE  LET y == [mo EXCEPT !.err = e] IN
           /\ y \in MotorWords /\ y.err = e /\ y.mode = mo.mode /\ y.last = mo.last
           /\ y.prepared = mo.prepared
  BY DEF MotorWords

LEMMA InputsStage ==
    ASSUME NEW s \in Words, MailInv(s.o), Due(s.m, s.o), s.o.mode = s.m.mode, NEW a \in Inputs(s)
    PROVE  /\ a \in Words /\ a.pend = s.pend /\ MailInv(a.o) /\ SameQuestion(s.o, a.o)
           /\ s.o.epoch <= a.o.epoch /\ a.o.missed = s.o.missed
           /\ a.o.mode = a.m.mode /\ Due(a.m, a.o)
           /\ a.m.mode = s.m.mode
           /\ a.m = s.m \/ (Active(s.m) /\ a.m.err = "hard")
<1>1. s.o \in Mailbox /\ s.m \in MotorWords
  BY DEF Words
<1>2. CASE a = s
  BY <1>1, <1>2 DEF SameQuestion, Mailbox
<1>3. CASE Active(s.m) /\ a = [s EXCEPT !.m.err = "hard", !.o = Reset(@)]
  <2> DEFINE q == Reset(s.o)
             y == [s.m EXCEPT !.err = "hard"]
  <2>1. a = [m |-> y, o |-> q, pend |-> s.pend]
    BY <1>3 DEF Words
  <2>2. /\ q \in Mailbox /\ SameQuestion(s.o, q) /\ q.epoch = s.o.epoch + 1
        /\ q.mode = s.o.mode /\ q.divider = s.o.divider /\ q.missed = s.o.missed /\ MailInv(q)
    BY <1>1, ResetStage
  <2>3. y \in MotorWords /\ y.err = "hard" /\ y.mode = s.m.mode
    BY <1>1, ErrorSet DEF Faults
  <2> HIDE DEF q, y
  <2>4. a \in Words /\ a.m = y /\ a.o = q /\ a.pend = s.pend
    BY <2>1, <2>2, <2>3 DEF Words
  <2>5. Due(y, q)
    BY <2>2, <2>3 DEF Due, SameQuestion, Active, Standing
  <2>6. s.o.epoch <= q.epoch
    BY <1>1, <2>2 DEF Mailbox
  <2>7. QED
    BY <1>3, <2>2, <2>3, <2>4, <2>5, <2>6
<1>4. QED
  BY <1>2, <1>3 DEF Inputs

\* A question that still stands is a tick older, any other is gone.
LEMMA CollectStage ==
    ASSUME NEW s \in Words, MailInv(s.o), Due(s.m, s.o), s.o.mode = s.m.mode
    PROVE  LET c == Collect(s) IN
           /\ c \in Words /\ c.pend = s.pend /\ MailInv(c.o)
           /\ c.o.epoch = s.o.epoch /\ c.o.request = s.o.request /\ c.o.worker = s.o.worker
           /\ c.o.missed = s.o.missed /\ c.o.mode = c.m.mode /\ c.m.mode = s.m.mode
           /\ c.m = s.m \/ (Active(s.m) /\ c.m.err = "hard")
           /\ c.o.status = IF Standing(s.o) THEN s.o.status ELSE "idle"
           /\ Active(c.m) /\ c.o.status # "idle" => c.o.age = c.o.divider + 1
<1> DEFINE c == Collect(s)
           g == Aged(s.o)
           free == [g EXCEPT !.status = "idle"]
           ready == [free EXCEPT !.ready = TRUE]
           y == [s.m EXCEPT !.err = "hard"]
<1>1. s.o \in Mailbox /\ s.m \in MotorWords
  BY DEF Words
<1>2. /\ g \in Mailbox
      /\ \A q \in {g, free, ready} :
           /\ q.epoch = s.o.epoch /\ q.request = s.o.request /\ q.worker = s.o.worker
           /\ q.missed = s.o.missed /\ q.mode = s.o.mode /\ q.divider = s.o.divider
           /\ q.kind = s.o.kind /\ q.asked = s.o.asked /\ q.session = s.o.session
           /\ q.begun = s.o.begun
      /\ g.status = s.o.status /\ free.status = "idle" /\ ready.status = "idle"
      /\ g.age = IF s.o.age < Divider THEN s.o.age + 1 ELSE s.o.age
  <2> DEFINE age == IF s.o.age < Divider THEN s.o.age + 1 ELSE s.o.age
  <2>1. age \in 0 .. Divider
    <3>1. s.o.age \in 0 .. Divider
      BY <1>1 DEF Mailbox
    <3>2. QED
      BY <3>1, OuterAssumption
  <2>2. g = [s.o EXCEPT !.age = age]
    BY DEF Aged
  <2> HIDE DEF age
  <2>3. g \in Mailbox
    BY <1>1, <2>1, <2>2, Zenon DEF Mailbox
  <2>4. g.age = age
    BY <1>1, <2>2 DEF Mailbox
  <2>5. QED
    BY <1>1, <2>2, <2>3, <2>4 DEF Mailbox, age
<1>3. free \in Mailbox /\ ready \in Mailbox
  <2> HIDE DEF g
  <2>1. free \in Mailbox
    BY <1>2, Zenon DEF Mailbox
  <2> HIDE DEF free
  <2>2. QED
    BY <2>1, Zenon DEF Mailbox
<1>4. MailInv(g) /\ MailInv(free) /\ MailInv(ready)
  <2> HIDE DEF g, free, ready
  <2>1. QED
    BY <1>2, <1>3 DEF MailInv
<1>5. y \in MotorWords /\ y.err = "hard" /\ y.mode = s.m.mode
  BY <1>1, ErrorSet DEF Faults
<1>6. \/ s.o.status = "idle" /\ c = s
      \/ Standing(s.o) /\ c = [s EXCEPT !.o = g]
      \/ s.o.status = "done" /\ c = [s EXCEPT !.o = free]
      \/ s.o.status = "done" /\ c = [s EXCEPT !.o = ready]
      \/ s.o.status = "done" /\ Active(s.m) /\ c = [s EXCEPT !.o = free, !.m.err = "hard"]
  <2>1. s.o.status \in {"idle", "queued", "running", "done"}
    BY <1>1 DEF Mailbox
  <2>2. QED
    BY <2>1, Zenon DEF Collect, Standing
<1> HIDE DEF c, g, free, ready, y
<1>7. CASE s.o.status = "idle" /\ c = s
  BY <1>1, <1>7 DEF c, Standing
<1>8. CASE Standing(s.o) /\ c = [s EXCEPT !.o = g]
  <2>1. c \in Words /\ c.m = s.m /\ c.o = g /\ c.pend = s.pend
    BY <1>2, <1>8 DEF Words
  <2>2. Active(s.m) => g.age = s.o.divider + 1
    BY <1>1, <1>2, <1>8, OuterAssumption DEF Due, Mailbox
  <2>3. QED
    BY <1>2, <1>4, <1>8, <2>1, <2>2 DEF c
<1>9. CASE s.o.status = "done" /\ c \in {[s EXCEPT !.o = free], [s EXCEPT !.o = ready]}
  <2>1. c \in Words /\ c.m = s.m /\ c.o \in {free, ready} /\ c.pend = s.pend
    BY <1>3, <1>9 DEF Words
  <2>2. QED
    BY <1>2, <1>4, <1>9, <2>1 DEF c, Standing
<1>10. CASE s.o.status = "done" /\ Active(s.m) /\ c = [s EXCEPT !.o = free, !.m.err = "hard"]
  <2>1. c = [m |-> y, o |-> free, pend |-> s.pend]
    BY <1>10 DEF Words, y
  <2>2. c \in Words /\ c.m = y /\ c.o = free /\ c.pend = s.pend
    BY <1>3, <1>5, <2>1 DEF Words
  <2>3. QED
    BY <1>2, <1>4, <1>5, <1>10, <2>2 DEF c, Standing
<1>11. QED
  BY <1>6, <1>7, <1>8, <1>9, <1>10

\* A question is put where none stands, or the one that does is overdue.
LEMMA ReleaseStage ==
    ASSUME NEW s \in Words, MailInv(s.o), Served(s.o, s.pend), s.o.mode = s.m.mode,
           s.o.status # "idle" => Standing(s.o),
           Active(s.m) /\ s.o.status # "idle" => s.o.age = s.o.divider + 1
    PROVE  LET z == Release(s) IN
           /\ z \in Words /\ MailInv(z.o) /\ Served(z.o, z.pend)
           /\ s.o.epoch <= z.o.epoch /\ z.o.worker = s.o.worker
           /\ z.m.mode = s.m.mode
           /\ z.m = s.m \/ (Active(s.m) /\ z.m.err = "hard")
           /\ ~Active(s.m) => z = s
           /\ z.o.missed # s.o.missed => z.o.age = Divider
           /\ z.m.err = "none" => Due(z.m, z.o)
<1> DEFINE z == Release(s)
           r == Reset(s.o)
           later == [s.o EXCEPT !.divider = s.o.divider + 1]
           over  == [r EXCEPT !.divider = 0, !.missed = TRUE]
           asks  == [s.o EXCEPT !.divider = 0, !.status = "queued", !.request = s.o.epoch,
                                !.age = 0, !.kind = s.m.mode, !.asked = s.o.session]
           y == [s.m EXCEPT !.err = "hard"]
<1>1. s.o \in Mailbox /\ s.m \in MotorWords /\ s.pend \in BOOLEAN
  BY DEF Words
<1>2. CASE ~Active(s.m) \/ s.m.err # "none"
  <2>1. z = s
    BY <1>2 DEF Release
  <2>2. s.m.err = "none" => ~Active(s.m)
    BY <1>2
  <2>3. s.o.epoch <= s.o.epoch
    BY <1>1 DEF Mailbox
  <2>4. QED
    BY <2>1, <2>2, <2>3 DEF Due
<1>3. CASE Active(s.m) /\ s.m.err = "none" /\ s.o.divider + 1 < Divider
  <2>1. z = [s EXCEPT !.o = later]
    BY <1>3 DEF Release
  <2>2. s.o.divider + 1 \in 0 .. (Divider - 1)
    BY <1>1, <1>3, OuterAssumption DEF Mailbox
  <2>3. later \in Mailbox
    BY <1>1, <2>2, Zenon DEF Mailbox
  <2>4. /\ SameQuestion(s.o, later) /\ later.epoch = s.o.epoch /\ later.mode = s.o.mode
        /\ later.session = s.o.session
        /\ later.missed = s.o.missed /\ later.divider = s.o.divider + 1
    BY <1>1 DEF Mailbox, SameQuestion
  <2> HIDE DEF later
  <2>5. MailInv(later)
    BY <2>3, <2>4 DEF MailInv, SameQuestion
  <2>6. z \in Words /\ z.m = s.m /\ z.o = later /\ z.pend = s.pend
    BY <2>1, <2>3 DEF Words
  <2>7. Due(s.m, later)
    BY <2>4 DEF Due, Standing, SameQuestion
  <2>8. Served(later, s.pend)
    BY <2>4 DEF Served, SameQuestion
  <2>9. s.o.epoch <= later.epoch
    BY <1>1, <2>4 DEF Mailbox
  <2>10. QED
    BY <1>3, <2>4, <2>5, <2>6, <2>7, <2>8, <2>9 DEF SameQuestion
<1>4. CASE Active(s.m) /\ s.m.err = "none" /\ ~(s.o.divider + 1 < Divider) /\ s.o.status # "idle"
  <2>1. z = [s EXCEPT !.m.err = "hard", !.o = over]
    BY <1>4 DEF Release
  <2>2. /\ r \in Mailbox /\ SameQuestion(s.o, r) /\ r.epoch = s.o.epoch + 1
        /\ r.mode = s.o.mode /\ MailInv(r) /\ r.request < r.epoch /\ r.worker < r.epoch
    BY <1>1, ResetStage
  <2> HIDE DEF r
  <2>3. 0 \in 0 .. (Divider - 1) /\ TRUE \in BOOLEAN
    BY OuterAssumption
  <2>4. over \in Mailbox
    BY <2>2, <2>3, Zenon DEF Mailbox
  <2>5. SameQuestion(r, over) /\ over.epoch = r.epoch
    BY <2>2 DEF Mailbox, SameQuestion
  <2> HIDE DEF over
  <2>6. MailInv(over)
    BY <2>2, <2>4, <2>5, OldQuestion
  <2>7. over.age = Divider
    <3>1. over.age = s.o.divider + 1 /\ over.age \in 0 .. Divider
      BY <1>4, <2>2, <2>4, <2>5 DEF SameQuestion, Mailbox
    <3>2. s.o.divider \in 0 .. (Divider - 1)
      BY <1>1 DEF Mailbox
    <3>3. QED
      BY <1>4, <3>1, <3>2, OuterAssumption
  <2>8. y \in MotorWords /\ y.err = "hard" /\ y.mode = s.m.mode
    BY <1>1, ErrorSet DEF Faults
  <2>9. z = [m |-> y, o |-> over, pend |-> s.pend]
    BY <2>1 DEF Words
  <2> HIDE DEF y
  <2>10. z \in Words /\ z.m = y /\ z.o = over /\ z.pend = s.pend
    BY <1>1, <2>4, <2>8, <2>9 DEF Words
  <2>11. Served(over, s.pend)
    BY <2>2, <2>5 DEF Served, SameQuestion
  <2>12. s.o.epoch <= over.epoch /\ over.worker = s.o.worker
    BY <1>1, <2>2, <2>5 DEF Mailbox, SameQuestion
  <2>13. QED
    BY <1>4, <2>6, <2>7, <2>8, <2>10, <2>11, <2>12
<1>5. CASE Active(s.m) /\ s.m.err = "none" /\ ~(s.o.divider + 1 < Divider) /\ s.o.status = "idle"
  <2>1. z = [s EXCEPT !.o = asks, !.pend = TRUE]
    BY <1>5 DEF Release
  <2>2. /\ 0 \in 0 .. (Divider - 1) /\ 0 \in 0 .. Divider /\ s.m.mode \in Servo
        /\ s.o.epoch \in Nat /\ s.o.session \in Nat
    BY <1>1, <1>5, OuterAssumption DEF Active, Mailbox
  <2>3. asks \in Mailbox
    <3>1. s.m.mode \in {"disable"} \cup Servo
      BY <2>2
    <3>2. QED
      BY <1>1, <2>2, <3>1, Zenon DEF Mailbox
  <2>4. /\ asks.epoch = s.o.epoch /\ asks.request = s.o.epoch /\ asks.worker = s.o.worker
        /\ asks.asked = s.o.session /\ asks.session = s.o.session /\ asks.begun = s.o.begun
        /\ asks.status = "queued" /\ asks.kind = s.m.mode /\ asks.mode = s.o.mode
        /\ asks.missed = s.o.missed /\ asks.age = 0 /\ asks.divider = 0
    BY <1>1 DEF Mailbox
  <2> HIDE DEF asks
  <2>5. MailInv(asks)
    BY <1>1, <2>3, <2>4 DEF MailInv, Mailbox
  <2>6. z \in Words /\ z.m = s.m /\ z.o = asks /\ z.pend = TRUE
    BY <2>1, <2>3 DEF Words
  <2>7. Due(s.m, asks) /\ Served(asks, TRUE)
    BY <1>5, <2>4 DEF Due, Served
  <2>8. s.o.epoch <= asks.epoch
    BY <1>1, <2>4 DEF Mailbox
  <2>9. QED
    BY <1>5, <2>4, <2>5, <2>6, <2>7, <2>8
<1>6. QED
  BY <1>2, <1>3, <1>4, <1>5

LEMMA FastStage ==
    ASSUME NEW s \in Words, MailInv(s.o), Served(s.o, s.pend), Due(s.m, s.o),
           NEW a \in FastTick(s)
    PROVE  /\ a \in Words /\ MailInv(a.o) /\ Served(a.o, a.pend)
           /\ s.o.epoch <= a.o.epoch /\ a.o.worker = s.o.worker
           /\ a.m.mode = s.m.mode
           /\ a.m = s.m \/ (Active(s.m) /\ a.m.err = "hard")
           /\ a.o.missed # s.o.missed => a.o.age = Divider
           /\ a.m.err = "none" => Due(a.m, a.o)
           /\ ~Active(s.m) => a.o.request = s.o.request /\ (Standing(a.o) => Standing(s.o))
<1> DEFINE n == Notice(s)
<1>1. /\ n \in Words /\ n.m = s.m /\ n.pend = s.pend
      /\ MailInv(n.o) /\ SameQuestion(s.o, n.o) /\ s.o.epoch <= n.o.epoch
      /\ n.o.missed = s.o.missed
      /\ n.o.mode = n.m.mode /\ Due(n.m, n.o)
  BY NoticeStage
<1>2. PICK i \in Inputs(n) : a = Release(Collect(i))
  BY DEF FastTick
<1> HIDE DEF n
<1>3. /\ i \in Words /\ i.pend = n.pend /\ MailInv(i.o) /\ SameQuestion(n.o, i.o)
      /\ n.o.epoch <= i.o.epoch /\ i.o.missed = n.o.missed
      /\ i.o.mode = i.m.mode /\ Due(i.m, i.o)
      /\ i.m.mode = n.m.mode
      /\ i.m = n.m \/ (Active(n.m) /\ i.m.err = "hard")
  BY <1>1, InputsStage
<1> DEFINE c == Collect(i)
<1>4. /\ c \in Words /\ c.pend = i.pend /\ MailInv(c.o)
      /\ c.o.epoch = i.o.epoch /\ c.o.request = i.o.request /\ c.o.worker = i.o.worker
      /\ c.o.missed = i.o.missed /\ c.o.mode = c.m.mode /\ c.m.mode = i.m.mode
      /\ c.m = i.m \/ (Active(i.m) /\ c.m.err = "hard")
      /\ c.o.status = IF Standing(i.o) THEN i.o.status ELSE "idle"
      /\ Active(c.m) /\ c.o.status # "idle" => c.o.age = c.o.divider + 1
  BY <1>3, CollectStage
<1> HIDE DEF c
<1>5. /\ Served(c.o, c.pend)
      /\ c.o.status # "idle" => Standing(c.o)
      /\ Standing(c.o) => Standing(s.o)
  BY <1>1, <1>3, <1>4 DEF Served, SameQuestion, Standing
<1> DEFINE z == Release(c)
<1>6. /\ z \in Words /\ MailInv(z.o) /\ Served(z.o, z.pend)
      /\ c.o.epoch <= z.o.epoch /\ z.o.worker = c.o.worker
      /\ z.m.mode = c.m.mode
      /\ z.m = c.m \/ (Active(c.m) /\ z.m.err = "hard")
      /\ ~Active(c.m) => z = c
      /\ z.o.missed # c.o.missed => z.o.age = Divider
      /\ z.m.err = "none" => Due(z.m, z.o)
  BY <1>4, <1>5, ReleaseStage
<1>7. a = z
  BY <1>2 DEF c
<1> HIDE DEF z
<1>8. s.o.epoch <= a.o.epoch
  BY <1>1, <1>3, <1>4, <1>6, <1>7 DEF Words, Mailbox
<1>9. Active(c.m) <=> Active(s.m)
  BY <1>1, <1>3, <1>4 DEF Active
<1>10. a.m = s.m \/ (Active(s.m) /\ a.m.err = "hard")
  BY <1>1, <1>3, <1>4, <1>6, <1>7, <1>9 DEF Active
<1>11. QED
  BY <1>1, <1>3, <1>4, <1>5, <1>6, <1>7, <1>8, <1>9, <1>10 DEF SameQuestion

\* An error ends the mode, and the end of a mode the session.
LEMMA EndStage ==
    ASSUME NEW a \in Words, MailInv(a.o), a.m.err = "none" => Due(a.m, a.o),
           NEW b \in Work(a)
    PROVE  LET z == Started(Stopped(Disarmed(b))) IN
           /\ z \in Words /\ MailInv(z.o) /\ SameQuestion(a.o, z.o) /\ z.pend = a.pend
           /\ a.o.epoch <= z.o.epoch /\ z.o.missed = a.o.missed
           /\ Due(z.m, z.o)
           /\ z.m.mode \in {a.m.mode, "disable"} /\ z.m.mode # "clear"
           /\ z.m.err = "none" /\ ~Active(z.m)
                => a.m.mode = "clear" \/ (a.m.err = "none" /\ ~Active(a.m))
<1>1. a.o \in Mailbox /\ a.m \in MotorWords /\ a.pend \in BOOLEAN
  BY DEF Words
<1>2. /\ b \in Words /\ b.o = a.o /\ b.pend = a.pend
      /\ b.m.mode \in {a.m.mode, "disable"} /\ b.m.mode # "clear"
      /\ Active(b.m) => b.m.mode = a.m.mode /\ (b.m.err = "none" => b.m = a.m)
      /\ b.m.err = "none" /\ ~Active(b.m)
           => a.m.mode = "clear" \/ (a.m.err = "none" /\ ~Active(a.m))
  <2>1. CASE a.m.mode = "clear"
    <3> DEFINE y == [a.m EXCEPT !.mode = "disable", !.err = "none"]
    <3>1. b = [m |-> y, o |-> a.o, pend |-> a.pend]
      BY <2>1 DEF Work, Words
    <3>2. y \in MotorWords /\ y.mode = "disable"
      BY <1>1 DEF MotorWords, Stages, Faults
    <3> HIDE DEF y
    <3>3. b \in Words /\ b.m = y /\ b.o = a.o /\ b.pend = a.pend
      BY <1>1, <3>1, <3>2 DEF Words
    <3>4. QED
      BY <2>1, <3>2, <3>3 DEF Active, Servo
  <2>2. CASE a.m.mode # "clear" /\ b = a
    BY <2>2
  <2>3. CASE a.m.mode # "clear" /\ Active(a.m) /\ b = [a EXCEPT !.m.err = "hard"]
    <3> DEFINE y == [a.m EXCEPT !.err = "hard"]
    <3>1. b = [m |-> y, o |-> a.o, pend |-> a.pend]
      BY <2>3 DEF Words
    <3>2. y \in MotorWords /\ y.mode = a.m.mode /\ y.err = "hard"
      BY <1>1, ErrorSet DEF Faults
    <3> HIDE DEF y
    <3>3. b \in Words /\ b.m = y /\ b.o = a.o /\ b.pend = a.pend
      BY <1>1, <3>1, <3>2 DEF Words
    <3>4. QED
      BY <2>3, <3>2, <3>3 DEF Active
  <2>4. QED
    BY <2>1, <2>2, <2>3 DEF Work
<1> DEFINE d == Disarmed(b)
<1>3. /\ d \in Words /\ d.o = a.o /\ d.pend = a.pend
      /\ d.m.mode \in {a.m.mode, "disable"} /\ d.m.mode # "clear"
      /\ Active(d.m) => d.m.err = "none" /\ d.m = a.m
      /\ d.m.err = "none" /\ ~Active(d.m)
           => a.m.mode = "clear" \/ (a.m.err = "none" /\ ~Active(a.m))
  <2>1. CASE b.m.err = "none"
    BY <1>2, <2>1 DEF Disarmed
  <2>2. CASE b.m.err # "none"
    <3> DEFINE y == [b.m EXCEPT !.mode = "disable"]
    <3>1. d = [m |-> y, o |-> b.o, pend |-> b.pend]
      BY <1>2, <2>2 DEF Disarmed, Words
    <3>2. y \in MotorWords /\ y.mode = "disable" /\ y.err = b.m.err
      BY <1>2 DEF MotorWords, Stages, Words
    <3> HIDE DEF y
    <3>3. d \in Words /\ d.m = y /\ d.o = a.o /\ d.pend = a.pend
      BY <1>1, <1>2, <3>1, <3>2 DEF Words
    <3>4. QED
      BY <2>2, <3>2, <3>3 DEF Active, Servo
  <2>3. QED
    BY <2>1, <2>2
<1> HIDE DEF d
<1>4. Due(d.m, d.o)
  BY <1>3 DEF Due
<1> DEFINE p == Stopped(d)
<1>5. /\ p \in Words /\ MailInv(p.o) /\ SameQuestion(a.o, p.o) /\ p.pend = a.pend
      /\ a.o.epoch <= p.o.epoch /\ p.o.missed = a.o.missed
      /\ p.m = d.m /\ Due(p.m, p.o)
  <2>1. CASE p = d
    BY <1>1, <1>3, <1>4, <2>1 DEF SameQuestion, Mailbox
  <2>2. CASE d.m.mode = "disable" /\ p = [d EXCEPT !.o = Reset(a.o)]
    <3> DEFINE r == Reset(a.o)
    <3>1. /\ r \in Mailbox /\ SameQuestion(a.o, r) /\ r.epoch = a.o.epoch + 1
          /\ r.missed = a.o.missed /\ MailInv(r)
      BY <1>1, ResetStage
    <3> HIDE DEF r
    <3>2. p = [d EXCEPT !.o = r]
      BY <2>2 DEF r
    <3>3. p \in Words /\ p.m = d.m /\ p.o = r /\ p.pend = a.pend
      BY <1>3, <3>1, <3>2 DEF Words
    <3>4. Due(d.m, r)
      BY <2>2 DEF Due, Active, Servo
    <3>5. a.o.epoch <= r.epoch
      BY <1>1, <3>1 DEF Mailbox
    <3>6. QED
      BY <3>1, <3>3, <3>4, <3>5
  <2>3. p = d \/ (d.m.mode = "disable" /\ p = [d EXCEPT !.o = Reset(a.o)])
    BY <1>3 DEF Stopped
  <2>4. QED
    BY <2>1, <2>2, <2>3
<1> HIDE DEF p
<1> DEFINE z == Started(p)
           defers == p.m.last = "disable" /\ Active(p.m) /\ ~(p.m.prepared /\ p.o.ready)
           last == IF defers THEN p.m.last ELSE p.m.mode
           y == [p.m EXCEPT !.prepared = defers, !.errLast = p.m.err, !.last = last]
<1>6. z = [m |-> y, o |-> p.o, pend |-> p.pend]
  BY <1>5 DEF Started, Words
<1>7. /\ p.m \in MotorWords /\ defers \in BOOLEAN /\ p.m.err \in Faults
      /\ last \in {"disable"} \cup Servo
  <2>1. p.m \in MotorWords
    BY <1>5 DEF Words
  <2>2. p.m.mode \in {"disable"} \cup Servo /\ p.m.last \in {"disable"} \cup Servo
    BY <1>3, <1>5, <2>1 DEF MotorWords, Stages
  <2>3. QED
    BY <2>1, <2>2 DEF MotorWords
<1> HIDE DEF last, defers
<1>8. y \in MotorWords
  BY <1>7, Zenon DEF MotorWords
<1>9. y.mode = p.m.mode /\ y.err = p.m.err
  BY <1>7 DEF MotorWords
<1> HIDE DEF y
<1>10. z \in Words /\ z.m = y /\ z.o = p.o /\ z.pend = a.pend
  BY <1>5, <1>6, <1>8 DEF Words
<1>11. Due(z.m, z.o)
  BY <1>5, <1>9, <1>10 DEF Due, Active
<1>12. z = Started(Stopped(Disarmed(b)))
  BY DEF z, p, d
<1> HIDE DEF z
<1>13. QED
  BY <1>3, <1>5, <1>9, <1>10, <1>11, <1>12 DEF Active

-----------------------------------------------------------------------------
(* The steps.                                                              *)

CanWords == [pc : {"idle", "check", "load", "store", "unready", "write"},
             cmd : Commands, loaded : Nat]

LEMMA TickKeeps ==
    ASSUME OuterInv, TickAny
    PROVE  OuterInv' /\ (outer'.missed # outer.missed => outer'.age = Divider)
<1>1. PICK e \in {motor.err, "hard"}, due \in BOOLEAN : Tick(e, due)
  BY DEF TickAny
<1> DEFINE y == [motor EXCEPT !.err = e]
           s == [m |-> y, o |-> outer, pend |-> pend]
<1>2. PICK a \in FastTick(s) : \E b \in Work(a) :
        LET z == Started(Stopped(Disarmed(b)))
        IN  /\ motor' = z.m
            /\ outer' = z.o
            /\ rtt' = Sampled(rtt, due)
            /\ pend' = (z.pend \/ rtt' # rtt)
            /\ UNCHANGED <<worker, can, left>>
  BY <1>1 DEF Tick
<1>3. PICK b \in Work(a) :
        LET z == Started(Stopped(Disarmed(b)))
        IN  /\ motor' = z.m
            /\ outer' = z.o
            /\ rtt' = Sampled(rtt, due)
            /\ pend' = (z.pend \/ rtt' # rtt)
            /\ UNCHANGED <<worker, can, left>>
  BY <1>2
<1>4. /\ motor \in MotorWords /\ outer \in Mailbox /\ pend \in BOOLEAN /\ e \in Faults
      /\ rtt \in [ready : BOOLEAN, torn : BOOLEAN] /\ MailInv(outer)
      /\ Served(outer, pend) /\ Due(motor, outer) /\ TurnInv
  BY <1>1 DEF OuterInv, OuterTypeOK, MotorWords, Faults
<1>5. y \in MotorWords /\ y.err = e /\ y.mode = motor.mode
  BY <1>4, ErrorSet
<1> HIDE DEF y
<1>6. s \in Words /\ s.m = y /\ s.o = outer /\ s.pend = pend /\ Due(s.m, s.o)
  BY <1>4, <1>5 DEF Words, Due, Active
<1> HIDE DEF s
<1>7. /\ a \in Words /\ MailInv(a.o) /\ Served(a.o, a.pend)
      /\ outer.epoch <= a.o.epoch /\ a.o.worker = outer.worker
      /\ a.m.mode = motor.mode
      /\ a.m = y \/ (Active(y) /\ a.m.err = "hard")
      /\ a.o.missed # outer.missed => a.o.age = Divider
      /\ a.m.err = "none" => Due(a.m, a.o)
      /\ ~Active(y) => a.o.request = outer.request /\ (Standing(a.o) => Standing(outer))
  BY <1>4, <1>5, <1>6, FastStage
<1> DEFINE z == Started(Stopped(Disarmed(b)))
<1>8. /\ z \in Words /\ MailInv(z.o) /\ SameQuestion(a.o, z.o) /\ z.pend = a.pend
      /\ a.o.epoch <= z.o.epoch /\ z.o.missed = a.o.missed
      /\ Due(z.m, z.o)
      /\ z.m.mode \in {a.m.mode, "disable"} /\ z.m.mode # "clear"
      /\ z.m.err = "none" /\ ~Active(z.m)
           => a.m.mode = "clear" \/ (a.m.err = "none" /\ ~Active(a.m))
  BY <1>7, EndStage
<1>9. /\ motor' = z.m /\ outer' = z.o /\ rtt' = Sampled(rtt, due)
      /\ pend' = (z.pend \/ rtt' # rtt) /\ UNCHANGED <<worker, can, left>>
  BY <1>3
<1> HIDE DEF z
<1>10. outer'.missed # outer.missed => outer'.age = Divider
  BY <1>7, <1>8, <1>9 DEF SameQuestion
<1>11. /\ rtt' \in [ready : BOOLEAN, torn : BOOLEAN] /\ rtt'.torn = FALSE
       /\ worker = "encode" => rtt'.ready
  <2>1. rtt.torn = FALSE /\ (worker = "encode" => rtt.ready)
    BY <1>4 DEF OuterInv, FrameIsWhole
  <2>2. CASE due /\ ~rtt.ready
    BY <1>9, <2>1, <2>2 DEF Sampled
  <2>3. CASE ~(due /\ ~rtt.ready)
    BY <1>4, <1>9, <2>1, <2>3 DEF Sampled
  <2>4. QED
    BY <2>2, <2>3
<1>12. OuterTypeOK'
  <2>1. z.m \in MotorWords /\ z.o \in Mailbox /\ z.pend \in BOOLEAN
    BY <1>8 DEF Words
  <2>2. QED
    BY <1>9, <1>11, <2>1 DEF OuterInv, OuterTypeOK
<1>13. Served(outer, pend)'
  BY <1>7, <1>8, <1>9 DEF Served, SameQuestion
<1>14. Due(motor, outer)'
  BY <1>8, <1>9 DEF Due, Active, Standing
<1>15. TurnInv'
  <2>1. ~Active(motor) => outer'.request = outer.request /\ (Standing(outer') => Standing(outer))
    BY <1>5, <1>7, <1>8, <1>9 DEF Active, SameQuestion, Standing
  <2>2. outer'.worker = outer.worker /\ outer.epoch <= outer'.epoch
    BY <1>4, <1>7, <1>8, <1>9 DEF SameQuestion, Words, Mailbox
  <2>3. motor.mode = "disable" => motor'.mode = "disable"
    BY <1>7, <1>8, <1>9
  <2>4. motor'.mode # "clear"
    BY <1>8, <1>9
  <2>5. motor'.err = "none" /\ ~Active(motor')
          => ~Active(motor) /\ (motor.mode = "clear" \/ motor.err = "none")
    <3>1. SUFFICES ASSUME motor'.err = "none", ~Active(motor')
                   PROVE  ~Active(motor) /\ (motor.mode = "clear" \/ motor.err = "none")
      OBVIOUS
    <3>2. a.m.mode = "clear" \/ (a.m.err = "none" /\ ~Active(a.m))
      BY <1>8, <1>9, <3>1 DEF Active
    <3>3. ~Active(motor)
      BY <1>7, <3>2 DEF Active, Servo
    <3>4. a.m = y
      BY <1>5, <1>7, <3>3 DEF Active
    <3>5. a.m.err = "none" => motor.err = "none"
      BY <1>1, <1>5, <3>4
    <3>6. QED
      BY <1>7, <3>2, <3>3, <3>5
  <2>6. (can.pc # "idle" => worker = "idle")'
    BY <1>4, <1>9 DEF TurnInv
  <2>7. (can.pc = "check" /\ (motor.mode = "clear" \/ (motor.err = "none" /\ ~Active(motor)))
           => ~Standing(outer))'
    BY <1>4, <1>9, <2>1, <2>4, <2>5 DEF TurnInv
  <2>8. (can.pc \in {"load", "store", "unready"} \/ (can.pc = "write" /\ can.cmd \in Servo)
           => motor.mode = "disable" /\ ~Standing(outer))'
    <3>1. motor.mode = "disable" => ~Active(motor)
      BY DEF Active, Servo
    <3>2. QED
      BY <1>4, <1>9, <2>1, <2>3, <3>1 DEF TurnInv
  <2>9. (can.pc = "store" => /\ outer.request <= can.loaded
                             /\ outer.worker <= can.loaded
                             /\ can.loaded <= outer.epoch)'
    <3>1. SUFFICES ASSUME can.pc = "store"
                   PROVE  /\ outer'.request <= can.loaded
                          /\ outer'.worker <= can.loaded
                          /\ can.loaded <= outer'.epoch
      BY <1>9
    <3>2. /\ motor.mode = "disable" /\ outer.request <= can.loaded
          /\ outer.worker <= can.loaded /\ can.loaded <= outer.epoch
      BY <1>4, <3>1 DEF TurnInv
    <3>3. ~Active(motor)
      BY <3>2 DEF Active, Servo
    <3>4. can.loaded \in Nat /\ outer.epoch \in Nat /\ outer'.epoch \in Nat
      BY <1>8, <1>9 DEF OuterInv, OuterTypeOK, Words, Mailbox
    <3>5. QED
      BY <2>1, <2>2, <3>2, <3>3, <3>4
  <2>10. (can.pc \in {"load", "store", "unready"} => can.cmd = "position")'
    BY <1>4, <1>9 DEF TurnInv
  <2>11. QED
    BY <2>6, <2>7, <2>8, <2>9, <2>10, Zenon DEF TurnInv
<1>16. (FrameIsWhole /\ (worker = "encode" => rtt.ready))'
  BY <1>9, <1>11 DEF FrameIsWhole
<1>17. MailInv(outer)'
  BY <1>8, <1>9
<1>18. QED
  BY <1>10, <1>12, <1>13, <1>14, <1>15, <1>16, <1>17 DEF OuterInv

LEMMA WorkerKeeps ==
    ASSUME OuterInv, Worker
    PROVE  OuterInv' /\ outer'.missed = outer.missed
<1>1. /\ outer \in Mailbox /\ MailInv(outer) /\ motor \in MotorWords /\ pend \in BOOLEAN
      /\ rtt \in [ready : BOOLEAN, torn : BOOLEAN]
  BY DEF OuterInv, OuterTypeOK
<1>2. CASE WorkerEnter
  BY <1>1, <1>2
  DEF WorkerEnter, OuterInv, OuterTypeOK, Served, Due, TurnInv, FrameIsWhole, MailInv
<1>3. CASE Take /\ outer.status # "queued"
  BY <1>1, <1>3
  DEF Take, OuterInv, OuterTypeOK, Served, Due, TurnInv, FrameIsWhole, MailInv
<1>4. CASE Take /\ outer.status = "queued"
  <2> DEFINE begun == IF outer.worker # outer.request THEN outer.asked ELSE outer.begun
             q == [outer EXCEPT !.status = "running", !.worker = outer.request, !.begun = begun]
  <2>1. outer' = q /\ worker = "service" /\ worker' = "compute"
        /\ UNCHANGED <<motor, rtt, pend, can, left>>
    BY <1>4 DEF Take
  <2>2. begun \in Nat /\ outer.request \in Nat
    BY <1>1 DEF Mailbox
  <2>3. begun = IF outer.worker # outer.request THEN outer.asked ELSE outer.begun
    OBVIOUS
  <2> HIDE DEF begun
  <2>4. q \in Mailbox
    BY <1>1, <2>2, Zenon DEF Mailbox
  <2>5. /\ q.status = "running" /\ q.worker = outer.request /\ q.begun = begun
        /\ q.epoch = outer.epoch /\ q.request = outer.request /\ q.asked = outer.asked
        /\ q.session = outer.session /\ q.kind = outer.kind /\ q.mode = outer.mode
        /\ q.age = outer.age /\ q.divider = outer.divider /\ q.missed = outer.missed
    BY <1>1 DEF Mailbox
  <2> HIDE DEF q
  <2>6. MailInv(q)
    BY <1>1, <1>4, <2>3, <2>4, <2>5 DEF MailInv
  <2>7. Due(motor, q)
    BY <1>4, <2>5 DEF OuterInv, Due, Standing
  <2>8. TurnInv'
    <3>1. can.pc = "idle"
      BY <2>1 DEF OuterInv, TurnInv
    <3>2. QED
      BY <2>1, <3>1 DEF TurnInv
  <2>9. OuterTypeOK'
    BY <2>1, <2>4 DEF OuterInv, OuterTypeOK
  <2>10. QED
    BY <2>1, <2>5, <2>6, <2>7, <2>8, <2>9 DEF OuterInv, Served, FrameIsWhole
<1>5. CASE Compute
  <2>1. PICK valid \in BOOLEAN : outer' = [outer EXCEPT !.status = "done", !.valid = valid]
    BY <1>5 DEF Compute
  <2> DEFINE q == [outer EXCEPT !.status = "done", !.valid = valid]
  <2>2. outer' = q /\ worker = "compute" /\ worker' = "telemetry"
        /\ UNCHANGED <<motor, rtt, pend, can, left>>
    BY <1>5, <2>1 DEF Compute
  <2>3. q \in Mailbox
    BY <1>1, Zenon DEF Mailbox
  <2>4. /\ q.status = "done" /\ q.worker = outer.worker /\ q.begun = outer.begun
        /\ q.epoch = outer.epoch /\ q.request = outer.request /\ q.asked = outer.asked
        /\ q.session = outer.session /\ q.kind = outer.kind /\ q.mode = outer.mode
        /\ q.missed = outer.missed
    BY <1>1 DEF Mailbox
  <2>5. outer.status = "running"
    BY <2>2 DEF OuterInv, Served
  <2> HIDE DEF q
  <2>6. MailInv(q)
    BY <1>1, <2>3, <2>4, <2>5 DEF MailInv
  <2>7. TurnInv'
    <3>1. can.pc = "idle"
      BY <2>2 DEF OuterInv, TurnInv
    <3>2. QED
      BY <2>2, <3>1 DEF TurnInv
  <2>8. OuterTypeOK'
    BY <2>2, <2>3 DEF OuterInv, OuterTypeOK
  <2>9. QED
    BY <2>2, <2>4, <2>6, <2>7, <2>8 DEF OuterInv, Served, Due, Standing, FrameIsWhole
<1>6. CASE Telemetry
  BY <1>1, <1>6
  DEF Telemetry, OuterInv, OuterTypeOK, Served, Due, TurnInv, FrameIsWhole, MailInv
<1>7. CASE Encode
  BY <1>1, <1>7
  DEF Encode, OuterInv, OuterTypeOK, Served, Due, TurnInv, FrameIsWhole, MailInv
<1>8. QED
  BY <1>2, <1>3, <1>4, <1>5, <1>6, <1>7 DEF Worker

\* While the receive interrupt runs, no question stands that it could disturb.
LEMMA CanKeeps ==
    ASSUME OuterInv, Can
    PROVE  OuterInv' /\ outer'.missed = outer.missed
<1>1. /\ outer \in Mailbox /\ MailInv(outer) /\ motor \in MotorWords
      /\ can \in CanWords /\ TurnInv
  BY DEF OuterInv, OuterTypeOK, CanWords
<1>2. CASE Check
  <2>1. can.pc = "check" /\ UNCHANGED <<motor, outer, rtt, pend, worker, left>>
    BY <1>2 DEF Check
  <2>2. \/ can' = NoCommand
        \/ can' = [can EXCEPT !.pc = "load"] /\ can.cmd = "position" /\ Accepted(can.cmd)
        \/ can' = [can EXCEPT !.pc = "write"] /\ Accepted(can.cmd)
    BY <1>2 DEF Check
  <2>3. can' \in CanWords
    BY <1>1, <2>2 DEF CanWords, NoCommand, Commands
  <2>4. can'.pc \in {"load", "write"} /\ can'.cmd \in Servo =>
           motor.mode = "disable" /\ motor.err = "none" /\ can'.cmd = can.cmd
    BY <1>1, <2>2 DEF Accepted, CanWords, NoCommand, Servo
  <2>5. can'.pc \in {"idle", "load", "write"} /\ (can'.pc = "load" => can'.cmd = "position")
    BY <1>1, <2>2 DEF CanWords, NoCommand
  <2>6. TurnInv'
    BY <1>1, <2>1, <2>4, <2>5 DEF TurnInv, Active, Servo, Standing
  <2>7. OuterTypeOK'
    BY <2>1, <2>3 DEF OuterInv, OuterTypeOK, CanWords
  <2>8. QED
    BY <2>1, <2>6, <2>7 DEF OuterInv, Served, Due, Standing, FrameIsWhole, MailInv
<1>3. CASE Load
  <2>1. /\ can.pc = "load" /\ can' = [can EXCEPT !.pc = "store", !.loaded = outer.epoch]
        /\ UNCHANGED <<motor, outer, rtt, pend, worker, left>>
    BY <1>3 DEF Load
  <2>2. outer.epoch \in Nat
    BY <1>1 DEF Mailbox
  <2>3. can' \in CanWords /\ can'.pc = "store" /\ can'.loaded = outer.epoch /\ can'.cmd = can.cmd
    BY <1>1, <2>1, <2>2 DEF CanWords
  <2>4. TurnInv'
    BY <1>1, <2>1, <2>2, <2>3 DEF TurnInv, MailInv, Standing
  <2>5. OuterTypeOK'
    BY <2>1, <2>3 DEF OuterInv, OuterTypeOK, CanWords
  <2>6. QED
    BY <2>1, <2>4, <2>5 DEF OuterInv, Served, Due, Standing, FrameIsWhole, MailInv
<1>4. CASE Store
  <2> DEFINE q == [outer EXCEPT !.epoch = can.loaded + 1, !.session = outer.session + 1]
  <2>1. /\ can.pc = "store" /\ outer' = q /\ can' = [can EXCEPT !.pc = "unready"]
        /\ UNCHANGED <<motor, rtt, pend, worker, left>>
    BY <1>4 DEF Store
  <2>2. can.loaded + 1 \in Nat /\ outer.session + 1 \in Nat /\ can.loaded \in Nat
    BY <1>1 DEF Mailbox, CanWords
  <2>3. q \in Mailbox
    BY <1>1, <2>2, Zenon DEF Mailbox
  <2>4. /\ SameQuestion(outer, q) /\ q.epoch = can.loaded + 1 /\ q.missed = outer.missed
    BY <1>1 DEF Mailbox, SameQuestion
  <2> HIDE DEF q
  <2>5. outer.request < q.epoch /\ outer.worker < q.epoch
    BY <1>1, <2>1, <2>2, <2>4 DEF TurnInv, Mailbox
  <2>6. MailInv(q)
    BY <1>1, <2>3, <2>4, <2>5, OldQuestion
  <2>7. can' \in CanWords /\ can'.pc = "unready" /\ can'.cmd = can.cmd
    BY <1>1, <2>1 DEF CanWords
  <2>8. TurnInv'
    BY <1>1, <2>1, <2>4, <2>7 DEF TurnInv, Standing, SameQuestion
  <2>9. OuterTypeOK'
    BY <2>1, <2>3, <2>7 DEF OuterInv, OuterTypeOK, CanWords
  <2>10. Due(motor, q)
    BY <1>1, <2>1 DEF TurnInv, Due, Active, Servo
  <2>11. QED
    BY <2>1, <2>4, <2>6, <2>8, <2>9, <2>10 DEF OuterInv, Served, SameQuestion, FrameIsWhole
<1>5. CASE Unready
  <2> DEFINE q == [outer EXCEPT !.ready = FALSE]
  <2>1. /\ can.pc = "unready" /\ outer' = q /\ can' = [can EXCEPT !.pc = "write"]
        /\ UNCHANGED <<motor, rtt, pend, worker, left>>
    BY <1>5 DEF Unready
  <2>2. q \in Mailbox
    BY <1>1, Zenon DEF Mailbox
  <2>3. /\ SameQuestion(outer, q) /\ q.epoch = outer.epoch /\ q.missed = outer.missed
        /\ q.session = outer.session /\ q.mode = outer.mode
    BY <1>1 DEF Mailbox, SameQuestion
  <2> HIDE DEF q
  <2>4. MailInv(q)
    BY <1>1, <2>2, <2>3 DEF MailInv, SameQuestion
  <2>5. can' \in CanWords /\ can'.pc = "write" /\ can'.cmd = can.cmd
    BY <1>1, <2>1 DEF CanWords
  <2>6. TurnInv'
    BY <1>1, <2>1, <2>3, <2>5 DEF TurnInv, Standing, SameQuestion
  <2>7. OuterTypeOK'
    BY <2>1, <2>2, <2>5 DEF OuterInv, OuterTypeOK, CanWords
  <2>8. Due(motor, q)
    BY <1>1, <2>1 DEF TurnInv, Due, Active, Servo
  <2>9. QED
    BY <2>1, <2>3, <2>4, <2>6, <2>7, <2>8 DEF OuterInv, Served, SameQuestion, FrameIsWhole
<1>6. CASE Write
  <2> DEFINE y == [motor EXCEPT !.mode = can.cmd]
  <2>1. /\ can.pc = "write" /\ motor' = y /\ can' = NoCommand
        /\ UNCHANGED <<outer, rtt, pend, worker, left>>
    BY <1>6 DEF Write
  <2>2. can.cmd \in Stages
    BY <1>1 DEF CanWords, Commands, Stages
  <2>3. y \in MotorWords /\ y.mode = can.cmd
    BY <1>1, <2>2 DEF MotorWords
  <2> HIDE DEF y
  <2>4. Due(y, outer)
    BY <1>1, <2>1, <2>3 DEF TurnInv, Due, Active
  <2>5. can' \in CanWords /\ can'.pc = "idle"
    BY <2>1 DEF CanWords, NoCommand, Commands
  <2>6. TurnInv'
    BY <2>5 DEF TurnInv
  <2>7. OuterTypeOK'
    BY <2>1, <2>3, <2>5 DEF OuterInv, OuterTypeOK, CanWords
  <2>8. QED
    BY <2>1, <2>4, <2>6, <2>7 DEF OuterInv, Served, FrameIsWhole, MailInv
<1>7. QED
  BY <1>2, <1>3, <1>4, <1>5, <1>6 DEF Can

\* A frame is received with no question standing: PendSV goes first.
LEMMA FrameKeeps ==
    ASSUME OuterInv, NEW c \in Commands, Frame(c)
    PROVE  OuterInv' /\ outer'.missed = outer.missed
<1> DEFINE e == IF motor.err = "can" THEN "none" ELSE motor.err
           y == [motor EXCEPT !.err = e]
<1>1. /\ motor \in MotorWords /\ e \in Faults
  BY DEF OuterInv, OuterTypeOK, MotorWords, Faults
<1>2. /\ can.pc = "idle" /\ worker = "idle" /\ ~pend /\ left > 0 /\ left' = left - 1
      /\ can' = [NoCommand EXCEPT !.pc = "check", !.cmd = c]
      /\ motor' = y /\ UNCHANGED <<outer, rtt, pend, worker>>
  BY DEF Frame
<1> HIDE DEF e
<1>3. y \in MotorWords /\ y.mode = motor.mode
  BY <1>1, ErrorSet
<1> HIDE DEF y
<1>4. left' \in 0 .. MaxCommands
  <2>1. left \in 0 .. MaxCommands
    BY DEF OuterInv, OuterTypeOK
  <2>2. QED
    BY <1>2, <2>1, OuterAssumption
<1>5. can' \in CanWords /\ can'.pc = "check"
  BY <1>2 DEF NoCommand, CanWords
<1>6. OuterTypeOK'
  BY <1>2, <1>3, <1>4, <1>5 DEF OuterInv, OuterTypeOK, CanWords
<1>7. ~Standing(outer)
  BY <1>2 DEF OuterInv, Served, Standing
<1>8. TurnInv'
  BY <1>2, <1>5, <1>7 DEF TurnInv, Standing
<1>9. Due(y, outer)
  BY <1>7 DEF Due
<1>10. QED
  BY <1>2, <1>6, <1>8, <1>9 DEF OuterInv, Served, FrameIsWhole, MailInv

LEMMA SilenceKeeps ==
    ASSUME OuterInv, Silence
    PROVE  OuterInv' /\ outer'.missed = outer.missed
<1> DEFINE y == [motor EXCEPT !.err = "can"]
<1>1. /\ can.pc = "idle" /\ motor' = y /\ UNCHANGED <<outer, rtt, pend, worker, can, left>>
  BY DEF Silence
<1>2. motor \in MotorWords /\ "can" \in Faults
  BY DEF OuterInv, OuterTypeOK, Faults
<1>3. y \in MotorWords /\ y.mode = motor.mode
  BY <1>2, ErrorSet
<1> HIDE DEF y
<1>4. Due(y, outer)
  BY <1>3 DEF OuterInv, Due, Active
<1>5. TurnInv'
  BY <1>1 DEF TurnInv
<1>6. OuterTypeOK'
  BY <1>1, <1>3 DEF OuterInv, OuterTypeOK
<1>7. QED
  BY <1>1, <1>4, <1>5, <1>6 DEF OuterInv, Served, FrameIsWhole, MailInv

LEMMA StepKeeps ==
    ASSUME OuterInv, [OuterNext]_outerVars
    PROVE  OuterInv' /\ (outer'.missed # outer.missed => outer'.age = Divider)
<1>1. CASE UNCHANGED outerVars
  BY <1>1
  DEF outerVars, OuterInv, OuterTypeOK, MailInv, Served, Due, TurnInv, FrameIsWhole
<1>2. CASE TickAny
  BY <1>2, TickKeeps
<1>3. CASE Worker
  BY <1>3, WorkerKeeps
<1>4. CASE Can
  BY <1>4, CanKeeps
<1>5. CASE Silence
  BY <1>5, SilenceKeeps
<1>6. CASE \E c \in Commands : Frame(c)
  BY <1>6, FrameKeeps
<1>7. QED
  BY <1>1, <1>2, <1>3, <1>4, <1>5, <1>6 DEF OuterNext

-----------------------------------------------------------------------------

(* The mailbox, PendSV and the receive interrupt agree, whatever ticks     *)
(* come between their steps (foc_run.c:822, stm32g4xx_it.c:247).           *)
THEOREM OuterInvariance == OuterSpec => []OuterInv
<1>1. OuterInv /\ [OuterNext]_outerVars => OuterInv'
  BY StepKeeps
<1>2. QED
  BY OuterInitInv, <1>1, PTL DEF OuterSpec

\* The words the contexts share keep their types (foc_run.c:822).
THEOREM OuterTypeCorrect == OuterSpec => []OuterTypeOK
<1>1. OuterInv => OuterTypeOK
  BY DEF OuterInv
<1>2. QED
  BY OuterInvariance, <1>1, PTL

(* No answer of a session that is over is applied, although the reset of   *)
(* the CAN interrupt may undo epochs the tick counted (foc_run.c:1000).    *)
THEOREM AnswersOfTheirSession == OuterSpec => []AnswerOfItsSession
<1>1. OuterInv => AnswerOfItsSession
  BY MailMeans DEF OuterInv
<1>2. QED
  BY OuterInvariance, <1>1, PTL

\* An overrun is reported of a question that Divider ticks saw standing
\* (foc_run.c:1041).
THEOREM OverrunsAreReal == OuterSpec => OverrunIsReal
<1>1. OuterInv /\ [OuterNext]_outerVars
        => [outer'.missed # outer.missed => outer'.age = Divider]_outerVars
  BY StepKeeps
<1>2. QED
  BY OuterInvariance, <1>1, PTL DEF OuterSpec, OverrunIsReal

\* The tick writes no snapshot while the worker encodes one (foc_task.c:183).
THEOREM FramesAreWhole == OuterSpec => []FrameIsWhole
<1>1. OuterInv => FrameIsWhole
  BY DEF OuterInv
<1>2. QED
  BY OuterInvariance, <1>1, PTL

-----------------------------------------------------------------------------
(***************************************************************************)
(* The tick as MotorMode reckons with it: there the mailbox is gone, and   *)
(* whether it has answered, or has found a fault, is left open.            *)
(***************************************************************************)

\* The tick's stages change of the motor's words only these, one at a time.
SameMotor(x, y) ==
    y.mode = x.mode /\ y.last = x.last /\ y.errLast = x.errLast /\ y.prepared = x.prepared

LEMMA FaultSet ==
    ASSUME NEW mo \in MotorWords, NEW e \in Faults
    PROVE  LET y == [mo EXCEPT !.err = e] IN
           y \in MotorWords /\ y.err = e /\ SameMotor(mo, y)
  BY DEF MotorWords, SameMotor

\* A change of mode takes the answer away.
LEMMA NoticeReady ==
    ASSUME NEW s \in Words, MailInv(s.o)
    PROVE  LET n == Notice(s) IN
           /\ n.o.ready = (s.o.ready /\ s.m.mode = s.o.mode)
           /\ s.m.mode # s.o.mode => n.o.request # n.o.epoch
<1> DEFINE n == Notice(s)
           r == Reset(s.o)
           q == [r EXCEPT !.mode = s.m.mode, !.divider = Divider - 1]
<1>1. s.o \in Mailbox
  BY DEF Words
<1>2. CASE s.m.mode = s.o.mode
  BY <1>1, <1>2 DEF Notice, Mailbox
<1>3. CASE s.m.mode # s.o.mode
  <2>1. n = [s EXCEPT !.o = q]
    BY <1>3 DEF Notice
  <2>2. r \in Mailbox /\ r.request < r.epoch
    BY <1>1, ResetStage
  <2>3. r.ready = FALSE
    BY <1>1 DEF Reset, Mailbox
  <2> HIDE DEF r
  <2>4. q.request # q.epoch /\ q.ready = FALSE
    BY <2>2, <2>3 DEF Mailbox
  <2> HIDE DEF q
  <2>5. n.o = q
    BY <2>1 DEF Words
  <2>6. QED
    BY <1>3, <2>4, <2>5
<1>4. QED
  BY <1>2, <1>3

\* Bad inputs are a fault, and take the answer away.
LEMMA InputsReady ==
    ASSUME NEW s \in Words, NEW i \in Inputs(s)
    PROVE  /\ SameMotor(s.m, i.m)
           /\ \/ i = s
              \/ /\ Active(s.m) /\ s.m.err = "none" /\ i.m.err = "hard"
                 /\ i.o.ready = FALSE
<1>1. s.o \in Mailbox /\ s.m \in MotorWords
  BY DEF Words
<1>2. CASE i = s
  BY <1>2 DEF SameMotor
<1>3. CASE /\ Active(s.m) /\ s.m.err = "none"
           /\ i = [s EXCEPT !.m.err = "hard", !.o = Reset(@)]
  <2> DEFINE q == Reset(s.o)
             y == [s.m EXCEPT !.err = "hard"]
  <2>1. i = [m |-> y, o |-> q, pend |-> s.pend]
    BY <1>3 DEF Words
  <2>2. q.ready = FALSE
    BY <1>1 DEF Reset, Mailbox
  <2>3. y.err = "hard" /\ SameMotor(s.m, y)
    BY <1>1, FaultSet DEF Faults
  <2> HIDE DEF q, y
  <2>4. i.m = y /\ i.o = q
    BY <2>1
  <2>5. QED
    BY <1>3, <2>2, <2>3, <2>4
<1>4. QED
  BY <1>2, <1>3 DEF Inputs

\* An answer of this epoch is taken, or is a fault.
LEMMA CollectReady ==
    ASSUME NEW s \in Words
    PROVE  LET c == Collect(s) IN
           /\ SameMotor(s.m, c.m)
           /\ \/ c.m = s.m /\ c.o.ready = s.o.ready
              \/ /\ Active(s.m) /\ s.m.err = "none"
                 /\ \/ /\ s.o.request = s.o.epoch /\ c.m = s.m
                       /\ c.o.ready = TRUE /\ c.o.status = "idle"
                    \/ c.m.err = "hard" /\ c.o.ready = s.o.ready
<1> DEFINE c == Collect(s)
           g == Aged(s.o)
           free == [g EXCEPT !.status = "idle"]
           ready == [free EXCEPT !.ready = TRUE]
           y == [s.m EXCEPT !.err = "hard"]
<1>1. s.o \in Mailbox /\ s.m \in MotorWords
  BY DEF Words
<1>2. y.err = "hard" /\ SameMotor(s.m, y) /\ SameMotor(s.m, s.m)
  BY <1>1, FaultSet DEF Faults, SameMotor
<1>3. DOMAIN g = DOMAIN s.o /\ g.ready = s.o.ready
  BY <1>1 DEF Aged, Mailbox
<1>4. /\ free.ready = s.o.ready /\ ready.ready = TRUE /\ ready.status = "idle"
  <2> HIDE DEF g
  <2>1. "ready" \in DOMAIN g /\ "status" \in DOMAIN g
    BY <1>1, <1>3 DEF Mailbox
  <2>2. QED
    BY <1>3, <2>1
<1>5. \/ c = s
      \/ c = [s EXCEPT !.o = g]
      \/ c = [s EXCEPT !.o = free]
      \/ /\ Active(s.m) /\ s.m.err = "none" /\ s.o.request = s.o.epoch
         /\ c = [s EXCEPT !.o = ready]
      \/ Active(s.m) /\ s.m.err = "none" /\ c = [s EXCEPT !.o = free, !.m.err = "hard"]
  BY Zenon DEF Collect
<1> HIDE DEF c, g, free, ready
<1>6. CASE Active(s.m) /\ s.m.err = "none" /\ c = [s EXCEPT !.o = free, !.m.err = "hard"]
  <2>1. c = [m |-> y, o |-> free, pend |-> s.pend]
    BY <1>6 DEF Words
  <2> HIDE DEF y
  <2>2. c.m = y /\ c.o = free
    BY <2>1
  <2>3. QED
    BY <1>2, <1>4, <1>6, <2>2 DEF c
<1>7. CASE /\ Active(s.m) /\ s.m.err = "none" /\ s.o.request = s.o.epoch
           /\ c = [s EXCEPT !.o = ready]
  <2>1. c.m = s.m /\ c.o = ready
    BY <1>7 DEF Words
  <2>2. QED
    BY <1>2, <1>4, <1>7, <2>1 DEF c
<1>8. CASE c = s \/ c = [s EXCEPT !.o = g] \/ c = [s EXCEPT !.o = free]
  <2>1. c.m = s.m /\ c.o \in {s.o, g, free}
    BY <1>8 DEF Words
  <2>2. QED
    BY <1>2, <1>3, <1>4, <2>1 DEF c
<1>9. QED
  BY <1>5, <1>6, <1>7, <1>8

\* An overdue question is a fault, and takes the answer away.
LEMMA ReleaseReady ==
    ASSUME NEW s \in Words
    PROVE  LET z == Release(s) IN
           /\ SameMotor(s.m, z.m)
           /\ \/ z.m = s.m /\ z.o.ready = s.o.ready
              \/ /\ Active(s.m) /\ s.m.err = "none" /\ s.o.status # "idle"
                 /\ z.m.err = "hard" /\ z.o.ready = FALSE
           /\ z.o.mode = s.o.mode
<1> DEFINE z == Release(s)
           r == Reset(s.o)
           late == [r EXCEPT !.divider = 0, !.missed = TRUE]
           y == [s.m EXCEPT !.err = "hard"]
           asks == [s.o EXCEPT !.divider = 0, !.status = "queued", !.request = s.o.epoch,
                               !.age = 0, !.kind = s.m.mode, !.asked = s.o.session]
           next == [s.o EXCEPT !.divider = s.o.divider + 1]
<1>1. s.o \in Mailbox /\ s.m \in MotorWords
  BY DEF Words
<1>2. y.err = "hard" /\ SameMotor(s.m, y) /\ SameMotor(s.m, s.m)
  BY <1>1, FaultSet DEF Faults, SameMotor
<1>3. DOMAIN r = DOMAIN s.o /\ r.ready = FALSE /\ r.mode = s.o.mode
  BY <1>1 DEF Reset, Mailbox
<1>4. late.ready = FALSE /\ late.mode = s.o.mode
  <2> HIDE DEF r
  <2>1. "ready" \in DOMAIN r /\ "mode" \in DOMAIN r
    BY <1>1, <1>3 DEF Mailbox
  <2>2. QED
    BY <1>3, <2>1
<1>5. /\ asks.ready = s.o.ready /\ asks.mode = s.o.mode
      /\ next.ready = s.o.ready /\ next.mode = s.o.mode
  BY <1>1 DEF Mailbox
<1>6. \/ z = s
      \/ z = [s EXCEPT !.o = next]
      \/ z = [s EXCEPT !.o = asks, !.pend = TRUE]
      \/ /\ Active(s.m) /\ s.m.err = "none" /\ s.o.status # "idle"
         /\ z = [s EXCEPT !.m.err = "hard", !.o = late]
  <2>1. CASE ~Active(s.m) \/ s.m.err # "none"
    BY <2>1 DEF Release
  <2>2. CASE Active(s.m) /\ s.m.err = "none" /\ s.o.divider + 1 < Divider
    <3>1. z = [s EXCEPT !.o.divider = s.o.divider + 1]
      BY <2>2 DEF Release
    <3>2. QED
      BY <3>1 DEF Words
  <2>3. CASE /\ Active(s.m) /\ s.m.err = "none" /\ ~(s.o.divider + 1 < Divider)
             /\ s.o.status # "idle"
    BY <2>3 DEF Release
  <2>4. CASE /\ Active(s.m) /\ s.m.err = "none" /\ ~(s.o.divider + 1 < Divider)
             /\ s.o.status = "idle"
    BY <2>4 DEF Release
  <2>5. QED
    BY <2>1, <2>2, <2>3, <2>4
<1> HIDE DEF z, late, asks, next
<1>7. CASE /\ Active(s.m) /\ s.m.err = "none" /\ s.o.status # "idle"
           /\ z = [s EXCEPT !.m.err = "hard", !.o = late]
  <2>1. z = [m |-> y, o |-> late, pend |-> s.pend]
    BY <1>7 DEF Words
  <2> HIDE DEF y
  <2>2. z.m = y /\ z.o = late
    BY <2>1
  <2>3. QED
    BY <1>2, <1>4, <1>7, <2>2 DEF z
<1>8. CASE z = s \/ z = [s EXCEPT !.o = next] \/ z = [s EXCEPT !.o = asks, !.pend = TRUE]
  <2>1. z.m = s.m /\ z.o \in {s.o, next, asks}
    BY <1>8 DEF Words
  <2>2. QED
    BY <1>2, <1>5, <2>1 DEF z
<1>9. QED
  BY <1>6, <1>7, <1>8

\* The servo stage, of which MotorMode keeps the error word and the answer.
LEMMA FastView ==
    ASSUME NEW s \in Words, MailInv(s.o), Served(s.o, s.pend), Due(s.m, s.o),
           NEW a \in FastTick(s)
    PROVE  LET kept == s.o.ready /\ s.m.mode = s.o.mode IN
           /\ SameMotor(s.m, a.m) /\ a.o.mode = s.m.mode
           /\ \/ a.m.err = s.m.err /\ a.o.ready = kept
              \/ /\ Active(s.m) /\ s.m.err = "none"
                 /\ \/ a.m.err = "none" /\ a.o.ready = TRUE /\ s.m.mode = s.o.mode
                    \/ a.m.err = "hard" /\ a.o.ready \in {kept, FALSE}
<1> DEFINE n == Notice(s)
           kept == s.o.ready /\ s.m.mode = s.o.mode
<1>1. /\ n \in Words /\ n.m = s.m /\ MailInv(n.o) /\ n.o.mode = n.m.mode /\ Due(n.m, n.o)
  BY NoticeStage
<1>2. n.o.ready = kept /\ (s.m.mode # s.o.mode => n.o.request # n.o.epoch)
  BY NoticeReady
<1>3. PICK i \in Inputs(n) : a = Release(Collect(i))
  BY DEF FastTick
<1> DEFINE c == Collect(i)
           z == Release(c)
<1> HIDE DEF n, kept
<1>4. i \in Words /\ MailInv(i.o) /\ i.o.mode = i.m.mode /\ Due(i.m, i.o)
  BY <1>1, InputsStage
<1>5. /\ SameMotor(n.m, i.m)
      /\ \/ i = n
         \/ Active(n.m) /\ n.m.err = "none" /\ i.m.err = "hard" /\ i.o.ready = FALSE
  BY <1>1, InputsReady
<1>6. c \in Words /\ c.o.mode = c.m.mode /\ c.m.mode = i.m.mode
  BY <1>4, CollectStage
<1>7. /\ SameMotor(i.m, c.m)
      /\ \/ c.m = i.m /\ c.o.ready = i.o.ready
         \/ /\ Active(i.m) /\ i.m.err = "none"
            /\ \/ /\ i.o.request = i.o.epoch /\ c.m = i.m
                  /\ c.o.ready = TRUE /\ c.o.status = "idle"
               \/ c.m.err = "hard" /\ c.o.ready = i.o.ready
  BY <1>4, CollectReady
<1> HIDE DEF c
<1>8. /\ SameMotor(c.m, z.m)
      /\ \/ z.m = c.m /\ z.o.ready = c.o.ready
         \/ /\ Active(c.m) /\ c.m.err = "none" /\ c.o.status # "idle"
            /\ z.m.err = "hard" /\ z.o.ready = FALSE
      /\ z.o.mode = c.o.mode
  BY <1>6, ReleaseReady
<1>9. a = z
  BY <1>3 DEF c
<1> HIDE DEF z
<1>10. SameMotor(s.m, a.m) /\ a.o.mode = s.m.mode
  BY <1>1, <1>5, <1>6, <1>7, <1>8, <1>9 DEF SameMotor
<1>11. Active(c.m) = Active(s.m) /\ Active(i.m) = Active(s.m) /\ Active(n.m) = Active(s.m)
  BY <1>1, <1>5, <1>7 DEF SameMotor, Active
<1>12. CASE i # n
  BY <1>1, <1>5, <1>7, <1>8, <1>9, <1>10, <1>11, <1>12 DEF kept
<1>13. CASE i = n
  <2>1. \/ c.m = n.m /\ c.o.ready = kept
        \/ /\ Active(s.m) /\ s.m.err = "none"
           /\ \/ /\ s.m.mode = s.o.mode /\ c.m = n.m
                 /\ c.o.ready = TRUE /\ c.o.status = "idle"
              \/ c.m.err = "hard" /\ c.o.ready = kept
    BY <1>1, <1>2, <1>7, <1>11, <1>13
  <2>2. \/ a.m.err = c.m.err /\ a.o.ready = c.o.ready
        \/ /\ Active(s.m) /\ c.m.err = "none" /\ c.o.status # "idle"
           /\ a.m.err = "hard" /\ a.o.ready = FALSE
    BY <1>8, <1>9, <1>11
  <2>3. QED
    BY <1>1, <1>10, <2>1, <2>2 DEF kept
<1>14. QED
  BY <1>12, <1>13

\* MotorMode's record of a motor and a mailbox, as Motor is instantiated.
View(mo, o) ==
    [mode |-> Merged(mo.mode), err |-> mo.err, last |-> Merged(mo.last),
     errLast |-> mo.errLast,
     phases |-> IF mo.last = "disable" THEN "off" ELSE "pwm",
     heat |-> "cool", outer |-> Merged(o.mode), ready |-> o.ready,
     prepared |-> mo.prepared, primed |-> FALSE, locked |-> FALSE,
     waits |-> FALSE, load |-> "none"]

\* The fields of a record that the outer loop never moves.
Still(x) ==
    /\ x.heat = "cool" /\ x.primed = FALSE /\ x.locked = FALSE
    /\ x.waits = FALSE /\ x.load = "none"

\* That record, field by field.
Seen(x, mo, o) ==
    /\ x \in Motor!MotorSet /\ Still(x)
    /\ x.mode = Merged(mo.mode) /\ x.err = mo.err /\ x.last = Merged(mo.last)
    /\ x.errLast = mo.errLast /\ x.prepared = mo.prepared
    /\ x.phases = IF mo.last = "disable" THEN "off" ELSE "pwm"
    /\ x.outer = Merged(o.mode) /\ x.ready = o.ready

\* Of the modes, the servo modes alone are merged.
LEMMA MergedModes ==
    ASSUME NEW mode \in Stages
    PROVE  /\ Merged(mode) \in {"disable", "clear", "servo"}
           /\ Merged(mode) = "servo" <=> mode \in Servo
           /\ mode \notin Servo => Merged(mode) = mode
  BY DEF Merged, Stages, Servo

LEMMA SeenView ==
    ASSUME NEW mo \in MotorWords, NEW o \in Mailbox
    PROVE  Seen(View(mo, o), mo, o)
<1> DEFINE x == View(mo, o)
<1>1. /\ mo.mode \in Stages /\ mo.last \in Stages /\ o.mode \in Stages
      /\ mo.err \in Faults /\ mo.errLast \in Faults
      /\ mo.prepared \in BOOLEAN /\ o.ready \in BOOLEAN
  BY DEF MotorWords, Mailbox, Stages
<1> DEFINE md == Merged(mo.mode)
           la == Merged(mo.last)
           ou == Merged(o.mode)
           ph == IF mo.last = "disable" THEN "off" ELSE "pwm"
<1>2. md \in Motor!Modes /\ la \in Motor!Modes /\ ou \in Motor!Modes
  BY <1>1, MergedModes DEF Motor!Modes
<1>3. mo.err \in Motor!Errors /\ mo.errLast \in Motor!Errors
  BY <1>1 DEF Motor!Errors, Faults
<1>4. ph \in {"off", "pwm", "short"} /\ "cool" \in Motor!Heats
  BY DEF Motor!Heats
<1>5. x = [mode |-> md, err |-> mo.err, last |-> la, errLast |-> mo.errLast,
           phases |-> ph, heat |-> "cool", outer |-> ou, ready |-> o.ready,
           prepared |-> mo.prepared, primed |-> FALSE, locked |-> FALSE,
           waits |-> FALSE, load |-> "none"]
  BY Zenon DEF View
<1> HIDE DEF x, md, la, ou, ph
<1>6. /\ x \in Motor!MotorSet /\ Still(x)
      /\ x.mode = md /\ x.err = mo.err /\ x.last = la /\ x.errLast = mo.errLast
      /\ x.prepared = mo.prepared /\ x.phases = ph /\ x.outer = ou /\ x.ready = o.ready
  BY <1>1, <1>2, <1>3, <1>4, <1>5 DEF Motor!MotorSet, Still
<1>7. QED
  BY <1>6 DEF Seen, x, md, la, ou, ph

LEMMA SameSeen ==
    ASSUME NEW x, NEW y, NEW mo, NEW o, Seen(x, mo, o), Seen(y, mo, o)
    PROVE  x = y
  BY DEF Seen, Still, Motor!MotorSet

LEMMA SeenOnly ==
    ASSUME NEW x, NEW mo \in MotorWords, NEW o \in Mailbox, Seen(x, mo, o)
    PROVE  x = View(mo, o)
  BY SeenView, SameSeen

\* Nothing before the outer loop stops a cool motor on a known profile.
LEMMA SensedView ==
    ASSUME NEW mo \in MotorWords, NEW o \in Mailbox, NEW e \in {mo.err, "hard"}
    PROVE  View([mo EXCEPT !.err = e], o) \in
             UNION {Motor!Guard(c) : c \in
               UNION {Motor!Profile(b) : b \in
                 {Motor!Handover(Motor!Configured(a)) : a \in Motor!Sense(View(mo, o))}}}
<1> DEFINE y == [mo EXCEPT !.err = e]
           w == View(mo, o)
           x == [w EXCEPT !.err = e, !.heat = "cool"]
<1>1. e \in Faults
  BY DEF MotorWords, Faults
<1>2. y \in MotorWords /\ y.err = e /\ SameMotor(mo, y)
  BY <1>1, FaultSet
<1>3. Seen(w, mo, o)
  BY SeenView
<1> HIDE DEF y, w
<1>4. Seen(x, y, o)
  <2>1. e \in Motor!Errors /\ "cool" \in Motor!Heats
    BY <1>1 DEF Faults, Motor!Errors, Motor!Heats
  <2>2. x \in Motor!MotorSet
    BY <1>3, <2>1 DEF Seen, Motor!MotorSet
  <2>3. /\ x.err = e /\ x.heat = "cool" /\ x.mode = w.mode /\ x.last = w.last
        /\ x.errLast = w.errLast /\ x.prepared = w.prepared /\ x.phases = w.phases
        /\ x.outer = w.outer /\ x.ready = w.ready /\ x.primed = w.primed
        /\ x.locked = w.locked /\ x.waits = w.waits /\ x.load = w.load
    BY <1>3 DEF Seen, Motor!MotorSet
  <2> HIDE DEF x
  <2>4. QED
    BY <1>2, <1>3, <2>2, <2>3 DEF Seen, Still, SameMotor
<1>5. x \in Motor!Sense(w)
  <2>1. "cool" \in Motor!Heating(w)
    BY <1>3 DEF Motor!Heating, Motor!Heats, Seen, Still
  <2>2. e \in {w.err, "hard"}
    BY <1>3 DEF Seen
  <2> DEFINE S(f) == {[w EXCEPT !.err = f, !.heat = h] : h \in Motor!Heating(w)}
  <2>3. x \in S(e)
    BY <2>1
  <2>4. Motor!Sense(w) = UNION {S(f) : f \in {w.err, "hard"}}
    BY DEF Motor!Sense
  <2> HIDE DEF S, w, x, y
  <2>5. QED
    BY <2>2, <2>3, <2>4
<1> HIDE DEF x
<1>6. Motor!Handover(Motor!Configured(x)) = x
  <2> DEFINE u == [x EXCEPT !.waits = x.waits /\ x.phases # "off"]
             v == [u EXCEPT !.load = "none"]
  <2>1. Motor!Configured(x) = u
    BY DEF Motor!Configured
  <2>2. u \in Motor!MotorSet /\ v \in Motor!MotorSet
    BY <1>4 DEF Seen, Motor!MotorSet
  <2>3. u = x
    BY <1>4, <2>2 DEF Seen, Still, Motor!MotorSet
  <2>4. v = x
    BY <1>4, <2>2, <2>3 DEF Seen, Still, Motor!MotorSet
  <2>5. Motor!Handover(x) = [x EXCEPT !.load = "none"]
    BY <1>4 DEF Motor!Handover, Seen, Still
  <2>6. QED
    BY <2>1, <2>3, <2>4, <2>5
<1>7. x \in Motor!Profile(x)
  BY DEF Motor!Profile
<1>8. x \in Motor!Guard(x)
  <2>1. x.mode \in {"disable", "clear", "servo"} /\ x.heat = "cool" /\ x.waits = FALSE
    BY <1>2, <1>4, MergedModes DEF Seen, Still, MotorWords
  <2>2. Motor!CanRun(x, x.mode)
    BY <2>1 DEF Motor!CanRun, Motor!Modes
  <2>3. QED
    BY <2>1, <2>2 DEF Motor!Guard
<1>9. x = View(y, o)
  BY <1>2, <1>4, SeenOnly
<1>10. QED
  BY <1>5, <1>6, <1>7, <1>8, <1>9 DEF y, w

\* The servo stage is one of those MotorMode allows for.
LEMMA OuterView ==
    ASSUME NEW mo \in MotorWords, NEW o \in Mailbox, NEW mp \in MotorWords, NEW q \in Mailbox,
           SameMotor(mo, mp), q.mode = mo.mode,
           LET kept == o.ready /\ mo.mode = o.mode IN
           \/ mp.err = mo.err /\ q.ready = kept
           \/ /\ Active(mo) /\ mo.err = "none"
              /\ \/ mp.err = "none" /\ q.ready = TRUE /\ mo.mode = o.mode
                 \/ mp.err = "hard" /\ q.ready \in {kept, FALSE}
    PROVE  View(mp, q) \in Motor!OuterTick(View(mo, o))
<1> DEFINE x == View(mo, o)
           z == View(mp, q)
           kept == o.ready /\ mo.mode = o.mode
           y == IF x.mode = x.outer THEN x ELSE [x EXCEPT !.outer = x.mode, !.ready = FALSE]
           over == [y EXCEPT !.ready = FALSE]
<1>1. Seen(x, mo, o) /\ Seen(z, mp, q)
  BY SeenView
<1>2. mo.mode \in Stages /\ o.mode \in Stages
  BY DEF MotorWords, Mailbox
<1>3. Merged(mo.mode) = "servo" <=> Active(mo)
  BY <1>2, MergedModes DEF Active
<1> HIDE DEF x, z
<1> SUFFICES z \in Motor!OuterTick(x)
  BY DEF x, z
\* What becomes of the record but for the error word and the answer.
<1> DEFINE Alike(u) == /\ u \in Motor!MotorSet /\ Still(u)
                       /\ u.mode = Merged(mo.mode) /\ u.last = Merged(mo.last)
                       /\ u.errLast = mo.errLast /\ u.prepared = mo.prepared
                       /\ u.phases = IF mo.last = "disable" THEN "off" ELSE "pwm"
                       /\ u.outer = Merged(mo.mode)
<1>4. /\ Alike(y) /\ y.err = mo.err
      /\ y.ready = (o.ready /\ x.mode = x.outer)
  <2>1. CASE x.mode = x.outer
    <3>1. y = x
      BY <2>1
    <3>2. o.ready \in BOOLEAN
      BY DEF Mailbox
    <3> HIDE DEF y
    <3>3. QED
      BY <1>1, <2>1, <3>1, <3>2 DEF Seen
  <2>2. CASE x.mode # x.outer
    <3> DEFINE v == [x EXCEPT !.outer = x.mode, !.ready = FALSE]
    <3>1. v \in Motor!MotorSet
      BY <1>1 DEF Seen, Motor!MotorSet
    <3>2. /\ v.outer = x.mode /\ v.ready = FALSE /\ v.mode = x.mode /\ v.err = x.err
          /\ v.last = x.last /\ v.errLast = x.errLast /\ v.prepared = x.prepared
          /\ v.phases = x.phases /\ v.heat = x.heat /\ v.primed = x.primed
          /\ v.locked = x.locked /\ v.waits = x.waits /\ v.load = x.load
      BY <1>1 DEF Seen, Motor!MotorSet
    <3>3. y = v
      BY <2>2
    <3> HIDE DEF v, y
    <3>4. QED
      BY <1>1, <2>2, <3>1, <3>2, <3>3 DEF Seen, Still
  <2>3. QED
    BY <2>1, <2>2
<1> HIDE DEF y
<1>5. Alike(over) /\ over.err = mo.err /\ over.ready = FALSE
  <2>1. over \in Motor!MotorSet
    BY <1>4 DEF Motor!MotorSet
  <2>2. /\ over.ready = FALSE /\ over.mode = y.mode /\ over.err = y.err
        /\ over.last = y.last /\ over.errLast = y.errLast /\ over.prepared = y.prepared
        /\ over.phases = y.phases /\ over.heat = y.heat /\ over.primed = y.primed
        /\ over.locked = y.locked /\ over.waits = y.waits /\ over.load = y.load
        /\ over.outer = y.outer
    BY <1>4 DEF Motor!MotorSet
  <2> HIDE DEF over
  <2>3. QED
    BY <1>4, <2>1, <2>2 DEF Still
<1> HIDE DEF over
<1>6. ASSUME NEW u, Alike(u)
      PROVE  LET b == [u EXCEPT !.err = "hard"] IN
             Alike(b) /\ b.err = "hard" /\ b.ready = u.ready
  <2> DEFINE b == [u EXCEPT !.err = "hard"]
  <2>1. b \in Motor!MotorSet
    BY <1>6 DEF Motor!MotorSet, Motor!Errors
  <2>2. /\ b.err = "hard" /\ b.mode = u.mode /\ b.ready = u.ready
        /\ b.last = u.last /\ b.errLast = u.errLast /\ b.prepared = u.prepared
        /\ b.phases = u.phases /\ b.heat = u.heat /\ b.primed = u.primed
        /\ b.locked = u.locked /\ b.waits = u.waits /\ b.load = u.load
        /\ b.outer = u.outer
    BY <1>6 DEF Motor!MotorSet
  <2> HIDE DEF b
  <2>3. Alike(b)
    BY <1>6, <2>1, <2>2 DEF Still
  <2>4. QED
    BY <2>2, <2>3 DEF b
<1>7. LET b == [y EXCEPT !.ready = (x.mode = x.outer)] IN
      Alike(b) /\ b.err = mo.err /\ b.ready = (x.mode = x.outer)
  <2> DEFINE same == (x.mode = x.outer)
             b == [y EXCEPT !.ready = same]
  <2>1. same \in BOOLEAN
    OBVIOUS
  <2> HIDE DEF same
  <2>2. b \in Motor!MotorSet
    BY <1>4, <2>1 DEF Motor!MotorSet
  <2>3. /\ b.ready = same /\ b.mode = y.mode /\ b.err = y.err
        /\ b.last = y.last /\ b.errLast = y.errLast /\ b.prepared = y.prepared
        /\ b.phases = y.phases /\ b.heat = y.heat /\ b.primed = y.primed
        /\ b.locked = y.locked /\ b.waits = y.waits /\ b.load = y.load
        /\ b.outer = y.outer
    BY <1>4, <2>1 DEF Motor!MotorSet
  <2> HIDE DEF b
  <2>4. Alike(b)
    BY <1>4, <2>2, <2>3 DEF Still
  <2>5. QED
    BY <1>4, <2>3, <2>4 DEF b, same
<1>8. Alike(z) /\ z.err = mp.err /\ z.ready = q.ready
  BY <1>1 DEF Seen, SameMotor
\* Records alike in those two words are the same.
<1>9. ASSUME NEW u, Alike(u), u.err = z.err, u.ready = z.ready PROVE u = z
  BY <1>8, <1>9 DEF Still, Motor!MotorSet
<1> HIDE DEF Alike
<1>10. Motor!OuterTick(x) =
         IF x.mode # "servo" THEN {y}
         ELSE IF x.err # "none" THEN {y, over}
         ELSE {y, over, [y EXCEPT !.err = "hard"], [over EXCEPT !.err = "hard"],
               [y EXCEPT !.ready = (x.mode = x.outer)]}
  BY DEF Motor!OuterTick, y, over
<1>11. x.mode = Merged(mo.mode) /\ x.err = mo.err /\ x.outer = Merged(o.mode)
  BY <1>1 DEF Seen
<1>12. kept = y.ready \/ (Active(mo) /\ kept = FALSE)
  <2>1. o.ready \in BOOLEAN
    BY DEF Mailbox
  <2>2. ~Active(mo) => (mo.mode = o.mode <=> x.mode = x.outer)
    BY <1>2, <1>11, MergedModes DEF Active
  <2>3. mo.mode = o.mode => x.mode = x.outer
    BY <1>11
  <2>4. QED
    BY <1>4, <2>1, <2>2, <2>3
<1>13. CASE mp.err = mo.err /\ q.ready = kept
  <2>1. CASE kept = y.ready
    <3>1. z = y
      BY <1>4, <1>8, <1>9, <1>13, <2>1
    <3>2. QED
      BY <1>10, <3>1
  <2>2. CASE Active(mo) /\ kept = FALSE
    <3>1. z = over
      BY <1>5, <1>8, <1>9, <1>13, <2>2
    <3>2. QED
      BY <1>3, <1>10, <1>11, <2>2, <3>1
  <2>3. QED
    BY <1>12, <2>1, <2>2
<1>14. CASE /\ Active(mo) /\ mo.err = "none" /\ mp.err = "none"
            /\ q.ready = TRUE /\ mo.mode = o.mode
  <2> DEFINE b == [y EXCEPT !.ready = (x.mode = x.outer)]
  <2>1. Alike(b) /\ b.err = mo.err /\ b.ready = (x.mode = x.outer)
    BY <1>7
  <2>2. b \in Motor!OuterTick(x)
    BY <1>3, <1>10, <1>11, <1>14
  <2> HIDE DEF b
  <2>3. x.mode = x.outer
    BY <1>11, <1>14
  <2>4. b = z
    BY <1>8, <1>9, <1>14, <2>1, <2>3
  <2>5. QED
    BY <2>2, <2>4
<1>15. CASE Active(mo) /\ mo.err = "none" /\ mp.err = "hard" /\ q.ready \in {kept, FALSE}
  <2>1. ASSUME NEW u \in {y, over}, u.ready = q.ready PROVE z \in Motor!OuterTick(x)
    <3> DEFINE b == [u EXCEPT !.err = "hard"]
    <3>1. Alike(b) /\ b.err = "hard" /\ b.ready = u.ready
      BY <1>4, <1>5, <1>6, <2>1
    <3>2. b \in Motor!OuterTick(x)
      BY <1>3, <1>10, <1>11, <1>15, <2>1
    <3> HIDE DEF b
    <3>3. b = z
      BY <1>8, <1>9, <1>15, <2>1, <3>1
    <3>4. QED
      BY <3>2, <3>3
  <2>2. q.ready = y.ready \/ q.ready = FALSE
    BY <1>12, <1>15
  <2>3. QED
    BY <1>5, <2>1, <2>2
<1>16. QED
  BY <1>13, <1>14, <1>15

\* The mode's own work: driving a servo mode, or clearing the fault.
LEMMA WorkView ==
    ASSUME NEW s \in Words, NEW b \in Work(s)
    PROVE  /\ View(b.m, b.o) \in Motor!Task(View(s.m, s.o))
           /\ b \in Words /\ b.o = s.o /\ b.m.mode # "clear"
<1> DEFINE x == View(s.m, s.o)
           hard == [s.m EXCEPT !.err = "hard"]
           calm == [s.m EXCEPT !.mode = "disable", !.err = "none"]
<1>1. s.m \in MotorWords /\ s.o \in Mailbox /\ s.m.mode \in Stages
  BY DEF Words, MotorWords
<1>2. hard \in MotorWords /\ hard.err = "hard" /\ SameMotor(s.m, hard)
  BY <1>1, FaultSet DEF Faults
<1>3. /\ calm \in MotorWords /\ calm.mode = "disable" /\ calm.err = "none"
      /\ calm.last = s.m.last /\ calm.errLast = s.m.errLast /\ calm.prepared = s.m.prepared
  BY <1>1 DEF MotorWords, Stages, Faults
<1>4. Seen(x, s.m, s.o)
  BY <1>1, SeenView
<1>5. /\ x.mode \in {"disable", "clear", "servo"}
      /\ x.mode = "servo" <=> Active(s.m)
      /\ s.m.mode = "clear" <=> x.mode = "clear"
  BY <1>1, <1>4, MergedModes DEF Seen, Active, Servo
<1>6. CASE s.m.mode = "clear"
  <2> DEFINE u == [x EXCEPT !.mode = "disable", !.err = "none", !.heat = "cool"]
  <2>1. b = [s EXCEPT !.m.mode = "disable", !.m.err = "none"]
    BY <1>6 DEF Work
  <2>2. b = [m |-> calm, o |-> s.o, pend |-> s.pend]
    BY <2>1 DEF Words
  <2>3. b.m = calm /\ b.o = s.o /\ b \in Words
    <3> HIDE DEF calm
    <3>1. QED
      BY <1>1, <1>3, <2>2 DEF Words
  <2> HIDE DEF calm
  <2>4. u \in Motor!MotorSet
    <3>1. "disable" \in Motor!Modes /\ "none" \in Motor!Errors /\ "cool" \in Motor!Heats
      BY DEF Motor!Modes, Motor!Errors, Motor!Heats
    <3>2. x \in Motor!MotorSet
      BY <1>4 DEF Seen
    <3> HIDE DEF x
    <3>3. QED
      BY <3>1, <3>2, Zenon DEF Motor!MotorSet
  <2>5. /\ u.mode = "disable" /\ u.err = "none" /\ u.heat = "cool" /\ u.last = x.last
        /\ u.errLast = x.errLast /\ u.prepared = x.prepared /\ u.phases = x.phases
        /\ u.outer = x.outer /\ u.ready = x.ready /\ u.primed = x.primed
        /\ u.locked = x.locked /\ u.waits = x.waits /\ u.load = x.load
    BY <1>4 DEF Seen, Motor!MotorSet
  <2>6. Seen(u, calm, s.o)
    <3> HIDE DEF u
    <3>1. Merged("disable") = "disable"
      BY DEF Merged, Servo
    <3>2. QED
      BY <1>3, <1>4, <2>4, <2>5, <3>1 DEF Seen, Still
  <2>7. u = View(b.m, b.o)
    BY <1>1, <1>3, <2>3, <2>6, SeenOnly
  <2>8. u \in Motor!TryClear(x)
    <3>1. TRUE \in Motor!CanClear(x)
      BY <1>4 DEF Motor!CanClear, Seen, Still
    <3>2. u = [x EXCEPT !.mode = "disable",
                        !.err  = IF TRUE \/ x.err # "thermal" THEN "none" ELSE x.err,
                        !.heat = IF TRUE /\ x.heat = "latched" THEN "cool" ELSE x.heat]
      BY <1>4 DEF Seen, Still
    <3> HIDE DEF u
    <3>3. QED
      BY <3>1, <3>2 DEF Motor!TryClear
  <2>9. Motor!Task(x) = Motor!TryClear(x)
    BY <1>5, <1>6 DEF Motor!Task
  <2>10. b.m.mode # "clear"
    BY <1>3, <2>3
  <2>11. QED
    BY <2>3, <2>7, <2>8, <2>9, <2>10
<1>7. CASE s.m.mode # "clear" /\ b = s
  <2>1. x \in Motor!Task(x)
    BY <1>5, <1>7 DEF Motor!Task, Motor!Drive
  <2>2. QED
    BY <1>7, <2>1
<1>8. CASE Active(s.m) /\ b = [s EXCEPT !.m.err = "hard"]
  <2> DEFINE u == [x EXCEPT !.err = "hard"]
  <2>1. b = [m |-> hard, o |-> s.o, pend |-> s.pend]
    BY <1>8 DEF Words
  <2>2. b.m = hard /\ b.o = s.o /\ b \in Words
    <3> HIDE DEF hard
    <3>1. QED
      BY <1>1, <1>2, <2>1 DEF Words
  <2> HIDE DEF hard
  <2>3. u \in Motor!MotorSet
    BY <1>4 DEF Seen, Motor!MotorSet, Motor!Errors
  <2>4. /\ u.mode = x.mode /\ u.err = "hard" /\ u.heat = x.heat /\ u.last = x.last
        /\ u.errLast = x.errLast /\ u.prepared = x.prepared /\ u.phases = x.phases
        /\ u.outer = x.outer /\ u.ready = x.ready /\ u.primed = x.primed
        /\ u.locked = x.locked /\ u.waits = x.waits /\ u.load = x.load
    BY <1>4 DEF Seen, Motor!MotorSet
  <2>5. Seen(u, hard, s.o)
    <3> HIDE DEF u
    <3>1. QED
      BY <1>2, <1>4, <2>3, <2>4 DEF Seen, Still, SameMotor
  <2>6. u = View(b.m, b.o)
    BY <1>1, <1>2, <2>2, <2>5, SeenOnly
  <2>7. u \in Motor!Task(x)
    <3>1. u \in Motor!Faulted(x)
      BY DEF Motor!Faulted
    <3> HIDE DEF u
    <3>2. QED
      BY <1>5, <1>8, <3>1 DEF Motor!Task, Motor!Drive
  <2>8. b.m.mode # "clear"
    BY <1>2, <1>8, <2>2 DEF SameMotor, Active, Servo
  <2>9. QED
    BY <2>2, <2>6, <2>7, <2>8
<1>9. s.m.mode # "clear" => b = s \/ (Active(s.m) /\ b = [s EXCEPT !.m.err = "hard"])
  BY DEF Work
<1>10. QED
  BY <1>6, <1>7, <1>8, <1>9

\* The two words of the mailbox, and the motor, when a tick ends.
LEMMA EndWords ==
    ASSUME NEW s \in Words, s.m.mode # "clear"
    PROVE  LET mode   == IF s.m.err # "none" THEN "disable" ELSE s.m.mode
               ends   == mode = "disable" /\ s.m.last # "disable"
               ready  == s.o.ready /\ ~ends
               defers == s.m.last = "disable" /\ mode \in Servo /\ ~(s.m.prepared /\ ready)
               z      == Started(Stopped(Disarmed(s)))
           IN  /\ z \in Words
               /\ z.m.mode = mode /\ z.m.err = s.m.err /\ z.m.errLast = s.m.err
               /\ z.m.last = IF defers THEN s.m.last ELSE mode
               /\ z.m.prepared = defers
               /\ z.o.mode = s.o.mode /\ z.o.ready = ready
<1> DEFINE mode   == IF s.m.err # "none" THEN "disable" ELSE s.m.mode
           ends   == mode = "disable" /\ s.m.last # "disable"
           ready  == s.o.ready /\ ~ends
           defers == s.m.last = "disable" /\ mode \in Servo /\ ~(s.m.prepared /\ ready)
           y == [s.m EXCEPT !.mode = "disable"]
           d == Disarmed(s)
           p == Stopped(d)
           z == Started(p)
           r == Reset(s.o)
<1>1. s.m \in MotorWords /\ s.o \in Mailbox /\ s.pend \in BOOLEAN
  BY DEF Words
<1>2. /\ y \in MotorWords /\ y.mode = "disable" /\ y.err = s.m.err /\ y.last = s.m.last
      /\ y.errLast = s.m.errLast /\ y.prepared = s.m.prepared
  BY <1>1 DEF MotorWords, Stages
<1>3. /\ d \in Words /\ d.o = s.o /\ d.pend = s.pend
      /\ d.m.mode = mode /\ d.m.err = s.m.err /\ d.m.last = s.m.last
      /\ d.m.prepared = s.m.prepared
  <2>1. CASE s.m.err = "none"
    BY <2>1 DEF Disarmed
  <2>2. CASE s.m.err # "none"
    <3>1. d = [m |-> y, o |-> s.o, pend |-> s.pend]
      BY <2>2 DEF Disarmed, Words
    <3> HIDE DEF y
    <3>2. d \in Words /\ d.m = y /\ d.o = s.o /\ d.pend = s.pend
      BY <1>1, <1>2, <3>1 DEF Words
    <3>3. QED
      BY <1>2, <2>2, <3>2
  <2>3. QED
    BY <2>1, <2>2
<1> HIDE DEF d, y
<1>4. s.o.ready \in BOOLEAN /\ d.m.mode \in Stages
  BY <1>1, <1>3 DEF Mailbox, MotorWords, Words
<1> HIDE DEF mode
<1>5. p \in Words /\ p.m = d.m /\ p.o.mode = s.o.mode /\ p.o.ready = ready
  <2>1. CASE ends
    <3>1. p = [d EXCEPT !.o = r]
      BY <1>3, <2>1 DEF Stopped
    <3>2. r \in Mailbox /\ r.mode = s.o.mode /\ r.ready = FALSE
      <4>1. s.o.epoch + 1 \in Nat /\ s.o.session + 1 \in Nat /\ FALSE \in BOOLEAN
        BY <1>1 DEF Mailbox
      <4>2. r \in Mailbox
        BY <1>1, <4>1, Zenon DEF Mailbox, Reset
      <4>3. r.mode = s.o.mode /\ r.ready = FALSE
        BY <1>1 DEF Mailbox, Reset
      <4>4. QED
        BY <4>2, <4>3
    <3> HIDE DEF r
    <3>3. p \in Words /\ p.m = d.m /\ p.o = r
      BY <1>3, <3>1, <3>2 DEF Words
    <3>4. QED
      BY <2>1, <3>2, <3>3
  <2>2. CASE ~ends
    <3>1. p = d
      BY <1>3, <2>2 DEF Stopped
    <3>2. QED
      BY <1>3, <1>4, <2>2, <3>1
  <2>3. QED
    BY <2>1, <2>2
<1> HIDE DEF p, ends, r
<1>6. p.m \in MotorWords /\ p.m.mode = mode /\ p.m.last = s.m.last /\ p.m.err = s.m.err
      /\ p.m.prepared = s.m.prepared
  BY <1>3, <1>5 DEF Words
<1> HIDE DEF ready
<1> DEFINE last == IF defers THEN p.m.last ELSE p.m.mode
           w == [p.m EXCEPT !.prepared = defers, !.errLast = p.m.err, !.last = last]
<1>7. z = [m |-> w, o |-> p.o, pend |-> p.pend]
  <2>1. defers = (p.m.last = "disable" /\ Active(p.m) /\ ~(p.m.prepared /\ p.o.ready))
    BY <1>5, <1>6 DEF Active
  <2> HIDE DEF defers
  <2>2. z = [p EXCEPT !.m = w]
    BY <2>1 DEF Started
  <2> HIDE DEF w, z
  <2>3. QED
    BY <1>5, <2>2 DEF Words
<1>8. defers \in BOOLEAN /\ p.m.err \in Faults /\ last \in {"disable"} \cup Servo
  <2>1. p.m.mode # "clear"
    BY <1>6 DEF mode
  <2>2. QED
    BY <1>6, <2>1 DEF MotorWords, Stages
<1> HIDE DEF defers, z
<1>9. last = IF defers THEN s.m.last ELSE mode
  BY <1>6
<1> HIDE DEF last
<1>10. w \in MotorWords
  BY <1>6, <1>8, Zenon DEF MotorWords
<1>11. /\ w.mode = mode /\ w.err = s.m.err /\ w.errLast = s.m.err
       /\ w.last = last /\ w.prepared = defers
  BY <1>6, <1>8 DEF MotorWords
<1> HIDE DEF w
<1>12. z \in Words /\ z.m = w /\ z.o = p.o
  BY <1>5, <1>7, <1>10 DEF Words
<1>13. QED
  BY <1>5, <1>9, <1>11, <1>12 DEF z, p, d, mode, ends, ready, defers

\* How the tick ends a mode or starts one.
LEMMA EndView ==
    ASSUME NEW s \in Words, s.m.mode # "clear"
    PROVE  LET z == Started(Stopped(Disarmed(s))) IN
           View(z.m, z.o) =
             Motor!Energise(Motor!Quiet(Motor!Disarm(View(s.m, s.o))), FALSE)
<1> DEFINE mode   == IF s.m.err # "none" THEN "disable" ELSE s.m.mode
           ends   == mode = "disable" /\ s.m.last # "disable"
           ready  == s.o.ready /\ ~ends
           defers == s.m.last = "disable" /\ mode \in Servo /\ ~(s.m.prepared /\ ready)
           z == Started(Stopped(Disarmed(s)))
           x == View(s.m, s.o)
           d == Motor!Disarm(x)
           q == Motor!Quiet(d)
           e == Motor!Energise(q, FALSE)
<1>1. /\ z \in Words
      /\ z.m.mode = mode /\ z.m.err = s.m.err /\ z.m.errLast = s.m.err
      /\ z.m.last = IF defers THEN s.m.last ELSE mode
      /\ z.m.prepared = defers
      /\ z.o.mode = s.o.mode /\ z.o.ready = ready
  BY EndWords
<1>2. z.m \in MotorWords /\ z.o \in Mailbox /\ s.m \in MotorWords /\ s.o \in Mailbox
  BY <1>1 DEF Words
<1>3. Seen(x, s.m, s.o)
  BY <1>2, SeenView
<1>4. /\ mode \in {"disable"} \cup Servo /\ s.m.last \in {"disable"} \cup Servo
      /\ s.m.prepared \in BOOLEAN /\ s.o.ready \in BOOLEAN
  BY <1>2 DEF MotorWords, Mailbox, Stages
<1>5. /\ Merged(mode) = IF mode = "disable" THEN "disable" ELSE "servo"
      /\ Merged(s.m.last) = IF s.m.last = "disable" THEN "disable" ELSE "servo"
      /\ mode \in Servo <=> mode # "disable"
  BY <1>4 DEF Merged, Servo
<1> HIDE DEF x, z
\* What the record keeps throughout.
<1> DEFINE Kept(u) == /\ u \in Motor!MotorSet /\ Still(u)
                      /\ u.mode = Merged(mode) /\ u.err = s.m.err
                      /\ u.outer = Merged(s.o.mode)
<1>6. /\ Kept(d) /\ d.last = x.last /\ d.phases = x.phases
      /\ d.ready = x.ready /\ d.prepared = x.prepared
  <2>1. CASE s.m.err = "none"
    <3>1. d = x
      BY <1>3, <2>1 DEF Motor!Disarm, Seen
    <3>2. QED
      BY <1>3, <2>1, <3>1 DEF Seen
  <2>2. CASE s.m.err # "none"
    <3> DEFINE v == [x EXCEPT !.mode = "disable"]
    <3>1. x.mode \in {"disable", "clear", "servo"}
      BY <1>2, <1>3, MergedModes DEF Seen, MotorWords
    <3>2. d = v
      BY <1>3, <2>2, <3>1 DEF Motor!Disarm, Seen
    <3>3. v \in Motor!MotorSet
      BY <1>3 DEF Seen, Motor!MotorSet, Motor!Modes
    <3>4. /\ v.mode = "disable" /\ v.err = x.err /\ v.last = x.last /\ v.phases = x.phases
          /\ v.outer = x.outer /\ v.ready = x.ready /\ v.prepared = x.prepared
          /\ v.heat = x.heat /\ v.primed = x.primed /\ v.locked = x.locked
          /\ v.waits = x.waits /\ v.load = x.load
      BY <1>3 DEF Seen, Motor!MotorSet
    <3> HIDE DEF v, d
    <3>5. QED
      BY <1>3, <1>5, <2>2, <3>2, <3>3, <3>4 DEF Seen, Still
  <2>3. QED
    BY <2>1, <2>2
<1> HIDE DEF d
<1>7. /\ d.mode = Merged(mode) /\ d.last = Merged(s.m.last) /\ d.ready = s.o.ready
      /\ d.phases = IF s.m.last = "disable" THEN "off" ELSE "pwm"
      /\ d.prepared = s.m.prepared
  BY <1>3, <1>6 DEF Seen
<1>8. /\ Kept(q) /\ q.last = d.last /\ q.prepared = d.prepared
      /\ q.ready = ready
      /\ q.phases = IF mode = "disable" \/ s.m.last = "disable" THEN "off" ELSE "pwm"
  <2> DEFINE v == [d EXCEPT !.phases = "off", !.primed = FALSE, !.ready = FALSE]
  <2>1. CASE ends
    <3>1. q = v
      BY <1>5, <1>7, <2>1 DEF Motor!Quiet
    <3>2. v \in Motor!MotorSet
      BY <1>6 DEF Motor!MotorSet
    <3>3. /\ v.mode = d.mode /\ v.err = d.err /\ v.last = d.last /\ v.phases = "off"
          /\ v.outer = d.outer /\ v.ready = FALSE /\ v.prepared = d.prepared
          /\ v.heat = d.heat /\ v.primed = FALSE /\ v.locked = d.locked
          /\ v.waits = d.waits /\ v.load = d.load
      BY <1>6 DEF Motor!MotorSet
    <3> HIDE DEF v, q
    <3>4. QED
      BY <1>6, <2>1, <3>1, <3>2, <3>3 DEF Still
  <2>2. CASE ~ends
    <3>1. q = d
      BY <1>5, <1>6, <1>7, <2>2 DEF Motor!Quiet, Still
    <3>2. QED
      BY <1>4, <1>6, <1>7, <2>2, <3>1
  <2>3. QED
    BY <2>1, <2>2
<1> HIDE DEF q
<1>9. Seen(e, z.m, z.o)
  <2> DEFINE phases == IF mode = "disable" \/ defers THEN "off" ELSE "pwm"
             last   == IF defers THEN q.last ELSE q.mode
             v == [q EXCEPT !.phases = phases, !.prepared = defers, !.last = last,
                            !.errLast = q.err]
  <2>1. /\ q.mode = Merged(mode) /\ q.last = Merged(s.m.last) /\ q.ready = ready
        /\ q.prepared = s.m.prepared /\ q.err = s.m.err
    BY <1>7, <1>8
  <2>2. e = v
    <3> DEFINE starts == q.last = "disable" /\ q.mode \notin Motor!Unpowered
               waits  == /\ starts
                         /\ \/ q.mode = "observer" /\ ~FALSE
                            \/ q.mode = "servo" /\ ~(q.prepared /\ q.ready)
               on     == IF ~starts \/ waits THEN q.phases
                         ELSE IF q.mode = "damping" THEN "short" ELSE "pwm"
               prep   == waits /\ (q.prepared \/ q.mode = "servo")
               la     == IF waits THEN q.last ELSE q.mode
    <3>1. e = [q EXCEPT !.phases = on, !.prepared = prep, !.last = la, !.errLast = q.err]
      BY DEF Motor!Energise
    <3>2. starts <=> (s.m.last = "disable" /\ mode # "disable")
      BY <1>5, <2>1 DEF Motor!Unpowered
    <3>3. q.mode # "observer" /\ q.mode # "damping" /\ (q.mode = "servo" <=> mode # "disable")
      BY <1>5, <2>1
    <3>4. waits <=> defers
      BY <1>5, <2>1, <3>2, <3>3
    <3>5. prep = defers /\ la = last
      BY <1>5, <3>3, <3>4
    <3>6. on = phases
      BY <1>5, <1>8, <3>2, <3>3, <3>4
    <3> HIDE DEF e, on, prep, la, phases, last, waits, starts, defers
    <3>7. QED
      BY <3>1, <3>5, <3>6
  <2>3. /\ phases \in {"off", "pwm", "short"} /\ defers \in BOOLEAN
        /\ last \in Motor!Modes /\ q.err \in Motor!Errors
    BY <1>8 DEF Motor!MotorSet
  <2>4. /\ last = Merged(IF defers THEN s.m.last ELSE mode)
        /\ phases = IF z.m.last = "disable" THEN "off" ELSE "pwm"
    BY <1>1, <1>5, <2>1
  <2> HIDE DEF phases, last, defers
  <2>5. q \in Motor!MotorSet
    BY <1>8
  <2>6. v \in Motor!MotorSet
    BY <2>3, <2>5, Zenon DEF Motor!MotorSet
  <2>7. /\ v.phases = phases /\ v.prepared = defers /\ v.last = last /\ v.errLast = q.err
        /\ v.mode = q.mode /\ v.err = q.err /\ v.outer = q.outer /\ v.ready = q.ready
        /\ v.heat = q.heat /\ v.primed = q.primed /\ v.locked = q.locked
        /\ v.waits = q.waits /\ v.load = q.load
    BY <2>3, <2>5 DEF Motor!MotorSet
  <2> HIDE DEF v, e
  <2>8. Still(v)
    BY <1>8, <2>7 DEF Still
  <2>9. /\ v.mode = Merged(z.m.mode) /\ v.err = z.m.err /\ v.last = Merged(z.m.last)
        /\ v.errLast = z.m.errLast /\ v.prepared = z.m.prepared
        /\ v.outer = Merged(z.o.mode) /\ v.ready = z.o.ready
    BY <1>1, <1>8, <2>1, <2>4, <2>7
  <2>10. QED
    BY <2>2, <2>4, <2>6, <2>7, <2>8, <2>9 DEF Seen
<1>10. e = View(z.m, z.o)
  BY <1>2, <1>9, SeenOnly
<1>11. QED
  BY <1>10 DEF e, q, d, x, z

\* One tick, with the record before it and the one after.
LEMMA TickView ==
    ASSUME OuterInv, TickAny
    PROVE  \E a \in Motor!Entered(View(motor, outer)) : \E b \in Motor!Task(a) :
             View(motor', outer') =
               Motor!Energise(Motor!Quiet(Motor!Disarm(b)), a.mode = "observer" /\ a.primed)
<1>1. PICK e \in {motor.err, "hard"}, due \in BOOLEAN : Tick(e, due)
  BY DEF TickAny
<1> DEFINE y == [motor EXCEPT !.err = e]
           s == [m |-> y, o |-> outer, pend |-> pend]
<1>2. PICK a \in FastTick(s) : \E b \in Work(a) :
        LET z == Started(Stopped(Disarmed(b))) IN motor' = z.m /\ outer' = z.o
  BY <1>1 DEF Tick
<1>3. PICK b \in Work(a) :
        LET z == Started(Stopped(Disarmed(b))) IN motor' = z.m /\ outer' = z.o
  BY <1>2
<1>4. /\ motor \in MotorWords /\ outer \in Mailbox /\ pend \in BOOLEAN /\ e \in Faults
      /\ MailInv(outer) /\ Served(outer, pend) /\ Due(motor, outer)
  BY <1>1 DEF OuterInv, OuterTypeOK, MotorWords, Faults
<1>5. y \in MotorWords /\ y.mode = motor.mode
  BY <1>4, ErrorSet
<1> DEFINE w == View(motor, outer)
           x == View(y, outer)
<1>6. x \in UNION {Motor!Guard(c) : c \in
               UNION {Motor!Profile(d) : d \in
                 {Motor!Handover(Motor!Configured(f)) : f \in Motor!Sense(w)}}}
  BY <1>1, <1>4, SensedView
<1> HIDE DEF y
<1>7. s \in Words /\ s.m = y /\ s.o = outer /\ s.pend = pend /\ Due(s.m, s.o)
  BY <1>4, <1>5 DEF Words, Due, Active
<1> HIDE DEF s
<1>8. a \in Words
  BY <1>4, <1>7, FastStage
<1>9. a.m \in MotorWords /\ a.o \in Mailbox
  BY <1>8 DEF Words
<1> DEFINE u == View(a.m, a.o)
           v == View(b.m, b.o)
           z == Started(Stopped(Disarmed(b)))
<1>10. u \in Motor!OuterTick(x)
  <2>1. LET kept == outer.ready /\ y.mode = outer.mode IN
        /\ SameMotor(y, a.m) /\ a.o.mode = y.mode
        /\ \/ a.m.err = y.err /\ a.o.ready = kept
           \/ /\ Active(y) /\ y.err = "none"
              /\ \/ a.m.err = "none" /\ a.o.ready = TRUE /\ y.mode = outer.mode
                 \/ a.m.err = "hard" /\ a.o.ready \in {kept, FALSE}
    BY <1>4, <1>7, FastView
  <2> HIDE DEF u, x
  <2>2. QED
    BY <1>4, <1>5, <1>9, <2>1, OuterView DEF u, x
<1>11. u \in Motor!Entered(w)
  <2> HIDE DEF u, w, x
  <2>1. QED
    BY <1>6, <1>10 DEF Motor!Entered
<1>12. v \in Motor!Task(u) /\ b \in Words /\ b.m.mode # "clear"
  BY <1>8, WorkView
<1>13. View(z.m, z.o) = Motor!Energise(Motor!Quiet(Motor!Disarm(v)), FALSE)
  BY <1>12, EndView
<1>14. (u.mode = "observer" /\ u.primed) = FALSE
  <2>1. u.mode = Merged(a.m.mode)
    BY <1>9, SeenView DEF Seen
  <2>2. u.mode # "observer"
    BY <1>9, <2>1, MergedModes DEF MotorWords
  <2> HIDE DEF u
  <2>3. QED
    BY <2>2
<1>15. View(motor', outer') = View(z.m, z.o)
  BY <1>3
<1> HIDE DEF u, v, w, z
<1>16. View(motor', outer') =
         Motor!Energise(Motor!Quiet(Motor!Disarm(v)), u.mode = "observer" /\ u.primed)
  BY <1>13, <1>14, <1>15
<1>17. QED
  BY <1>11, <1>12, <1>16 DEF w

(* TickAsMotorMode, for every divider and any number of commands: what     *)
(* MotorMode shows of a tick with an outer loop it knows nothing of holds  *)
(* of the tick with the mailbox.                                           *)
THEOREM TicksAsMotorMode == OuterSpec => TickAsMotorMode
<1>1. ASSUME OuterInv, worker' = worker /\ TickAny PROVE Motor!Tick
  <2>1. \E a \in Motor!Entered(View(motor, outer)) : \E b \in Motor!Task(a) :
          View(motor', outer') =
            Motor!Energise(Motor!Quiet(Motor!Disarm(b)), a.mode = "observer" /\ a.primed)
    BY <1>1, TickView
  <2>2. QED
    BY <2>1 DEF Motor!Tick, View
<1>2. OuterInv /\ [OuterNext]_outerVars => [worker' = worker /\ TickAny => Motor!Tick]_outerVars
  BY <1>1
<1>3. QED
  BY <1>2, OuterInvariance, PTL DEF OuterSpec, TickAsMotorMode
=============================================================================
