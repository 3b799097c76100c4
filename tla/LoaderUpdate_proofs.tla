------------------------- MODULE LoaderUpdate_proofs -------------------------
(***************************************************************************)
(* Proofs about the Loader as it runs and the client that updates it.      *)
(* First the main loop: it drives the core only through the core's own     *)
(* steps, and leaves for the APP only over a committed record.  Then one   *)
(* update: what the client is told is true, and nothing it repeats, and    *)
(* nothing the bus loses, makes it fail.                                   *)
(***************************************************************************)
EXTENDS LoaderUpdate, LoaderCore_proofs, WellFoundedInduction

(***************************************************************************)
(* Sequences as the link uses them.                                        *)
(***************************************************************************)

LEMMA TailFacts ==
    ASSUME NEW S, NEW s \in Seq(S), s # <<>>
    PROVE  /\ Head(s) \in S /\ Head(s) = s[1] /\ Tail(s) \in Seq(S)
           /\ Len(s) \in Nat /\ Len(s) >= 1 /\ Len(Tail(s)) = Len(s) - 1
           /\ \A i \in 1 .. Len(Tail(s)) : i + 1 \in 1 .. Len(s) /\ Tail(s)[i] = s[i + 1]
  OBVIOUS

LEMMA AppendFacts ==
    ASSUME NEW S, NEW s \in Seq(S), NEW e \in S
    PROVE  /\ Append(s, e) \in Seq(S)
           /\ Len(s) \in Nat /\ Len(Append(s, e)) = Len(s) + 1
           /\ \A i \in 1 .. Len(s) : Append(s, e)[i] = s[i]
           /\ Append(s, e)[Len(s) + 1] = e
  OBVIOUS

LEMMA EmptySeq ==
    ASSUME NEW S
    PROVE  <<>> \in Seq(S) /\ Len(<<>>) = 0
  OBVIOUS

LEMMA ElementType ==
    ASSUME NEW S, NEW s \in Seq(S), NEW i \in 1 .. Len(s)
    PROVE  s[i] \in S
  OBVIOUS

-----------------------------------------------------------------------------
(***************************************************************************)
(* The main loop.                                                          *)
(***************************************************************************)

TxStates == {"none", "pending", "cancelling", "cancelled", "sent"}

AgeSet == [boot : 0 .. BootWindow, tx : 0 .. TxLimit,
           pending : 0 .. TxLimit + 1, idle : 0 .. IdleLimit + 1]

(* The loop takes a request to the core, and the core's answer to the      *)
(* link, before it looks at anything else; a transmit buffer holds a reply *)
(* exactly as long as it is outstanding.                                   *)
LinkInv ==
    /\ MainTypeOK
    /\ ring \in Seq(Requests) /\ fifo \in Seq(Requests)
    /\ tx \in [state : TxStates, reply : ReplySet \cup {NoReply}]
    /\ Outstanding <=> tx.reply # NoReply
    /\ loop # "handle" => job = Idle /\ reply = NoReply
    /\ where # "loader" => loop = "pop"

LEMMA AgesType == Ages \in AgeSet
  BY LimitAssumption DEF Ages, AgeSet

LEMMA SetAgeType ==
    ASSUME NEW a \in AgeSet, SetAge(a)
    PROVE  age' \in AgeSet
<1>1. /\ 0 \in 0 .. BootWindow /\ 0 \in 0 .. TxLimit
      /\ 0 \in 0 .. TxLimit + 1 /\ 0 \in 0 .. IdleLimit + 1
  BY LimitAssumption
<1>2. /\ a.boot \in 0 .. BootWindow /\ a.tx \in 0 .. TxLimit
      /\ a.pending \in 0 .. TxLimit + 1 /\ a.idle \in 0 .. IdleLimit + 1
  BY DEF AgeSet
<1>3. QED
  BY <1>1, <1>2 DEF SetAge, AgeSet

LEMMA TouchType ==
    ASSUME age \in AgeSet, Touch
    PROVE  age' \in AgeSet
<1>1. [age EXCEPT !.idle = 0] \in AgeSet
  BY LimitAssumption DEF AgeSet
<1>2. QED
  BY <1>1, SetAgeType DEF Touch

\* A frame on its way and what the interrupt makes of it.
LEMMA ArriveLink ==
    ASSUME LinkInv, NEW r \in Requests, Arrive(r)
    PROVE  LinkInv'
<1>1. fifo' \in Seq(Requests) /\ Len(fifo') <= FifoDepth /\ rxFlag' \in BOOLEAN
  <2>1. CASE Len(fifo) < FifoDepth
    <3>1. fifo' = Append(fifo, r) /\ rxFlag' = TRUE
      BY <2>1 DEF Arrive
    <3>2. fifo \in Seq(Requests)
      BY DEF LinkInv
    <3>3. QED
      BY <2>1, <3>1, <3>2, AppendFacts, LimitAssumption
  <2>2. CASE ~(Len(fifo) < FifoDepth)
    BY <2>2 DEF Arrive, LinkInv, MainTypeOK
  <2>3. QED
    BY <2>1, <2>2
<1>2. UNCHANGED <<job, reply, where, mail, stay, loop, ring, tx, txPending, age>>
  BY DEF Arrive, vars
<1>3. MainTypeOK'
  BY <1>1, <1>2 DEF LinkInv, MainTypeOK
<1>4. QED
  BY <1>1, <1>2, <1>3 DEF LinkInv, Outstanding

LEMMA RxInterruptLink ==
    ASSUME LinkInv, RxInterrupt
    PROVE  LinkInv'
<1>1. /\ fifo' \in Seq(Requests) /\ Len(fifo') <= FifoDepth
      /\ ring' \in Seq(Requests) /\ Len(ring') < RingSize
  <2>1. ring \in Seq(Requests) /\ fifo \in Seq(Requests)
        /\ Len(ring) < RingSize /\ Len(fifo) <= FifoDepth
    BY DEF LinkInv, MainTypeOK
  <2>2. CASE fifo = <<>>
    BY <2>1, <2>2 DEF RxInterrupt
  <2>3. CASE fifo # <<>>
    <3>1. /\ fifo' = Tail(fifo)
          /\ ring' = IF Len(ring) < RingSize - 1
                     THEN Append(ring, Head(fifo)) ELSE ring
      BY <2>3 DEF RxInterrupt
    <3>2. Head(fifo) \in Requests /\ Tail(fifo) \in Seq(Requests)
          /\ Len(fifo) \in Nat /\ Len(Tail(fifo)) = Len(fifo) - 1
      BY <2>1, <2>3, TailFacts
    <3>3. /\ Append(ring, Head(fifo)) \in Seq(Requests) /\ Len(ring) \in Nat
          /\ Len(Append(ring, Head(fifo))) = Len(ring) + 1
      BY <2>1, <3>2, AppendFacts
    <3>4. QED
      BY <2>1, <3>1, <3>2, <3>3, LimitAssumption
  <2>4. QED
    BY <2>2, <2>3
<1>2. /\ UNCHANGED <<job, reply, where, mail, stay, loop, tx, txPending, age>>
      /\ rxFlag' \in BOOLEAN
  BY DEF RxInterrupt, vars
<1>3. MainTypeOK'
  <2>1. /\ \A i \in 1 .. Len(ring') : ring'[i] \in Requests
        /\ \A i \in 1 .. Len(fifo') : fifo'[i] \in Requests
    BY <1>1, ElementType
  <2>2. QED
    BY <1>1, <1>2, <2>1 DEF LinkInv, MainTypeOK
<1>4. QED
  BY <1>1, <1>2, <1>3 DEF LinkInv, Outstanding

\* A transmission that ends empties its buffer; nothing else moves.
LEMMA TransmitLink ==
    ASSUME LinkInv, Transmit \/ CancelTakesEffect
    PROVE  LinkInv'
<1>1. /\ UNCHANGED <<job, reply, where, mail, stay, loop, ring, fifo, rxFlag, txPending>>
      /\ tx'.state \in {"sent", "cancelled"} /\ tx'.reply = NoReply
      /\ tx' \in [state : TxStates, reply : ReplySet \cup {NoReply}]
  BY DEF Transmit, CancelTakesEffect, vars, linkVars, TxStates
<1>2. age' \in AgeSet
  BY SetAgeType DEF Transmit, CancelTakesEffect, LinkInv, MainTypeOK, AgeSet
<1>3. MainTypeOK'
  BY <1>1, <1>2 DEF LinkInv, MainTypeOK, AgeSet
<1>4. QED
  BY <1>1, <1>3 DEF LinkInv, Outstanding

LEMMA MillisecondLink ==
    ASSUME LinkInv, Millisecond
    PROVE  LinkInv'
<1> DEFINE a == [boot    |-> Older(age.boot, BootWindow),
                 tx      |-> Older(age.tx, TxLimit),
                 pending |-> Older(age.pending, TxLimit + 1),
                 idle    |-> Older(age.idle, IdleLimit + 1)]
<1>1. \A most \in Nat : \A n \in 0 .. most : Older(n, most) \in 0 .. most
  BY DEF Older
<1>2. a \in AgeSet
  <2>1. /\ age.boot \in 0 .. BootWindow /\ age.tx \in 0 .. TxLimit
        /\ age.pending \in 0 .. TxLimit + 1 /\ age.idle \in 0 .. IdleLimit + 1
    BY DEF LinkInv, MainTypeOK
  <2>2. BootWindow \in Nat /\ TxLimit \in Nat /\ TxLimit + 1 \in Nat /\ IdleLimit + 1 \in Nat
    BY LimitAssumption
  <2>3. /\ Older(age.boot, BootWindow) \in 0 .. BootWindow
        /\ Older(age.tx, TxLimit) \in 0 .. TxLimit
        /\ Older(age.pending, TxLimit + 1) \in 0 .. TxLimit + 1
        /\ Older(age.idle, IdleLimit + 1) \in 0 .. IdleLimit + 1
    BY <1>1, <2>1, <2>2
  <2>4. QED
    BY <2>3 DEF AgeSet
<1>3. SetAge(a)
  BY DEF Millisecond
<1> HIDE DEF a
<1>4. age' \in AgeSet
  BY <1>2, <1>3, SetAgeType
<1>5. UNCHANGED <<job, reply, where, mail, stay, loop, ring, fifo, rxFlag, tx, txPending>>
  BY DEF Millisecond, vars, linkVars
<1>6. MainTypeOK'
  BY <1>4, <1>5 DEF LinkInv, MainTypeOK, AgeSet
<1>7. QED
  BY <1>5, <1>6 DEF LinkInv, Outstanding

\* The loop takes a request to the core.
LEMMA PopLink ==
    ASSUME LinkInv, Pop
    PROVE  LinkInv'
<1>1. UNCHANGED <<where, mail, stay, fifo, rxFlag, tx, txPending>> /\ where = "loader"
  BY DEF Pop
<1>2. ring \in Seq(Requests) /\ Len(ring) < RingSize /\ age \in AgeSet
  BY DEF LinkInv, MainTypeOK, AgeSet
<1>3. CASE ring = <<>>
  <2>1. loop' = "rest" /\ UNCHANGED <<job, reply, ring, age>> /\ loop = "pop"
    BY <1>3 DEF Pop, vars
  <2>2. MainTypeOK'
    BY <1>1, <2>1 DEF LinkInv, MainTypeOK
  <2>3. QED
    BY <1>1, <2>1, <2>2 DEF LinkInv, Outstanding
<1>4. CASE ring # <<>>
  <2>1. ring' = Tail(ring) /\ loop' = "handle" /\ Touch
    BY <1>4 DEF Pop
  <2>2. ring' \in Seq(Requests) /\ Len(ring') < RingSize
    BY <1>2, <1>4, <2>1, TailFacts, LimitAssumption
  <2>3. age' \in AgeSet
    BY <1>2, <2>1, TouchType
  <2>4. \A i \in 1 .. Len(ring') : ring'[i] \in Requests
    BY <2>2, ElementType
  <2>5. MainTypeOK'
    BY <1>1, <2>1, <2>2, <2>3, <2>4 DEF LinkInv, MainTypeOK, AgeSet
  <2>6. QED
    BY <1>1, <2>1, <2>2, <2>5 DEF LinkInv, Outstanding
<1>5. QED
  BY <1>3, <1>4

LEMMA WorkLink ==
    ASSUME LinkInv, Work
    PROVE  LinkInv'
<1>1. /\ UNCHANGED <<where, mail, stay, loop, ring, fifo, rxFlag, tx, txPending>>
      /\ loop = "handle" /\ where = "loader"
  BY DEF Work, linkVars
<1>2. age' \in AgeSet
  BY TouchType DEF Work, LinkInv, MainTypeOK, AgeSet
<1>3. MainTypeOK'
  BY <1>1, <1>2 DEF LinkInv, MainTypeOK, AgeSet
<1>4. QED
  BY <1>1, <1>3 DEF LinkInv, Outstanding

\* The answer goes to the transmit buffer, or is dropped before an old one.
LEMMA SendLink ==
    ASSUME IInv, LinkInv, Send
    PROVE  LinkInv'
<1>1. /\ UNCHANGED <<where, mail, stay, ring, fifo, rxFlag, job>> /\ loop' = "rest"
      /\ job = Idle /\ reply' = NoReply /\ reply \in ReplySet /\ where = "loader"
      /\ reply # NoReply
  BY DEF Send, Deliver, linkVars, IInv, TypeOK
<1>2. tx \in [state : TxStates, reply : ReplySet \cup {NoReply}] /\ age \in AgeSet
  BY DEF LinkInv, MainTypeOK, AgeSet
<1>3. CASE Outstanding
  <2>1. tx' \in {tx, [tx EXCEPT !.state = "cancelling"]} /\ UNCHANGED <<txPending, age>>
    BY <1>3 DEF Send
  <2>2. /\ tx' \in [state : TxStates, reply : ReplySet \cup {NoReply}]
        /\ tx'.state \in {tx.state, "cancelling"} /\ tx'.reply = tx.reply
    BY <1>2, <2>1 DEF TxStates
  <2>3. MainTypeOK'
    BY <1>1, <2>1, <2>2 DEF LinkInv, MainTypeOK
  <2>4. QED
    BY <1>1, <1>3, <2>2, <2>3 DEF LinkInv, Outstanding
<1>4. CASE ~Outstanding
  <2> DEFINE announces == core.activatePending /\ ActivateDone(reply)
  <2>1. /\ tx' = [state |-> "pending", reply |-> reply]
        /\ txPending' = (txPending \/ announces)
        /\ age' = [age EXCEPT !.tx = 0, !.pending = IF announces THEN 0 ELSE @]
    BY <1>4 DEF Send
  <2>2. /\ tx' \in [state : TxStates, reply : ReplySet \cup {NoReply}]
        /\ tx'.state = "pending" /\ tx'.reply # NoReply
    BY <1>1, <2>1 DEF TxStates
  <2>3. txPending' \in BOOLEAN
    <3>1. txPending \in BOOLEAN /\ core.activatePending \in BOOLEAN
      BY DEF LinkInv, MainTypeOK, IInv, TypeOK, CoreSet
    <3>2. announces \in BOOLEAN
      BY <3>1 DEF ActivateDone
    <3> HIDE DEF announces
    <3>3. QED
      BY <2>1, <3>1, <3>2
  <2>4. age' \in AgeSet
    <3> DEFINE p == IF announces THEN 0 ELSE age.pending
    <3>1. p \in 0 .. TxLimit + 1 /\ 0 \in 0 .. TxLimit
      BY <1>2, LimitAssumption DEF AgeSet
    <3>2. age' = [age EXCEPT !.tx = 0, !.pending = p]
      BY <2>1
    <3> HIDE DEF announces, p
    <3>3. QED
      BY <1>2, <3>1, <3>2 DEF AgeSet
  <2>5. MainTypeOK'
    BY <1>1, <2>2, <2>3, <2>4 DEF LinkInv, MainTypeOK, AgeSet
  <2>6. QED
    BY <1>1, <2>2, <2>5 DEF LinkInv, Outstanding
<1>5. QED
  BY <1>3, <1>4

\* A fresh start of the link, from a jump or a reset.
LEMMA FreshLink ==
    ASSUME where' \in {"loader", "app", "halted"}, mail' \in BOOLEAN, stay' \in BOOLEAN,
           loop' = "pop", ring' = <<>>, fifo' = <<>>, rxFlag' = FALSE, tx' = NoTx,
           txPending' = FALSE, age' = Ages, job' = Idle, reply' = NoReply
    PROVE  LinkInv'
<1>1. ring' \in Seq(Requests) /\ fifo' \in Seq(Requests) /\ Len(ring') = 0 /\ Len(fifo') = 0
  BY EmptySeq
<1>2. /\ \A i \in 1 .. Len(ring') : ring'[i] \in Requests
      /\ \A i \in 1 .. Len(fifo') : fifo'[i] \in Requests
  BY <1>1, ElementType
<1>3. MainTypeOK'
  <2>1. Len(ring') < RingSize /\ Len(fifo') <= FifoDepth
    BY <1>1, LimitAssumption
  <2>2. age' \in AgeSet /\ tx'.state = "none"
    BY AgesType DEF NoTx
  <2>3. QED
    BY <1>2, <2>1, <2>2 DEF MainTypeOK, AgeSet
<1>4. tx' \in [state : TxStates, reply : ReplySet \cup {NoReply}]
      /\ tx'.reply = NoReply /\ tx'.state = "none"
  BY DEF NoTx, TxStates
<1>5. QED
  BY <1>1, <1>3, <1>4 DEF LinkInv, Outstanding

\* The end of the loop body: a jump, a session timeout, or nothing.
LEMMA RestLink ==
    ASSUME IInv, LinkInv, Rest
    PROVE  LinkInv'
<1>1. where = "loader" /\ job = Idle /\ reply = NoReply
  BY DEF Rest, LinkInv
<1>2. CASE Jump
  BY <1>1, <1>2, FreshLink DEF Jump
<1>3. CASE /\ Tick \/ UNCHANGED vars
           /\ stay' = (stay \/ core.session # NoSession \/ LeaveAfterWindow)
           /\ txPending' = (txPending /\ core.activatePending /\ age.pending <= TxLimit)
           /\ mail' = (mail /\ ~LeaveAfterReply)
           /\ loop' = "pop"
           /\ UNCHANGED <<where, linkVars, tx>>
           /\ SetAge(age)
  <2>1. UNCHANGED <<job, reply, ring, fifo, rxFlag, tx, where>>
    BY <1>3 DEF Tick, vars, linkVars
  <2>2. age' \in AgeSet
    BY <1>3, SetAgeType DEF LinkInv, MainTypeOK, AgeSet
  <2>3. stay' \in BOOLEAN
    <3>1. stay \in BOOLEAN
      BY DEF LinkInv, MainTypeOK
    <3>2. QED
      BY <1>3, <3>1 DEF LeaveAfterWindow
  <2>4. txPending' \in BOOLEAN
    <3>1. txPending \in BOOLEAN /\ core.activatePending \in BOOLEAN
      BY DEF LinkInv, MainTypeOK, IInv, TypeOK, CoreSet
    <3>2. QED
      BY <1>3, <3>1
  <2>5. mail' \in BOOLEAN
    <3>1. mail \in BOOLEAN
      BY DEF LinkInv, MainTypeOK
    <3>2. QED
      BY <1>3, <3>1 DEF LeaveAfterReply
  <2>6. MainTypeOK'
    BY <1>3, <2>1, <2>2, <2>3, <2>4, <2>5 DEF LinkInv, MainTypeOK, AgeSet
  <2>7. QED
    BY <1>1, <1>3, <2>1, <2>6 DEF LinkInv, Outstanding
<1>4. QED
  BY <1>2, <1>3 DEF Rest

LEMMA RestartLink ==
    ASSUME LinkInv, NEW cause, Restart(cause)
    PROVE  LinkInv'
<1>1. stay' \in BOOLEAN
  <2>1. mail \in BOOLEAN
    BY DEF LinkInv, MainTypeOK
  <2>2. QED
    BY <2>1 DEF Restart
<1>2. QED
  BY <1>1, FreshLink DEF Restart, PowerLoss

LEMMA MailboxLink ==
    ASSUME LinkInv, AppWritesMailbox
    PROVE  LinkInv'
<1>1. /\ UNCHANGED <<job, reply, where, stay, loop, ring, fifo, rxFlag, tx, txPending, age>>
      /\ mail' = TRUE
  BY DEF AppWritesMailbox, vars, linkVars
<1>2. MainTypeOK'
  BY <1>1 DEF LinkInv, MainTypeOK
<1>3. QED
  BY <1>1, <1>2 DEF LinkInv, Outstanding

LEMMA MainLink == IInv /\ LinkInv /\ [MainNext]_allVars => LinkInv'
<1> SUFFICES ASSUME IInv, LinkInv, [MainNext]_allVars PROVE LinkInv'
  OBVIOUS
<1>1. ASSUME NEW r \in Requests, Arrive(r) PROVE LinkInv'
  BY <1>1, ArriveLink
<1>2. CASE Transmit \/ CancelTakesEffect
  BY <1>2, TransmitLink
<1>3. CASE RxInterrupt
  BY <1>3, RxInterruptLink
<1>4. CASE Millisecond
  BY <1>4, MillisecondLink
<1>5. CASE Loop
  BY <1>5, PopLink, WorkLink, SendLink, RestLink DEF Loop
<1>6. CASE Resets
  BY <1>6, RestartLink, MailboxLink DEF Resets, HardReset, SoftReset
<1>7. CASE UNCHANGED allVars
  <2>1. UNCHANGED <<job, reply, where, mail, stay, loop, ring, fifo, rxFlag, tx, txPending, age>>
    BY <1>7 DEF allVars, vars, mainVars, linkVars
  <2>2. QED
    BY <2>1 DEF LinkInv, MainTypeOK, Outstanding
<1>8. QED
  BY <1>1, <1>2, <1>3, <1>4, <1>5, <1>6, <1>7 DEF MainNext, Running

LEMMA MainInitLink == MainInit => LinkInv
<1> SUFFICES ASSUME MainInit PROVE LinkInv
  OBVIOUS
<1>1. ring \in Seq(Requests) /\ fifo \in Seq(Requests) /\ Len(ring) = 0 /\ Len(fifo) = 0
  BY EmptySeq DEF MainInit
<1>2. /\ \A i \in 1 .. Len(ring) : ring[i] \in Requests
      /\ \A i \in 1 .. Len(fifo) : fifo[i] \in Requests
  BY <1>1, ElementType
<1>3. MainTypeOK
  <2>1. Len(ring) < RingSize /\ Len(fifo) <= FifoDepth
    BY <1>1, LimitAssumption
  <2>2. age \in AgeSet /\ tx.state = "none"
    BY AgesType DEF MainInit, NoTx
  <2>3. QED
    BY <1>2, <2>1, <2>2 DEF MainInit, MainTypeOK, AgeSet
<1>4. tx \in [state : TxStates, reply : ReplySet \cup {NoReply}]
      /\ tx.reply = NoReply /\ tx.state = "none"
  BY DEF MainInit, NoTx, TxStates
<1>5. QED
  BY <1>1, <1>3, <1>4 DEF MainInit, Init, LinkInv, Outstanding

-----------------------------------------------------------------------------
(***************************************************************************)
(* The loop drives the core through the core's own steps.                  *)
(***************************************************************************)

\* A jump leaves the core as a reset does: RAM is the APP's from then on.
LEMMA JumpIsPowerLoss ==
    ASSUME job = Idle, reply = NoReply, Jump
    PROVE  PowerLoss
  BY IdleType DEF Jump, PowerLoss, Interrupted

LEMMA MainStep == LinkInv /\ [MainNext]_allVars => [Next]_vars
<1> SUFFICES ASSUME LinkInv, [MainNext]_allVars PROVE Next \/ UNCHANGED vars
  OBVIOUS
<1>1. ASSUME NEW r \in Requests, Arrive(r) PROVE UNCHANGED vars
  BY <1>1 DEF Arrive, vars
<1>2. CASE Transmit \/ CancelTakesEffect \/ RxInterrupt \/ Millisecond
  BY <1>2 DEF Transmit, CancelTakesEffect, RxInterrupt, Millisecond, vars
<1>3. CASE Pop
  <2>1. CASE ring = <<>>
    BY <1>3, <2>1 DEF Pop
  <2>2. CASE ring # <<>>
    <3>1. Head(ring) \in Requests
      BY <2>2, TailFacts DEF LinkInv
    <3>2. Request(Head(ring))
      BY <1>3, <2>2 DEF Pop
    <3>3. QED
      BY <3>1, <3>2 DEF Next
  <2>3. QED
    BY <2>1, <2>2
<1>4. CASE Work
  BY <1>4 DEF Work, Next
<1>5. CASE Send
  BY <1>5 DEF Send, Next
<1>6. CASE Rest
  <2>1. CASE Jump
    BY <1>6, <2>1, JumpIsPowerLoss DEF Rest, LinkInv, Next
  <2>2. CASE Tick \/ UNCHANGED vars
    BY <2>2 DEF Next
  <2>3. QED
    BY <1>6, <2>1, <2>2 DEF Rest
<1>7. CASE Resets
  BY <1>7 DEF Resets, HardReset, SoftReset, Restart, AppWritesMailbox, Next, vars
<1>8. CASE UNCHANGED allVars
  BY <1>8 DEF allVars, vars
<1>9. QED
  BY <1>1, <1>2, <1>3, <1>4, <1>5, <1>6, <1>7, <1>8 DEF MainNext, Running, Loop

(* main() with its interrupt, clock and resets never does to the core      *)
(* anything but a step of LoaderCore: what was proved of the core alone    *)
(* holds of the Loader as it runs.                                         *)
THEOREM MainImplementsCore == MainSpec => ImplementsCore
<1>1. MainInit => Init /\ LinkInv /\ IInv
  BY MainInitLink, InitInv DEF MainInit
<1>2. IInv /\ LinkInv /\ [MainNext]_allVars => IInv' /\ LinkInv' /\ [Next]_vars
  BY MainLink, MainStep, NextInv
<1>3. QED
  BY <1>1, <1>2, PTL DEF MainSpec, ImplementsCore, Spec

(* What loop and link hold stays in the ranges of its C declarations: the  *)
(* ring never uses its last slot, the FIFO never exceeds its depth.        *)
THEOREM MainInvariance == MainSpec => [](IInv /\ LinkInv)
<1>1. MainInit => LinkInv /\ IInv
  BY MainInitLink, InitInv DEF MainInit
<1>2. IInv /\ LinkInv /\ [MainNext]_allVars => IInv' /\ LinkInv'
  BY MainLink, MainStep, NextInv
<1>3. QED
  BY <1>1, <1>2, PTL DEF MainSpec

-----------------------------------------------------------------------------
(***************************************************************************)
(* Leaving for the APP.                                                    *)
(***************************************************************************)

\* The permission to leave belongs to a session.
PendingInSession == core.activatePending => core.session # NoSession

LEMMA AcceptPending ==
    ASSUME NEW r, NEW v, NEW c, DOMAIN c = DOMAIN InitCore, Accept(r, c, v)
    PROVE  core'.activatePending = c.activatePending /\ core'.session = c.session
  BY DEF Accept, InitCore

LEMMA PendingStep == IInv /\ PendingInSession /\ [Next]_vars => PendingInSession'
<1> SUFFICES ASSUME IInv, PendingInSession, [Next]_vars PROVE PendingInSession'
  OBVIOUS
<1>1. core \in CoreSet
  BY DEF IInv, TypeOK
<1>2. CASE UNCHANGED core
  BY <1>2 DEF PendingInSession
<1>3. CASE \E r, res : Reject(r, res) \/ Fail(r, res)
  BY <1>1, <1>3 DEF Reject, Fail, CoreSet, PendingInSession
<1>4. CASE core' = InitCore
  BY <1>4 DEF InitCore, PendingInSession
<1>5. ASSUME NEW r \in Requests, Refusal(r) = "OK", Begin(r)
      PROVE  PendingInSession'
  <2>1. r.session # NoSession
    BY <1>5 DEF Begin, Refusal, BeginRefusal, Queries, SessionOps
  <2>2. core'.activatePending = FALSE
    BY <1>1, <1>5 DEF Begin, Accept, CoreSet
  <2>3. QED
    BY <2>2 DEF PendingInSession
<1>6. ASSUME NEW r, Abort(r) PROVE PendingInSession'
  <2>1. core'.activatePending = FALSE
    BY <1>1, <1>6 DEF Abort, Accept, CoreSet
  <2>2. QED
    BY <2>1 DEF PendingInSession
<1>7. ASSUME NEW r, ProgramAgain(r) \/ Verify(r) PROVE PendingInSession'
  BY <1>1, <1>3, <1>7 DEF ProgramAgain, Verify, Accept, CoreSet, PendingInSession
<1>8. CASE EraseAppPage
  BY <1>1, <1>2, <1>8 DEF EraseAppPage, Accept, CoreSet, PendingInSession
<1>9. CASE ProgramDword
  BY <1>1, <1>2, <1>9 DEF ProgramDword, Accept, CoreSet, PendingInSession
<1>10. CASE CommitMark
  <2>1. core.session # NoSession
    BY <1>10 DEF CommitMark, IInv, JobInv, SessionImage
  <2>2. core'.session = core.session
    BY <1>1, <1>10 DEF CommitMark, Accept, CoreSet
  <2>3. QED
    BY <2>1, <2>2 DEF PendingInSession
<1>11. ASSUME NEW r \in Requests, Request(r) PROVE PendingInSession'
  BY <1>2, <1>3, <1>5, <1>6, <1>7, <1>11
  DEF Request, Replay, Process, Refused, Query, Erase, Program, Activate
<1>12. CASE FlashStep
  BY <1>2, <1>8, <1>9, <1>10, <1>12 DEF FlashStep, EraseRecordDone, CommitBody
<1>13. CASE FlashFails
  BY <1>3, <1>13 DEF FlashFails
<1>14. QED
  BY <1>2, <1>4, <1>11, <1>12, <1>13 DEF Next, PowerLoss, Tick, Deliver, vars

LEMMA LeavingStep ==
    ASSUME IInv, LinkInv, PendingInSession, [MainNext]_allVars,
           where = "loader", where' = "app"
    PROVE  /\ BootValid(app, rec)
           /\ IF core.session = NoSession THEN ~stay
              ELSE rec = RecordEncode(core.image) /\ tx.state = "sent"
<1>1. Rest /\ Jump
  <2>1. where' # where
    OBVIOUS
  <2>2. ~(\E r \in Requests : Arrive(r)) /\ ~Transmit /\ ~RxInterrupt
        /\ ~CancelTakesEffect /\ ~Millisecond /\ ~Pop /\ ~Work /\ ~Send
    BY <2>1 DEF Arrive, Transmit, RxInterrupt, CancelTakesEffect, Millisecond,
                Pop, Work, Send
  <2>3. ~HardReset /\ ~SoftReset /\ ~AppWritesMailbox /\ ~UNCHANGED allVars
    BY <2>1 DEF HardReset, SoftReset, Restart, AppWritesMailbox, allVars, mainVars
  <2>4. Rest
    BY <2>2, <2>3 DEF MainNext, Running, Loop, Resets
  <2>5. QED
    BY <2>1, <2>4 DEF Rest
<1>2. BootValid(app, rec) /\ (LeaveAfterReply \/ LeaveAfterWindow)
  <2>1. where' # where
    OBVIOUS
  <2>2. QED
    BY <1>1, <2>1 DEF Rest
<1>3. CASE LeaveAfterReply
  BY <1>2, <1>3 DEF LeaveAfterReply, PendingInSession, IInv, PendingMeansCommitted
<1>4. CASE LeaveAfterWindow
  BY <1>2, <1>4 DEF LeaveAfterWindow
<1>5. QED
  BY <1>2, <1>3, <1>4

(* The Loader jumps into the APP only if the record decodes and vouches    *)
(* for what is in flash; out of a session only after an answer has left    *)
(* and with the record naming that session's image; without a session only *)
(* if none was opened since the reset.                                     *)
THEOREM LeavesOnlyCommitted == MainSpec => LeavesCommitted
<1>1. MainInit => IInv /\ LinkInv /\ PendingInSession
  BY MainInitLink, InitInv DEF MainInit, Init, InitCore, PendingInSession
<1>2. IInv /\ LinkInv /\ PendingInSession /\ [MainNext]_allVars
         => IInv' /\ LinkInv' /\ PendingInSession'
  BY MainLink, MainStep, NextInv, PendingStep
<1>3. IInv /\ LinkInv /\ PendingInSession /\ [MainNext]_allVars =>
        [where = "loader" /\ where' = "app" =>
            /\ BootValid(app, rec)
            /\ IF core.session = NoSession THEN ~stay
               ELSE rec = RecordEncode(core.image) /\ tx.state = "sent"]_allVars
  BY LeavingStep
<1>4. QED
  BY <1>1, <1>2, <1>3, PTL DEF MainSpec, LeavesCommitted

-----------------------------------------------------------------------------
(***************************************************************************)
(* The client's requests.                                                  *)
(***************************************************************************)

LessThan == {ij \in Nat \X Nat : ij[1] < ij[2]}

LEMMA LeastNatural ==
    ASSUME NEW T \in SUBSET Nat, T # {}
    PROVE  \E n \in T : \A m \in T : n <= m
<1>1. IsWellFoundedOn(LessThan, Nat)
  <2>1. OpToRel(<, Nat) = LessThan
    BY DEF OpToRel, LessThan
  <2>2. QED
    BY <2>1, NatLessThanWellFounded
<1>2. PICK n \in T : \A m \in T : <<m, n>> \notin LessThan
  BY <1>1, WFMin
<1>3. ASSUME NEW m \in T PROVE n <= m
  <2>1. n \in Nat /\ m \in Nat
    OBVIOUS
  <2>2. ~(m < n)
    BY <1>2, <2>1 DEF LessThan
  <2>3. QED
    BY <2>1, <2>2
<1>4. QED
  BY <1>3

LEMMA LargestNatural ==
    ASSUME NEW b \in Nat, NEW T \in SUBSET (0 .. b), T # {}
    PROVE  \E n \in T : \A m \in T : m <= n
<1> DEFINE U == {b - n : n \in T}
<1>1. U \in SUBSET Nat /\ U # {}
  <2>1. \A n \in T : n \in 0 .. b
    OBVIOUS
  <2>2. \A n \in T : b - n \in Nat
    BY <2>1
  <2>3. PICK n : n \in T
    OBVIOUS
  <2>4. b - n \in U
    BY <2>3
  <2>5. QED
    BY <2>2, <2>4
<1>2. PICK u \in U : \A v \in U : u <= v
  <2> HIDE DEF U
  <2>1. QED
    BY <1>1, LeastNatural
<1>3. PICK n \in T : u = b - n
  BY <1>2
<1>4. ASSUME NEW m \in T PROVE m <= n
  <2>1. b - m \in U
    OBVIOUS
  <2>2. b - n <= b - m
    BY <1>2, <1>3, <2>1
  <2>3. QED
    BY <2>2
<1>5. QED
  BY <1>4

\* There is a chunk to send at every offset inside the image.
LEMMA ChunkFacts ==
    ASSUME NEW i \in Offered, NEW offset \in Nat, offset < Size[i]
    PROVE  /\ ChunkLength(i, offset) \in 1 .. MaxChunk
           /\ ChunkLength(i, offset) \in Nat
           /\ offset + ChunkLength(i, offset) <= Size[i]
           /\ PageOf[offset + ChunkLength(i, offset) - 1] = PageOf[offset]
<1> DEFINE fits(n) == offset + n <= Size[i] /\ PageOf[offset + n - 1] = PageOf[offset]
           T == {n \in 1 .. MaxChunk : fits(n)}
<1>1. MaxChunk \in Nat /\ MaxChunk # 0 /\ Size[i] \in Nat
  BY RequestAssumption, HostAssumption, SizeNat
<1>2. 1 \in T
  BY <1>1
<1>3. PICK n \in T : \A m \in T : m <= n
  <2>1. T \in SUBSET (0 .. MaxChunk) /\ T # {}
    BY <1>1, <1>2
  <2> HIDE DEF T
  <2>2. QED
    BY <1>1, <2>1, LargestNatural
<1>4. n \in 1 .. MaxChunk /\ fits(n)
  OBVIOUS
<1>5. n = MaxChunk \/ offset + n = Size[i] \/ PageOf[offset + n] # PageOf[offset]
  <2> SUFFICES ASSUME n # MaxChunk, offset + n # Size[i],
                      PageOf[offset + n] = PageOf[offset]
               PROVE  FALSE
    OBVIOUS
  <2>1. n + 1 \in 1 .. MaxChunk /\ offset + (n + 1) <= Size[i]
        /\ offset + (n + 1) - 1 = offset + n
    BY <1>1, <1>4
  <2>2. n + 1 \in T
    BY <2>1
  <2>3. n + 1 <= n
    BY <1>3, <2>2
  <2>4. QED
    BY <1>4, <2>3
<1>6. \E m \in 1 .. MaxChunk :
        /\ offset + m <= Size[i]
        /\ PageOf[offset + m - 1] = PageOf[offset]
        /\ \/ m = MaxChunk
           \/ offset + m = Size[i]
           \/ PageOf[offset + m] # PageOf[offset]
  BY <1>4, <1>5
<1>7. /\ ChunkLength(i, offset) \in 1 .. MaxChunk
      /\ offset + ChunkLength(i, offset) <= Size[i]
      /\ PageOf[offset + ChunkLength(i, offset) - 1] = PageOf[offset]
  BY <1>6 DEF ChunkLength
<1>8. QED
  BY <1>1, <1>7

LEMMA ChunkData ==
    ASSUME NEW i \in Offered, NEW offset \in Nat, offset < Size[i]
    PROVE  /\ Chunk(i, offset) \in Seq(Data)
           /\ Len(Chunk(i, offset)) = ChunkLength(i, offset)
           /\ \A k \in 1 .. Len(Chunk(i, offset)) :
                 Chunk(i, offset)[k] = Content[i][offset + k - 1]
<1> DEFINE n == ChunkLength(i, offset)
<1>1. n \in Nat /\ offset + n <= Size[i] /\ Size[i] \in Nat /\ i \in Images
  BY ChunkFacts, SizeNat, HostAssumption
<1>2. Chunk(i, offset) = [k \in 1 .. n |-> Content[i][offset + k - 1]]
  BY DEF Chunk
<1> HIDE DEF n
<1>3. ASSUME NEW k \in 1 .. n PROVE Content[i][offset + k - 1] \in Data
  <2>1. offset + k - 1 \in 0 .. Size[i] - 1
    BY <1>1
  <2>2. Content[i] \in [0 .. Size[i] - 1 -> Data]
    BY <1>1, ImageAssumption
  <2>3. QED
    BY <2>1, <2>2
<1>4. Chunk(i, offset) \in Seq(Data) /\ Len(Chunk(i, offset)) = n
  BY <1>1, <1>2, <1>3
<1>5. QED
  BY <1>2, <1>4 DEF n

\* Where the client stands: the number, the offset and what it asks fit.
HostInv ==
    /\ host \in [step : Asking \cup Ended, seq : Nat, sends : 0 .. Retries,
                 session : Sessions, img : Offered, offset : Nat, foreign : Nat]
    /\ host.seq \in 1 .. 7 + Size[host.img]
    /\ host.offset <= Size[host.img]
    /\ host.step \in Asking =>
         host.seq \in ClientNumbers(host.step, host.img, host.offset)
    /\ host.step \in {"INFO", "UID", "BEGIN", "ERASE"} => host.offset = 0
    /\ host.step = "PROGRAM" => host.offset < Size[host.img]
    /\ host.step \in {"VERIFY", "ACTIVATE"} => host.offset = Size[host.img]

\* The request the client waits on, field by field.
LEMMA HostRequestFacts ==
    ASSUME HostInv, host.step \in Asking
    PROVE  /\ HostRequest \in Requests
           /\ HostRequest.op = host.step /\ HostRequest.seq = host.seq
           /\ HostRequest.framed = TRUE
           /\ HostRequest.session = IF host.step \in Queries THEN NoSession
                                    ELSE host.session
           /\ host.step = "BEGIN" =>
                HostRequest.img = host.img /\ HostRequest.identity = "ours"
           /\ host.step = "PROGRAM" =>
                /\ HostRequest.offset = host.offset
                /\ HostRequest.data = Chunk(host.img, host.offset)
<1>1. HostRequest \in Requests
  <2>1. /\ host.img \in Offered /\ host.session \in Sessions /\ host.offset \in Nat
        /\ host.seq \in ClientNumbers(host.step, host.img, host.offset)
        /\ host.img \in Images /\ Size[host.img] \in Nat
    BY SizeNat, HostAssumption DEF HostInv
  <2>2. CASE host.step = "PROGRAM"
    <3>1. host.offset \in 0 .. Size[host.img] - 1
      BY <2>1, <2>2 DEF HostInv
    <3>2. QED
      BY <2>1, <3>1, ClientAssumption DEF HostRequest
  <2>3. CASE host.step # "PROGRAM"
    <3>1. 0 \in 0 .. Size[host.img] - 1
      BY <2>1, HostAssumption DEF VectorsValid, LegalSize
    <3>2. host.seq \in ClientNumbers(host.step, host.img, 0)
      BY <2>1, <2>3 DEF ClientNumbers, Asking
    <3>3. HostRequest = ClientRequest(host.step, host.seq, host.session, host.img, 0)
      BY <2>3 DEF HostRequest, ClientRequest
    <3>4. QED
      BY <2>1, <3>1, <3>2, <3>3, ClientAssumption
  <2>4. QED
    BY <2>2, <2>3
<1>2. QED
  BY <1>1 DEF HostRequest, ClientRequest, Queries

\* What the client does with an answer.
NextOffset == IF host.step = "PROGRAM" THEN host.offset + HostChunk ELSE host.offset

Advance ==
    host' = [host EXCEPT !.step = After(host.step, NextOffset), !.offset = NextOffset,
                         !.seq = @ + 1, !.sends = 0]

LEMMA HearCases ==
    ASSUME HostInv, NEW a, host' = Hear(a)
    PROVE  \/ host' = host
           \/ /\ host.step \in Asking
              /\ a.op = host.step /\ a.seq = host.seq
              /\ \/ a.result # "OK" /\ host' = [host EXCEPT !.step = "refused"]
                 \/ /\ a.result = "OK" /\ a.value # Expected
                    /\ host' = [host EXCEPT !.step = "mismatch"]
                 \/ a.result = "OK" /\ a.value = Expected /\ Advance
<1>1. host.step \in Asking => HostRequest.op = host.step /\ HostRequest.seq = host.seq
  BY HostRequestFacts
<1>2. QED
  BY <1>1 DEF Hear, Advance, NextOffset

\* Where the next request finds the client.
LEMMA AdvanceFacts ==
    ASSUME HostInv, host.step \in Asking, Advance
    PROVE  /\ HostInv'
           /\ host'.session = host.session /\ host'.img = host.img
           /\ host'.seq = host.seq + 1
           /\ host'.offset = NextOffset /\ host'.offset >= host.offset
           /\ host.step # "PROGRAM" => host'.offset = host.offset
           /\ host'.step = After(host.step, NextOffset)
<1>1. /\ host.img \in Offered /\ host.seq \in Nat /\ host.offset \in Nat
      /\ Size[host.img] \in Nat /\ Size[host.img] >= 1
      /\ host.offset <= Size[host.img] /\ 0 \in 0 .. Retries
  BY SizeNat, HostAssumption DEF HostInv, VectorsValid, LegalSize
<1>2. host.step = "PROGRAM" => /\ HostChunk \in Nat /\ HostChunk >= 1
                               /\ host.offset + HostChunk <= Size[host.img]
  BY <1>1, ChunkFacts, RequestAssumption DEF HostInv, HostChunk
<1>3. /\ NextOffset \in Nat /\ NextOffset >= host.offset /\ NextOffset <= Size[host.img]
      /\ host.step = "PROGRAM" => NextOffset >= host.offset + 1
      /\ host.step # "PROGRAM" => NextOffset = host.offset
  BY <1>1, <1>2 DEF NextOffset
<1>4. After(host.step, NextOffset) \in Asking \cup Ended
  BY DEF After, Asking, Ended
<1>5. /\ host' \in [step : Asking \cup Ended, seq : Nat, sends : 0 .. Retries,
                    session : Sessions, img : Offered, offset : Nat, foreign : Nat]
      /\ host'.step = After(host.step, NextOffset) /\ host'.offset = NextOffset
      /\ host'.seq = host.seq + 1 /\ host'.session = host.session /\ host'.img = host.img
  <2> DEFINE step == After(host.step, NextOffset)
             offset == NextOffset
             seq == host.seq + 1
  <2>1. host' = [host EXCEPT !.step = step, !.offset = offset, !.seq = seq, !.sends = 0]
    BY DEF Advance
  <2>2. step \in Asking \cup Ended /\ offset \in Nat /\ seq \in Nat
    BY <1>1, <1>3, <1>4
  <2> HIDE DEF step, offset, seq
  <2>3. QED
    BY <1>1, <2>1, <2>2 DEF HostInv, step, offset, seq
<1>6. host.seq \in ClientNumbers(host.step, host.img, host.offset)
  BY DEF HostInv
<1>7. /\ host'.seq \in 1 .. 7 + Size[host.img]
      /\ host'.step \in Asking => host'.seq \in ClientNumbers(host'.step, host.img, NextOffset)
  <2>1. CASE host.step \in {"INFO", "UID", "BEGIN", "ERASE"}
    BY <1>1, <1>3, <1>5, <1>6, <2>1 DEF ClientNumbers, After, HostInv
  <2>2. CASE host.step = "PROGRAM"
    <3>1. host.seq \in 5 .. 5 + host.offset
      BY <1>6, <2>2 DEF ClientNumbers
    <3>2. host.seq + 1 \in 6 .. 5 + NextOffset
      BY <1>1, <1>3, <2>2, <3>1
    <3>3. CASE NextOffset < Size[host.img]
      BY <1>1, <1>3, <1>5, <2>2, <3>2, <3>3 DEF ClientNumbers, After
    <3>4. CASE NextOffset = Size[host.img]
      BY <1>1, <1>3, <1>5, <2>2, <3>2, <3>4 DEF ClientNumbers, After
    <3>5. QED
      BY <1>1, <1>3, <3>3, <3>4
  <2>3. CASE host.step = "VERIFY"
    BY <1>1, <1>5, <1>6, <2>3 DEF ClientNumbers, After
  <2>4. CASE host.step = "ACTIVATE"
    BY <1>1, <1>5, <1>6, <2>4 DEF ClientNumbers, After, Asking
  <2>5. QED
    BY <2>1, <2>2, <2>3, <2>4 DEF Asking
<1>8. /\ host'.step \in {"INFO", "UID", "BEGIN", "ERASE"} => NextOffset = 0
      /\ host'.step = "PROGRAM" => NextOffset < Size[host.img]
      /\ host'.step \in {"VERIFY", "ACTIVATE"} => NextOffset = Size[host.img]
  BY <1>1, <1>3, <1>5 DEF After, Asking, HostInv
<1>9. QED
  BY <1>3, <1>5, <1>7, <1>8 DEF HostInv

LEMMA HostStep == HostInv /\ [UpdateNext]_updateVars => HostInv'
<1> SUFFICES ASSUME HostInv, [UpdateNext]_updateVars PROVE HostInv'
  OBVIOUS
<1>1. CASE HostSend
  <2>1. host.sends + 1 \in 0 .. Retries
    BY <1>1, HostAssumption DEF HostSend, HostInv
  <2>2. QED
    BY <1>1, <2>1 DEF HostSend, HostInv
<1>2. CASE HostGivesUp
  BY <1>2 DEF HostGivesUp, HostInv, Asking, Ended
<1>3. CASE HostHears
  <2>1. CASE host' = host
    BY <2>1 DEF HostInv
  <2>2. CASE host' = Hear(tx.reply)
    <3>1. CASE host' = host
      BY <3>1 DEF HostInv
    <3>2. CASE host.step \in Asking /\ Advance
      BY <3>2, AdvanceFacts
    <3>3. CASE \E step \in {"refused", "mismatch"} : host' = [host EXCEPT !.step = step]
      BY <3>3 DEF HostInv, Asking, Ended
    <3>4. QED
      BY <2>2, <3>1, <3>2, <3>3, HearCases
  <2>3. QED
    BY <1>3, <2>1, <2>2 DEF HostHears
<1>4. CASE Observe
  BY <1>4 DEF Observe, HostInv
<1>5. CASE UNCHANGED host
  BY <1>5 DEF HostInv
<1>6. QED
  BY <1>1, <1>2, <1>3, <1>4, <1>5 DEF UpdateNext, Part, updateVars

LEMMA HostStart == UpdateInit => HostInv
<1> SUFFICES ASSUME UpdateInit PROVE HostInv
  OBVIOUS
<1>1. PICK i \in Offered, s \in Sessions :
         host = [step |-> "INFO", seq |-> 1, sends |-> 0, session |-> s,
                 img |-> i, offset |-> 0, foreign |-> 0]
  BY DEF UpdateInit
<1>2. Size[i] \in Nat /\ 0 \in 0 .. Retries
  BY SizeNat, HostAssumption
<1>3. QED
  BY <1>1, <1>2 DEF HostInv, Asking, Ended, ClientNumbers

\* The client and the other tools do to the Loader only what a bus can.
LEMMA UpdateStep ==
    HostInv /\ [UpdateNext]_updateVars => [MainNext]_allVars
<1>1. host.step \in Asking /\ HostInv => HostRequest \in Requests
  BY HostRequestFacts
<1>2. \A r \in Observer : r \in Requests
  BY HostAssumption
<1>3. QED
  BY <1>1, <1>2 DEF UpdateNext, HostSend, HostGivesUp, HostHears, Observe, Part,
                    updateVars, MainNext

(* The Loader with one client and other tools at it is the Loader as it    *)
(* runs: everything proved of the main loop holds of an update.            *)
THEOREM UpdateImplementsMain == UpdateSpec => MainSpec
<1>1. UpdateInit => MainInit /\ HostInv
  BY HostStart DEF UpdateInit
<1>2. HostInv /\ [UpdateNext]_updateVars => HostInv' /\ [MainNext]_allVars
  BY HostStep, UpdateStep
<1>3. QED
  BY <1>1, <1>2, PTL DEF UpdateSpec, MainSpec

(* The client's own variables stay in range: it numbers its requests 1 to  *)
(* at most 6 plus the image's double words, never past what a u16 counts,  *)
(* and its offset never passes the end of the image.                       *)
THEOREM UpdateTypeCorrect == UpdateSpec => []UpdateTypeOK
<1>1. UpdateInit => HostInv
  BY HostStart
<1>2. HostInv /\ [UpdateNext]_updateVars => HostInv'
  BY HostStep
<1>3. HostInv /\ LinkInv => UpdateTypeOK
  <2> SUFFICES ASSUME HostInv, LinkInv PROVE UpdateTypeOK
    OBVIOUS
  <2>1. /\ Size[host.img] \in Nat /\ Size[host.img] + 6 <= MaxSeq /\ MaxSeq \in Nat
        /\ host.seq \in 1 .. 7 + Size[host.img]
    BY SizeNat, HostAssumption, RequestAssumption DEF HostInv
  <2>2. host.seq \in 1 .. MaxSeq + 1
    BY <2>1
  <2>3. QED
    BY <2>1, <2>2 DEF HostInv, LinkInv, UpdateTypeOK
<1>4. QED
  BY <1>1, <1>2, <1>3, UpdateImplementsMain, MainInvariance, PTL DEF UpdateSpec

-----------------------------------------------------------------------------
(***************************************************************************)
(* What is on its way between the client and the part, and what it is      *)
(* worth: the invariant behind the promises an update makes.               *)
(***************************************************************************)

\* The requests the part has not looked at yet.
Waiting == {ring[i] : i \in 1 .. Len(ring)} \cup {fifo[i] : i \in 1 .. Len(fifo)}

\* A stop-and-wait client sends q again, or a later request r.
Before(q, r) == q = r \/ (q.seq < r.seq /\ q.op # "ACTIVATE" /\ r.op # "BEGIN")

InOrder(q, r) == q.op \in Mutations /\ r.op \in Mutations => Before(q, r)

Ordered(s) == \A i, j \in 1 .. Len(s) : i < j => InOrder(s[i], s[j])

\* The link delivers the mutations in the order the client made them.
LinkInOrder ==
    /\ Ordered(ring) /\ Ordered(fifo)
    /\ \A i \in 1 .. Len(ring), j \in 1 .. Len(fifo) : InOrder(ring[i], fifo[j])

\* A mutation of this client, and not one it has yet to think of.
FromClient(r) ==
    /\ r \in Requests
    /\ r.op \in {"BEGIN", "ERASE", "PROGRAM", "VERIFY", "ACTIVATE"}
    /\ r.framed /\ r.session = host.session
    /\ r.op = "BEGIN" => r.img = host.img /\ r.identity = "ours"
    /\ r.op = "PROGRAM" =>
         /\ Len(r.data) \in 1 .. MaxChunk
         /\ r.offset + Len(r.data) <= Size[host.img]
         /\ PageOf[r.offset + Len(r.data) - 1] = PageOf[r.offset]
         /\ \A k \in 1 .. Len(r.data) : r.data[k] = Content[host.img][r.offset + k - 1]
    /\ host.step \notin {"INFO", "UID"}
    /\ host.step \in Asking => Before(r, HostRequest)

\* A query, whose answer to the client can only be good.
Harmless(r) ==
    /\ r.op \in Queries
    /\ <<r.op, r.seq>> \in ClientQueries => r.framed /\ r.session = NoSession

OrderInv ==
    /\ LinkInOrder
    /\ \A r \in Waiting : FromClient(r) \/ Harmless(r)
    /\ job.pc # "idle" =>
         FromClient(job.req) /\ \A r \in Waiting : InOrder(job.req, r)
    /\ core.cache # NoCache =>
         FromClient(core.cache.req) /\ \A r \in Waiting : InOrder(core.cache.req, r)

\* A session is the client's, over its image, and remembers its last step.
SessionInv ==
    /\ core.session # NoSession =>
         core.session = host.session /\ core.image = host.img /\ core.cache # NoCache
    /\ core.cache # NoCache =>
         LET q == core.cache.req
             a == core.cache.reply
         IN  /\ core.session # NoSession /\ core.seq = q.seq
             /\ a.op = q.op /\ a.seq = q.seq /\ a.session = q.session /\ a.result = "OK"

\* The image is in, and nothing on its way can take it out again.
Committed ==
    /\ rec = RecordEncode(host.img)
    /\ job.pc = "idle"
    /\ \A r \in Waiting : r.op \in Mutations => r.op = "ACTIVATE"
    /\ core.session # NoSession =>
         core.cache # NoCache /\ core.cache.req.op = "ACTIVATE"

\* Answers the part holds: given but not sent, being sent, or remembered.
Answers ==
    {a \in {reply, tx.reply} : a # NoReply}
    \cup (IF core.cache = NoCache THEN {} ELSE {core.cache.reply})

\* What such an answer still means if it arrives only now.
Truth(a) ==
    /\ <<a.op, a.seq>> \in ClientQueries => a.result = "OK" /\ a.value = NoValue
    /\ a.op \in Mutations =>
         /\ host.step \notin {"INFO", "UID"}
         /\ host.step \in Asking =>
              /\ a.seq <= host.seq
              /\ a.op # "BEGIN" => host.step # "BEGIN"
              /\ a.op = "ACTIVATE" => host.step = "ACTIVATE"
         /\ \A r \in Waiting : r.op \in Mutations =>
              /\ a.seq <= r.seq
              /\ a.op # "BEGIN" => r.op # "BEGIN"
              /\ a.op = "ACTIVATE" => r.op = "ACTIVATE"
         /\ a.op = "PROGRAM" /\ a.result = "OK" /\ core.session # NoSession
              => a.value \in Nat /\ a.value <= core.offset
         /\ a.op = "ACTIVATE" /\ a.result = "OK" => Committed

AnswerInv ==
    /\ \A a \in Answers : Truth(a)
    /\ host.step = "acknowledged" => Committed

\* The part is at least where the client believes it to be.
DownloadInv ==
    /\ host.offset > 0 => \A r \in Waiting : r.op # "BEGIN"
    /\ core.session # NoSession =>
         /\ host.offset <= core.offset
         /\ core.state \in {"RECEIVING", "VERIFIED"} =>
              \A d \in 0 .. core.offset - 1 : app[d] = Content[host.img][d]

\* r is the client's next mutation after c.
Succeeds(c, r) ==
    /\ r.seq = c.seq + 1
    /\ \/ c.op = "BEGIN" /\ r.op = "ERASE"
       \/ c.op = "ERASE" /\ r.op = "PROGRAM" /\ r.offset = 0
       \/ c.op = "PROGRAM" /\ r.op = "PROGRAM" /\ r.offset = c.offset + Len(c.data)
       \/ c.op = "PROGRAM" /\ r.op = "VERIFY" /\ c.offset + Len(c.data) = Size[host.img]
       \/ c.op = "VERIFY" /\ r.op = "ACTIVATE"

\* The session is where accepting c leaves it.
Settled(c) ==
    LET value == core.cache.reply.value IN
    /\ c.op = "BEGIN" => core.state = "PREPARED" /\ value = 0
    /\ c.op = "ERASE" => core.state = "RECEIVING" /\ core.offset = 0 /\ value = NoValue
    /\ c.op = "PROGRAM" => /\ core.state = "RECEIVING"
                           /\ core.offset = c.offset + Len(c.data)
                           /\ value = core.offset
    /\ c.op = "VERIFY" => /\ core.state = "VERIFIED" /\ value = host.img
                          /\ job.pc = "idle" => rec = BlankRecord
    /\ c.op = "ACTIVATE" => value = NoValue

\* Before the part has accepted anything.
Untouched ==
    /\ host.step \in {"INFO", "UID", "BEGIN", "timeout"}
    /\ \A r \in Waiting : r.op \in Mutations => r.op = "BEGIN"
    /\ \A a \in Answers : a.op \notin Mutations

\* Everything about is the mutation last accepted, or the next one.
InStep ==
    LET c == core.cache.req IN
    /\ Settled(c)
    /\ \A r \in Waiting : r.op \in Mutations => r = c \/ Succeeds(c, r)
    /\ job.pc # "idle" => Succeeds(c, job.req)
    /\ host.step \in Asking => HostRequest = c \/ Succeeds(c, HostRequest)
    /\ \A a \in Answers : a.op \in Mutations => a = core.cache.reply \/ a.seq < c.seq

CalmInv ==
    ~disturbed =>
        /\ host.step \notin {"refused", "mismatch"}
        /\ core.session = NoSession => Untouched
        /\ core.session # NoSession => InStep

(* The inductive invariant: none of the three promises is inductive alone, *)
(* because what the client is told depends on copies of its requests and   *)
(* on answers that are still on their way.                                 *)
ClientInv == OrderInv /\ SessionInv /\ AnswerInv /\ DownloadInv /\ CalmInv

UpdateInv == IInv /\ LinkInv /\ ContentInv /\ HostInv /\ ClientInv

-----------------------------------------------------------------------------
(* The order of requests along the link.                                   *)

LEMMA ArriveOrder ==
    ASSUME LinkInv, LinkInOrder, NEW r \in Requests, Arrive(r),
           \A q \in Waiting : InOrder(q, r)
    PROVE  LinkInOrder' /\ Waiting' \subseteq Waiting \cup {r}
<1>1. ring' = ring /\ fifo \in Seq(Requests)
  BY DEF Arrive, LinkInv
<1>2. CASE fifo' = fifo
  BY <1>1, <1>2 DEF LinkInOrder, Waiting
<1>3. CASE fifo' = Append(fifo, r)
  <2>1. /\ Len(fifo) \in Nat /\ Len(fifo') = Len(fifo) + 1
        /\ \A i \in 1 .. Len(fifo) : fifo'[i] = fifo[i]
        /\ fifo'[Len(fifo) + 1] = r
    BY <1>1, <1>3, AppendFacts
  <2>2. Ordered(fifo')
    <3> SUFFICES ASSUME NEW i \in 1 .. Len(fifo'), NEW j \in 1 .. Len(fifo'), i < j
                 PROVE  InOrder(fifo'[i], fifo'[j])
      BY DEF Ordered
    <3>1. i \in 1 .. Len(fifo) /\ fifo[i] \in Waiting /\ fifo'[i] = fifo[i]
      BY <2>1 DEF Waiting
    <3>2. CASE j = Len(fifo) + 1
      BY <2>1, <3>1, <3>2
    <3>3. CASE j # Len(fifo) + 1
      <4>1. j \in 1 .. Len(fifo)
        BY <2>1, <3>3
      <4>2. QED
        BY <2>1, <3>1, <4>1 DEF LinkInOrder, Ordered
    <3>4. QED
      BY <3>2, <3>3
  <2>3. ASSUME NEW i \in 1 .. Len(ring), NEW j \in 1 .. Len(fifo')
        PROVE  InOrder(ring[i], fifo'[j])
    <3>1. CASE j = Len(fifo) + 1
      BY <2>1, <3>1 DEF Waiting
    <3>2. CASE j # Len(fifo) + 1
      <4>1. j \in 1 .. Len(fifo)
        BY <2>1, <3>2
      <4>2. QED
        BY <2>1, <4>1 DEF LinkInOrder
    <3>3. QED
      BY <3>1, <3>2
  <2>4. ASSUME NEW j \in 1 .. Len(fifo') PROVE fifo'[j] \in Waiting \cup {r}
    <3>1. CASE j = Len(fifo) + 1
      BY <2>1, <3>1
    <3>2. CASE j # Len(fifo) + 1
      <4>1. j \in 1 .. Len(fifo)
        BY <2>1, <3>2
      <4>2. QED
        BY <2>1, <4>1 DEF Waiting
    <3>3. QED
      BY <3>1, <3>2
  <2>5. LinkInOrder'
    BY <1>1, <2>2, <2>3 DEF LinkInOrder
  <2>6. QED
    BY <1>1, <2>4, <2>5 DEF Waiting
<1>4. QED
  BY <1>2, <1>3 DEF Arrive

LEMMA RxOrder ==
    ASSUME LinkInv, LinkInOrder, RxInterrupt
    PROVE  LinkInOrder' /\ Waiting' \subseteq Waiting
<1>1. ring \in Seq(Requests) /\ fifo \in Seq(Requests)
  BY DEF LinkInv
<1>2. CASE fifo = <<>>
  BY <1>2 DEF RxInterrupt, LinkInOrder, Waiting
<1>3. CASE fifo # <<>>
  <2>1. fifo' = Tail(fifo) /\ ring' \in {ring, Append(ring, Head(fifo))}
    BY <1>3 DEF RxInterrupt
  <2>2. /\ Head(fifo) \in Requests /\ Head(fifo) = fifo[1]
        /\ Len(fifo) \in Nat /\ Len(fifo) >= 1 /\ Len(fifo') = Len(fifo) - 1
        /\ \A i \in 1 .. Len(fifo') : i + 1 \in 1 .. Len(fifo) /\ fifo'[i] = fifo[i + 1]
    BY <1>1, <1>3, <2>1, TailFacts
  <2>3. 1 \in 1 .. Len(fifo) /\ Head(fifo) \in Waiting
    BY <2>2 DEF Waiting
  <2>4. Ordered(fifo') /\ \A j \in 1 .. Len(fifo') : InOrder(Head(fifo), fifo'[j])
    <3>1. \A i, j \in 1 .. Len(fifo) : i < j => InOrder(fifo[i], fifo[j])
      BY DEF LinkInOrder, Ordered
    <3>2. \A i, j \in 1 .. Len(fifo') : i < j => i + 1 < j + 1
      BY <2>2
    <3>3. \A j \in 1 .. Len(fifo') : 1 < j + 1
      BY <2>2
    <3>4. QED
      BY <2>2, <2>3, <3>1, <3>2, <3>3 DEF Ordered
  <2>5. \A j \in 1 .. Len(fifo') : fifo'[j] \in Waiting
    BY <2>2 DEF Waiting
  <2>6. CASE ring' = ring
    <3>1. LinkInOrder'
      BY <2>2, <2>4, <2>6 DEF LinkInOrder
    <3>2. QED
      BY <2>5, <2>6, <3>1 DEF Waiting
  <2>7. CASE ring' = Append(ring, Head(fifo))
    <3>1. /\ Len(ring) \in Nat /\ Len(ring') = Len(ring) + 1
          /\ \A i \in 1 .. Len(ring) : ring'[i] = ring[i]
          /\ ring'[Len(ring) + 1] = Head(fifo)
      BY <1>1, <2>2, <2>7, AppendFacts
    <3>2. \A i \in 1 .. Len(ring') :
             \/ i \in 1 .. Len(ring) /\ ring'[i] = ring[i]
             \/ i = Len(ring) + 1 /\ ring'[i] = Head(fifo)
      BY <3>1
    <3>3. Ordered(ring')
      <4> SUFFICES ASSUME NEW i \in 1 .. Len(ring'), NEW j \in 1 .. Len(ring'), i < j
                   PROVE  InOrder(ring'[i], ring'[j])
        BY DEF Ordered
      <4>1. i \in 1 .. Len(ring) /\ ring'[i] = ring[i]
        BY <3>1
      <4>2. CASE j \in 1 .. Len(ring) /\ ring'[j] = ring[j]
        BY <4>1, <4>2 DEF LinkInOrder, Ordered
      <4>3. CASE ring'[j] = Head(fifo)
        BY <2>2, <2>3, <4>1, <4>3 DEF LinkInOrder
      <4>4. QED
        BY <3>2, <4>2, <4>3
    <3>4. \A i \in 1 .. Len(ring'), j \in 1 .. Len(fifo') : InOrder(ring'[i], fifo'[j])
      BY <2>2, <2>4, <3>2 DEF LinkInOrder
    <3>5. \A i \in 1 .. Len(ring') : ring'[i] \in Waiting
      BY <2>3, <3>2 DEF Waiting
    <3>6. LinkInOrder'
      BY <2>4, <3>3, <3>4 DEF LinkInOrder
    <3>7. QED
      BY <2>5, <3>5, <3>6 DEF Waiting
  <2>8. QED
    BY <2>1, <2>6, <2>7
<1>4. QED
  BY <1>2, <1>3

LEMMA PopOrder ==
    ASSUME LinkInv, LinkInOrder, ring # <<>>, ring' = Tail(ring), fifo' = fifo
    PROVE  /\ LinkInOrder' /\ Waiting' \subseteq Waiting
           /\ Head(ring) \in Waiting /\ Head(ring) \in Requests
           /\ \A r \in Waiting' : InOrder(Head(ring), r)
<1>1. ring \in Seq(Requests)
  BY DEF LinkInv
<1>2. /\ Head(ring) \in Requests /\ Head(ring) = ring[1]
      /\ Len(ring) \in Nat /\ Len(ring) >= 1 /\ Len(ring') = Len(ring) - 1
      /\ \A i \in 1 .. Len(ring') : i + 1 \in 1 .. Len(ring) /\ ring'[i] = ring[i + 1]
  BY <1>1, TailFacts
<1>3. 1 \in 1 .. Len(ring)
  BY <1>2
<1>4. Ordered(ring') /\ \A j \in 1 .. Len(ring') : InOrder(Head(ring), ring'[j])
  <2>1. \A i, j \in 1 .. Len(ring) : i < j => InOrder(ring[i], ring[j])
    BY DEF LinkInOrder, Ordered
  <2>2. \A i, j \in 1 .. Len(ring') : i < j => i + 1 < j + 1
    BY <1>2
  <2>3. \A j \in 1 .. Len(ring') : 1 < j + 1
    BY <1>2
  <2>4. QED
    BY <1>2, <1>3, <2>1, <2>2, <2>3 DEF Ordered
<1>5. \A j \in 1 .. Len(fifo') : InOrder(Head(ring), fifo'[j])
  BY <1>2, <1>3 DEF LinkInOrder
<1>6. LinkInOrder'
  BY <1>2, <1>4 DEF LinkInOrder
<1>7. Head(ring) \in Waiting
  BY <1>2, <1>3 DEF Waiting
<1>8. Waiting' \subseteq Waiting
  BY <1>2 DEF Waiting
<1>9. \A r \in Waiting' : InOrder(Head(ring), r)
  BY <1>4, <1>5 DEF Waiting
<1>10. QED
  BY <1>2, <1>6, <1>7, <1>8, <1>9

\* Nothing waits in an empty link.
LEMMA EmptyOrder ==
    ASSUME ring' = <<>>, fifo' = <<>>
    PROVE  LinkInOrder' /\ Waiting' = {}
<1>1. Len(ring') = 0 /\ Len(fifo') = 0
  BY EmptySeq
<1>2. QED
  BY <1>1 DEF LinkInOrder, Ordered, Waiting

LEMMA SameOrder ==
    ASSUME UNCHANGED <<ring, fifo>>
    PROVE  Waiting' = Waiting /\ (LinkInOrder => LinkInOrder')
  BY DEF Waiting, LinkInOrder

-----------------------------------------------------------------------------
(***************************************************************************)
(* What a step leaves standing of the invariant.                           *)
(***************************************************************************)

\* The numbers the invariant compares are natural numbers.
LEMMA Numbers ==
    ASSUME IInv, HostInv
    PROVE  /\ core \in CoreSet /\ core.offset \in Nat /\ core.seq \in Nat
           /\ \A r \in Requests : r.seq \in Nat /\ (r.op = "PROGRAM" => r.offset \in Nat)
           /\ host.img \in Offered /\ host.img \in Images /\ host.session \in Sessions
           /\ host.session # NoSession /\ host.seq \in Nat /\ host.offset \in Nat
           /\ Size[host.img] \in Nat /\ Size[host.img] >= 1
           /\ core.cache # NoCache =>
                core.cache.req \in Requests /\ core.cache.reply \in ReplySet
<1>1. core \in CoreSet /\ core.offset \in Nat /\ core.seq \in Nat
  BY RequestAssumption, CapacityAssumption DEF IInv, TypeOK, CoreSet, Seqs
<1>2. \A r \in Requests : r.seq \in Nat /\ (r.op = "PROGRAM" => r.offset \in Nat)
  BY RequestFields, RequestAssumption DEF Seqs
<1>3. /\ host.img \in Offered /\ host.img \in Images /\ host.session \in Sessions
      /\ host.session # NoSession /\ host.seq \in Nat /\ host.offset \in Nat
      /\ Size[host.img] \in Nat /\ Size[host.img] >= 1
  BY SizeNat, HostAssumption, RequestAssumption DEF HostInv, VectorsValid, LegalSize
<1>4. core.cache # NoCache =>
         core.cache.req \in Requests /\ core.cache.reply \in ReplySet
  BY <1>1 DEF CoreSet
<1>5. QED
  BY <1>1, <1>2, <1>3, <1>4

\* Committed survives what neither touches the record nor adds a mutation.
LEMMA CommittedKept ==
    ASSUME Committed, rec' = rec, job'.pc = "idle", host'.img = host.img,
           \A r \in Waiting' : r \in Waiting \/ r.op \notin Mutations,
           core'.session # NoSession =>
              core.session # NoSession /\ core'.cache = core.cache
    PROVE  Committed'
  BY DEF Committed

\* An answer stays true while the client and what it compares with stay put.
LEMMA TruthKept ==
    ASSUME NEW a, Truth(a), host'.step = host.step, host'.seq = host.seq,
           \A r \in Waiting' : r \in Waiting \/ r.op \notin Mutations,
           core.offset \in Nat, core'.offset \in Nat,
           core'.session # NoSession /\ a.op = "PROGRAM" =>
              core.session # NoSession /\ core.offset <= core'.offset,
           Committed => Committed'
    PROVE  Truth(a)'
<1>1. <<a.op, a.seq>> \in ClientQueries => a.result = "OK" /\ a.value = NoValue
  BY DEF Truth
<1>2. CASE a.op \notin Mutations
  BY <1>1, <1>2 DEF Truth
<1>3. CASE a.op \in Mutations
  <2>1. /\ host'.step \notin {"INFO", "UID"}
        /\ host'.step \in Asking =>
             /\ a.seq <= host'.seq
             /\ a.op # "BEGIN" => host'.step # "BEGIN"
             /\ a.op = "ACTIVATE" => host'.step = "ACTIVATE"
    BY <1>3 DEF Truth
  <2>2. \A r \in Waiting' : r.op \in Mutations =>
            /\ a.seq <= r.seq
            /\ a.op # "BEGIN" => r.op # "BEGIN"
            /\ a.op = "ACTIVATE" => r.op = "ACTIVATE"
    BY <1>3 DEF Truth
  <2>3. a.op = "PROGRAM" /\ a.result = "OK" /\ core'.session # NoSession
            => a.value \in Nat /\ a.value <= core'.offset
    BY <1>3 DEF Truth
  <2>4. a.op = "ACTIVATE" /\ a.result = "OK" => Committed'
    BY <1>3 DEF Truth
  <2>5. QED
    BY <1>1, <2>1, <2>2, <2>3, <2>4 DEF Truth
<1>4. QED
  BY <1>2, <1>3

\* A request stays the client's while the client stays put.
LEMMA FromClientKept ==
    ASSUME NEW r, FromClient(r), host' = host
    PROVE  FromClient(r)'
  BY DEF FromClient, HostRequest

\* Loop, link and clock between requests: nothing but answers moves.
LEMMA QuietStep ==
    ASSUME IInv, HostInv, ClientInv, UNCHANGED <<app, rec, core, job, host>>,
           Waiting' \subseteq Waiting, LinkInOrder', Answers' \subseteq Answers,
           ~disturbed' => ~disturbed
    PROVE  ClientInv'
<1> USE DEF ClientInv
<1>1. OrderInv'
  <2>1. \A r \in Waiting' : FromClient(r)' \/ Harmless(r)
    BY FromClientKept DEF OrderInv
  <2>2. job'.pc # "idle" =>
           FromClient(job.req)' /\ \A r \in Waiting' : InOrder(job'.req, r)
    BY FromClientKept DEF OrderInv
  <2>3. core'.cache # NoCache =>
           FromClient(core.cache.req)' /\ \A r \in Waiting' : InOrder(core'.cache.req, r)
    BY FromClientKept DEF OrderInv
  <2>4. QED
    BY <2>1, <2>2, <2>3 DEF OrderInv
<1>2. SessionInv'
  BY DEF SessionInv
<1>3. Committed => Committed'
  BY CommittedKept DEF Committed
<1>4. AnswerInv'
  <2>1. ASSUME NEW a \in Answers' PROVE Truth(a)'
    BY <1>3, Numbers, TruthKept DEF AnswerInv
  <2>2. QED
    BY <1>3, <2>1 DEF AnswerInv
<1>5. DownloadInv'
  BY DEF DownloadInv
<1>6. CalmInv'
  <2>1. Untouched => Untouched'
    BY DEF Untouched
  <2>2. InStep => InStep'
    BY DEF InStep, Settled, Succeeds, HostRequest
  <2>3. QED
    BY <2>1, <2>2 DEF CalmInv
<1>7. QED
  BY <1>1, <1>2, <1>4, <1>5, <1>6

\* A jump, a reset or a session timeout: RAM is as at the start.
LEMMA FreshStep ==
    ASSUME IInv, HostInv, ClientInv, host' = host, core' = InitCore, job' = Idle,
           job.pc = "idle" => rec' = rec,
           Waiting' \subseteq Waiting, LinkInOrder', Answers' \subseteq Answers,
           ~disturbed' => ~disturbed /\ core.session = NoSession
    PROVE  ClientInv'
<1> USE DEF ClientInv
<1>1. /\ core'.session = NoSession /\ core'.cache = NoCache /\ core'.offset = 0
      /\ job'.pc = "idle"
  BY IdleType DEF InitCore
<1>2. OrderInv'
  <2>1. \A r \in Waiting' : FromClient(r)' \/ Harmless(r)
    BY FromClientKept DEF OrderInv
  <2>2. QED
    BY <1>1, <2>1 DEF OrderInv
<1>3. SessionInv'
  BY <1>1 DEF SessionInv
<1>4. Committed => Committed'
  BY <1>1, CommittedKept DEF Committed
<1>5. AnswerInv'
  <2>1. ASSUME NEW a \in Answers' PROVE Truth(a)'
    BY <1>1, <1>4, Numbers, TruthKept DEF AnswerInv
  <2>2. QED
    BY <1>4, <2>1 DEF AnswerInv
<1>6. DownloadInv'
  BY <1>1 DEF DownloadInv
<1>7. CalmInv'
  BY <1>1 DEF CalmInv, Untouched
<1>8. QED
  BY <1>2, <1>3, <1>5, <1>6, <1>7

\* What the answer to request r may say and still be true: it is about r.
LEMMA AnswerToClient ==
    ASSUME HostInv, NEW r \in Requests, FromClient(r), NEW a,
           a.op = r.op, a.seq = r.seq,
           host' = host, \A q \in Waiting' : InOrder(r, q),
           \A q \in Waiting' : q.op \in Mutations => q.seq \in Nat,
           a.op = "PROGRAM" /\ a.result = "OK" /\ core'.session # NoSession
              => a.value \in Nat /\ a.value <= core'.offset,
           a.op = "ACTIVATE" /\ a.result = "OK" => Committed'
    PROVE  Truth(a)'
<1>1. r.op \in Mutations /\ r.op \notin Queries /\ r.seq \in Nat
  BY RequestFields, RequestAssumption DEF FromClient, Mutations, SessionOps, Queries, Seqs
<1>2. <<a.op, a.seq>> \notin ClientQueries
  BY <1>1 DEF ClientQueries, Queries
<1>3. host'.step \notin {"INFO", "UID"}
  BY DEF FromClient
<1>4. host'.step \in Asking =>
         /\ a.seq <= host'.seq
         /\ a.op # "BEGIN" => host'.step # "BEGIN"
         /\ a.op = "ACTIVATE" => host'.step = "ACTIVATE"
  <2> SUFFICES ASSUME host.step \in Asking
               PROVE  /\ a.seq <= host.seq
                      /\ a.op # "BEGIN" => host.step # "BEGIN"
                      /\ a.op = "ACTIVATE" => host.step = "ACTIVATE"
    OBVIOUS
  <2>1. Before(r, HostRequest)
    BY DEF FromClient
  <2>2. HostRequest.op = host.step /\ HostRequest.seq = host.seq
    BY HostRequestFacts
  <2>3. host.seq \in Nat
    BY DEF HostInv
  <2>4. QED
    BY <1>1, <2>1, <2>2, <2>3 DEF Before
<1>5. \A q \in Waiting' : q.op \in Mutations =>
         /\ a.seq <= q.seq
         /\ a.op # "BEGIN" => q.op # "BEGIN"
         /\ a.op = "ACTIVATE" => q.op = "ACTIVATE"
  BY <1>1 DEF InOrder, Before
<1>6. QED
  BY <1>2, <1>3, <1>4, <1>5 DEF Truth

\* An answer that moves nothing but the last error and perhaps the state,
\* to ERROR_STATE: to a query, to a refused request, to a failed one.
LEMMA RefuseStep ==
    ASSUME IInv, HostInv, ClientInv, host' = host, tx' = tx,
           NEW r \in Requests, FromClient(r) \/ Harmless(r),
           Waiting' \subseteq Waiting, LinkInOrder', \A q \in Waiting' : InOrder(r, q),
           \A q \in Waiting' : q \in Requests,
           job'.pc = "idle", job.pc = "idle" => UNCHANGED <<app, rec>>,
           core'.session = core.session, core'.image = core.image,
           core'.offset = core.offset, core'.seq = core.seq, core'.cache = core.cache,
           core'.state # "ERROR_STATE" => core'.state = core.state /\ app' = app,
           reply'.op = r.op, reply'.seq = r.seq,
           reply'.result = "OK" => r.op \in Queries,
           <<r.op, r.seq>> \in ClientQueries =>
              reply'.result = "OK" /\ reply'.value = NoValue,
           ~disturbed' => /\ ~disturbed /\ r.op \notin Mutations
                          /\ core'.state = core.state /\ job.pc = "idle"
    PROVE  ClientInv'
<1> USE DEF ClientInv
<1>1. Answers' \subseteq Answers \cup {reply'}
  BY DEF Answers
<1>2. OrderInv'
  <2>1. \A q \in Waiting' : FromClient(q)' \/ Harmless(q)
    BY FromClientKept DEF OrderInv
  <2>2. core'.cache # NoCache =>
           FromClient(core.cache.req)' /\ \A q \in Waiting' : InOrder(core'.cache.req, q)
    BY FromClientKept DEF OrderInv
  <2>3. QED
    BY <2>1, <2>2 DEF OrderInv
<1>3. SessionInv'
  BY DEF SessionInv
<1>4. Committed => Committed'
  BY DEF Committed
<1>5. AnswerInv'
  <2>1. ASSUME NEW a \in Answers PROVE Truth(a)'
    BY <1>4, Numbers, TruthKept DEF AnswerInv
  <2>2. ASSUME NEW a, a = reply' PROVE Truth(a)'
    <3>1. CASE FromClient(r)
      <4>1. r.op \notin Queries
        BY <3>1 DEF FromClient, Queries
      <4>2. \A q \in Waiting' : q.op \in Mutations => q.seq \in Nat
        BY Numbers
      <4>3. a.op = r.op /\ a.seq = r.seq /\ a.result # "OK"
        BY <2>2, <4>1
      <4>4. QED
        BY <3>1, <4>2, <4>3, AnswerToClient
    <3>2. CASE Harmless(r)
      <4>1. a.op \notin Mutations
        BY <2>2, <3>2 DEF Harmless, Queries, Mutations, SessionOps
      <4>2. <<a.op, a.seq>> \in ClientQueries => a.result = "OK" /\ a.value = NoValue
        BY <2>2
      <4>3. QED
        BY <4>1, <4>2 DEF Truth
    <3>3. QED
      BY <3>1, <3>2
  <2>3. QED
    BY <1>1, <1>4, <2>1, <2>2 DEF AnswerInv
<1>6. DownloadInv'
  BY DEF DownloadInv
<1>7. CalmInv'
  <2> SUFFICES ASSUME ~disturbed' PROVE CalmInv'
    BY DEF CalmInv
  <2>1. /\ ~disturbed /\ r.op \notin Mutations /\ core'.state = core.state
        /\ UNCHANGED <<app, rec>> /\ job.pc = "idle"
    OBVIOUS
  <2>2. \A a \in Answers' : a.op \in Mutations => a \in Answers
    BY <1>1, <2>1
  <2>3. Untouched => Untouched'
    BY <2>2 DEF Untouched
  <2>4. InStep => InStep'
    BY <2>1, <2>2 DEF InStep, Settled, Succeeds, HostRequest
  <2>5. QED
    BY <2>1, <2>3, <2>4 DEF CalmInv
<1>8. QED
  BY <1>2, <1>3, <1>5, <1>6, <1>7

\* The flash work of a mutation begins.
LEMMA StartStep ==
    ASSUME IInv, HostInv, ClientInv, UNCHANGED <<app, rec, core, reply, tx, host>>,
           job.pc = "idle", job'.pc # "idle", NEW r, job'.req = r, FromClient(r),
           Waiting' \subseteq Waiting, LinkInOrder', \A q \in Waiting' : InOrder(r, q),
           ~Committed, core.session # NoSession,
           ~disturbed' => ~disturbed /\ Succeeds(core.cache.req, r)
    PROVE  ClientInv'
<1> USE DEF ClientInv
<1>1. Answers' = Answers
  BY DEF Answers
<1>2. OrderInv'
  <2>1. \A q \in Waiting' : FromClient(q)' \/ Harmless(q)
    BY FromClientKept DEF OrderInv
  <2>2. core'.cache # NoCache =>
           FromClient(core.cache.req)' /\ \A q \in Waiting' : InOrder(core'.cache.req, q)
    BY FromClientKept DEF OrderInv
  <2>3. FromClient(r)'
    BY FromClientKept
  <2>4. QED
    BY <2>1, <2>2, <2>3 DEF OrderInv
<1>3. SessionInv'
  BY DEF SessionInv
<1>4. AnswerInv'
  <2>1. ASSUME NEW a \in Answers' PROVE Truth(a)'
    BY <1>1, Numbers, TruthKept DEF AnswerInv
  <2>2. QED
    BY <2>1 DEF AnswerInv
<1>5. DownloadInv'
  BY DEF DownloadInv
<1>6. CalmInv'
  <2> SUFFICES ASSUME ~disturbed' PROVE CalmInv'
    BY DEF CalmInv
  <2>1. InStep
    BY DEF CalmInv
  <2>2. InStep'
    BY <1>1, <2>1 DEF InStep, Settled, Succeeds, HostRequest
  <2>3. QED
    BY <2>2 DEF CalmInv
<1>7. QED
  BY <1>2, <1>3, <1>4, <1>5, <1>6

\* The flash work goes on.
LEMMA GoesOnStep ==
    ASSUME IInv, HostInv, ClientInv, UNCHANGED <<core, reply, tx, host, ring, fifo>>,
           job.pc # "idle", job'.pc # "idle", job'.req = job.req,
           core.state \in {"RECEIVING", "VERIFIED"} =>
              \A d \in 0 .. core.offset - 1 : app'[d] = app[d],
           ~disturbed' => ~disturbed
    PROVE  ClientInv'
<1> USE DEF ClientInv
<1>1. Answers' = Answers /\ Waiting' = Waiting /\ ~Committed
  BY SameOrder DEF Answers, Committed
<1>2. OrderInv'
  <2>1. \A q \in Waiting' : FromClient(q)' \/ Harmless(q)
    BY <1>1, FromClientKept DEF OrderInv
  <2>2. core'.cache # NoCache =>
           FromClient(core.cache.req)' /\ \A q \in Waiting' : InOrder(core'.cache.req, q)
    BY <1>1, FromClientKept DEF OrderInv
  <2>3. FromClient(job.req)' /\ \A q \in Waiting' : InOrder(job'.req, q)
    BY <1>1, FromClientKept DEF OrderInv
  <2>4. QED
    BY <2>1, <2>2, <2>3, SameOrder DEF OrderInv
<1>3. SessionInv'
  BY DEF SessionInv
<1>4. AnswerInv'
  <2>1. ASSUME NEW a \in Answers' PROVE Truth(a)'
    BY <1>1, Numbers, TruthKept DEF AnswerInv
  <2>2. QED
    BY <1>1, <2>1 DEF AnswerInv
<1>5. DownloadInv'
  BY <1>1 DEF DownloadInv
<1>6. CalmInv'
  <2>1. Untouched => Untouched'
    BY <1>1 DEF Untouched
  <2>2. InStep => InStep'
    BY <1>1 DEF InStep, Settled, Succeeds, HostRequest
  <2>3. QED
    BY <2>1, <2>2 DEF CalmInv
<1>7. QED
  BY <1>2, <1>3, <1>4, <1>5, <1>6

LEMMA AnswersType ==
    ASSUME IInv, LinkInv, HostInv, NEW a \in Answers
    PROVE  a \in ReplySet /\ a.seq \in Nat
<1>1. reply \in ReplySet \cup {NoReply} /\ tx.reply \in ReplySet \cup {NoReply}
  BY DEF IInv, TypeOK, LinkInv
<1>2. a \in ReplySet
  BY <1>1, Numbers DEF Answers
<1>3. QED
  BY <1>2, RequestAssumption DEF ReplySet, Seqs

\* A mutation is accepted, by its handler or at the end of its flash work.
LEMMA AcceptedStep ==
    ASSUME IInv, LinkInv, HostInv, ClientInv, host' = host, tx' = tx,
           NEW r \in Requests, FromClient(r), ~Committed,
           Waiting' \subseteq Waiting, LinkInOrder', \A q \in Waiting' : InOrder(r, q),
           \A q \in Waiting' : q \in Requests,
           job'.pc = "idle", NEW v, reply' = Answer(r, "OK", v),
           core'.session = host.session, core'.image = host.img, core'.seq = r.seq,
           core'.cache = [req |-> r, reply |-> Answer(r, "OK", v)],
           core'.cache # NoCache, core'.offset \in Nat,
           core.session # NoSession => core.offset <= core'.offset,
           core.session = NoSession => r.op = "BEGIN" /\ r \in Waiting,
           r.op = "PROGRAM" => v \in Nat /\ v <= core'.offset,
           r.op = "ACTIVATE" => rec' = RecordEncode(host.img),
           core'.state \in {"RECEIVING", "VERIFIED"} =>
              \A d \in 0 .. core'.offset - 1 : app'[d] = Content[host.img][d],
           ~disturbed' =>
              /\ ~disturbed /\ Settled(r)'
              /\ core.session # NoSession => Succeeds(core.cache.req, r)
    PROVE  ClientInv'
<1> USE DEF ClientInv
<1>1. /\ reply'.op = r.op /\ reply'.seq = r.seq /\ reply'.session = r.session
      /\ reply'.result = "OK" /\ reply'.value = v
      /\ core'.cache.req = r /\ core'.cache.reply = reply'
  BY DEF Answer
<1>2. Answers' \subseteq Answers \cup {reply'}
  BY <1>1 DEF Answers
<1>3. r.op \in Mutations /\ r.session = host.session /\ r.seq \in Nat
      /\ host.session # NoSession
  BY Numbers DEF FromClient, Mutations, SessionOps
<1>4. OrderInv'
  <2>1. \A q \in Waiting' : FromClient(q)' \/ Harmless(q)
    BY FromClientKept DEF OrderInv
  <2>2. FromClient(r)'
    BY FromClientKept
  <2>3. QED
    BY <1>1, <2>1, <2>2 DEF OrderInv
<1>5. SessionInv'
  BY <1>1, <1>3 DEF SessionInv
<1>6. r.op = "ACTIVATE" => Committed'
  <2>1. \A q \in Waiting' : r.op = "ACTIVATE" /\ q.op \in Mutations => q.op = "ACTIVATE"
    BY <1>3 DEF InOrder, Before
  <2>2. QED
    BY <1>1, <2>1 DEF Committed
<1>7. AnswerInv'
  <2>1. ASSUME NEW a \in Answers PROVE Truth(a)'
    <3>1. Truth(a)
      BY DEF AnswerInv
    <3>2. core'.session # NoSession /\ a.op = "PROGRAM" =>
             core.session # NoSession /\ core.offset <= core'.offset
      BY <1>3, <3>1 DEF Truth, Mutations, SessionOps
    <3>3. QED
      BY <3>1, <3>2, Numbers, TruthKept
  <2>2. ASSUME NEW a, a = reply' PROVE Truth(a)'
    <3>1. \A q \in Waiting' : q.op \in Mutations => q.seq \in Nat
      BY Numbers
    <3>2. a.op = r.op /\ a.seq = r.seq /\ a.value = v
      BY <1>1, <2>2
    <3>3. QED
      BY <1>6, <3>1, <3>2, AnswerToClient
  <2>3. host'.step # "acknowledged"
    BY DEF AnswerInv
  <2>4. QED
    BY <1>2, <2>1, <2>2, <2>3 DEF AnswerInv
<1>8. DownloadInv'
  <2>1. host.offset <= core'.offset
    <3>1. CASE core.session # NoSession
      BY <3>1, Numbers DEF DownloadInv
    <3>2. CASE core.session = NoSession
      BY <3>2, Numbers DEF DownloadInv
    <3>3. QED
      BY <3>1, <3>2
  <2>2. QED
    BY <2>1 DEF DownloadInv
<1>9. CalmInv'
  <2> SUFFICES ASSUME ~disturbed' PROVE host.step \notin {"refused", "mismatch"} /\ InStep'
    BY <1>3 DEF CalmInv
  <2>1. host.step \notin {"refused", "mismatch"} /\ Settled(r)'
    BY DEF CalmInv
  <2>2. host.step \in Asking =>
           /\ HostRequest' = HostRequest /\ HostRequest.op = host.step
           /\ HostRequest.seq \in Nat /\ Before(r, HostRequest)
    BY HostRequestFacts, Numbers DEF FromClient, HostRequest
  <2>3. CASE core.session = NoSession
    <3>1. Untouched /\ r.op = "BEGIN"
      BY <2>3 DEF CalmInv
    <3>2. \A q \in Waiting' : q.op \in Mutations => q = r
      BY <1>3, <3>1 DEF Untouched, InOrder, Before
    <3>3. host.step \in Asking => HostRequest = r
      BY <2>2, <3>1 DEF Untouched, FromClient, Before, Asking
    <3>4. \A a \in Answers' : a.op \in Mutations => a = core'.cache.reply
      BY <1>1, <1>2, <3>1 DEF Untouched
    <3>5. QED
      BY <1>1, <2>1, <2>2, <3>2, <3>3, <3>4 DEF InStep
  <2>4. CASE core.session # NoSession
    <3> DEFINE c == core.cache.req
    <3>1. InStep /\ Succeeds(c, r)
      BY <2>4 DEF CalmInv
    <3>2. c.seq \in Nat /\ r.seq = c.seq + 1 /\ core.cache.reply.seq = c.seq
          /\ core.cache # NoCache
      BY <2>4, <3>1, Numbers DEF SessionInv, Succeeds
    <3>3. \A q \in Waiting' : q.op \in Mutations => q = r
      <4> SUFFICES ASSUME NEW q \in Waiting', q.op \in Mutations PROVE q = r
        OBVIOUS
      <4>1. q.seq \in {c.seq, c.seq + 1}
        BY <3>1 DEF InStep, Succeeds
      <4>2. Before(r, q)
        BY <1>3 DEF InOrder
      <4>3. QED
        BY <3>2, <4>1, <4>2 DEF Before
    <3>4. host.step \in Asking => HostRequest = r
      <4> SUFFICES ASSUME host.step \in Asking PROVE HostRequest = r
        OBVIOUS
      <4>1. HostRequest.seq \in {c.seq, c.seq + 1}
        BY <3>1 DEF InStep, Succeeds
      <4>2. QED
        BY <2>2, <3>2, <4>1 DEF Before
    <3>5. \A a \in Answers' :
             a.op \in Mutations => a = core'.cache.reply \/ a.seq < r.seq
      <4> SUFFICES ASSUME NEW a \in Answers, a.op \in Mutations PROVE a.seq < r.seq
        BY <1>1, <1>2
      <4>1. a = core.cache.reply \/ a.seq < c.seq
        BY <3>1 DEF InStep
      <4>2. CASE a = core.cache.reply
        BY <3>2, <4>2
      <4>3. CASE a.seq < c.seq /\ a # core.cache.reply
        BY <3>2, <4>3, AnswersType
      <4>4. QED
        BY <4>1, <4>2, <4>3
    <3>6. QED
      BY <1>1, <2>1, <2>2, <3>3, <3>4, <3>5 DEF InStep
  <2>5. QED
    BY <2>3, <2>4
<1>10. QED
  BY <1>4, <1>5, <1>7, <1>8, <1>9

-----------------------------------------------------------------------------
(***************************************************************************)
(* The client's own steps.                                                 *)
(***************************************************************************)

\* What the client sends is its own mutation or one of its two queries.
LEMMA RequestOfClient ==
    ASSUME HostInv, host.step \in Asking
    PROVE  IF host.step \in {"INFO", "UID"} THEN Harmless(HostRequest)
           ELSE FromClient(HostRequest)
<1>1. /\ HostRequest \in Requests
      /\ HostRequest.op = host.step /\ HostRequest.seq = host.seq
      /\ HostRequest.framed = TRUE
      /\ HostRequest.session = IF host.step \in Queries THEN NoSession ELSE host.session
  BY HostRequestFacts
<1>2. CASE host.step \in {"INFO", "UID"}
  BY <1>1, <1>2 DEF Harmless, Queries
<1>3. CASE host.step = "PROGRAM"
  <2>1. HostRequest.offset = host.offset /\ HostRequest.data = Chunk(host.img, host.offset)
    BY <1>3, HostRequestFacts
  <2>2. host.img \in Offered /\ host.offset \in Nat /\ host.offset < Size[host.img]
    BY <1>3 DEF HostInv
  <2>3. /\ Len(HostRequest.data) \in 1 .. MaxChunk
        /\ host.offset + Len(HostRequest.data) <= Size[host.img]
        /\ PageOf[host.offset + Len(HostRequest.data) - 1] = PageOf[host.offset]
        /\ \A k \in 1 .. Len(HostRequest.data) :
              HostRequest.data[k] = Content[host.img][host.offset + k - 1]
    BY <2>1, <2>2, ChunkFacts, ChunkData
  <2>4. QED
    BY <1>1, <1>3, <2>1, <2>3 DEF FromClient, Before, Queries
<1>4. CASE host.step = "BEGIN"
  BY <1>1, <1>4, HostRequestFacts DEF FromClient, Before, Queries
<1>5. CASE host.step \in {"ERASE", "VERIFY", "ACTIVATE"}
  BY <1>1, <1>5 DEF FromClient, Before, Queries
<1>6. QED
  BY <1>2, <1>3, <1>4, <1>5 DEF Asking

\* A request joins the link: the client's current one, or a harmless query.
LEMMA ArriveStep ==
    ASSUME IInv, LinkInv, HostInv, ClientInv, NEW r \in Requests, Arrive(r),
           host'.step = host.step, host'.seq = host.seq, host'.session = host.session,
           host'.img = host.img, host'.offset = host.offset, disturbed' = disturbed,
           Harmless(r) \/ (host.step \in Asking /\ r = HostRequest)
    PROVE  ClientInv'
<1> USE DEF ClientInv
<1>1. UNCHANGED <<app, rec, core, job, reply, tx>>
  BY DEF Arrive, vars
<1>2. HostRequest' = HostRequest
  BY DEF HostRequest
<1>3. \A q : FromClient(q) => FromClient(q)'
  BY <1>2 DEF FromClient
<1>4. FromClient(r) \/ Harmless(r)
  BY RequestOfClient
<1>5. \A q : FromClient(q) => InOrder(q, r)
  BY DEF FromClient, InOrder, Harmless, Queries, Mutations, SessionOps
<1>6. r.op \in Mutations => host.step \in Asking /\ r = HostRequest /\ FromClient(r)
  BY <1>4 DEF Harmless, Queries, Mutations, SessionOps
<1>7. \A q \in Waiting : InOrder(q, r)
  BY <1>5 DEF OrderInv, InOrder, Harmless, Queries, Mutations, SessionOps
<1>8. LinkInOrder' /\ Waiting' \subseteq Waiting \cup {r}
  BY <1>7, ArriveOrder DEF OrderInv
<1>9. Answers' = Answers
  BY <1>1 DEF Answers
<1>10. OrderInv'
  <2>1. \A q \in Waiting' : FromClient(q)' \/ Harmless(q)
    BY <1>3, <1>4, <1>8 DEF OrderInv
  <2>2. job.pc # "idle" =>
           FromClient(job.req)' /\ \A q \in Waiting' : InOrder(job.req, q)
    <3>1. job.pc # "idle" => /\ FromClient(job.req)
                             /\ \A q \in Waiting : InOrder(job.req, q)
      BY DEF OrderInv
    <3>2. job.pc # "idle" => FromClient(job.req)' /\ InOrder(job.req, r)
      BY <1>1, <1>3, <1>5, <3>1
    <3>3. QED
      BY <1>8, <3>1, <3>2
  <2>3. core.cache # NoCache =>
           FromClient(core.cache.req)' /\ \A q \in Waiting' : InOrder(core.cache.req, q)
    <3>1. core.cache # NoCache =>
             /\ FromClient(core.cache.req)
             /\ \A q \in Waiting : InOrder(core.cache.req, q)
      BY DEF OrderInv
    <3>2. core.cache # NoCache => FromClient(core.cache.req)' /\ InOrder(core.cache.req, r)
      BY <1>1, <1>3, <1>5, <3>1
    <3>3. QED
      BY <1>8, <3>1, <3>2
  <2>4. QED
    BY <1>1, <1>8, <2>1, <2>2, <2>3 DEF OrderInv
<1>11. SessionInv'
  BY <1>1 DEF SessionInv
<1>12. r.op \in Mutations => HostRequest.op = host.step /\ HostRequest.seq = host.seq
  BY <1>6, HostRequestFacts
<1>13. Committed /\ (r.op \in Mutations => r.op = "ACTIVATE") => Committed'
  BY <1>1, <1>8 DEF Committed
<1>14. AnswerInv'
  <2>1. ASSUME NEW a \in Answers PROVE Truth(a)'
    <3>1. Truth(a)
      BY DEF AnswerInv
    <3>2. CASE a.op \notin Mutations
      BY <3>1, <3>2 DEF Truth
    <3>3. CASE a.op \in Mutations
      <4>1. /\ host'.step \notin {"INFO", "UID"}
            /\ host'.step \in Asking =>
                 /\ a.seq <= host'.seq
                 /\ a.op # "BEGIN" => host'.step # "BEGIN"
                 /\ a.op = "ACTIVATE" => host'.step = "ACTIVATE"
        BY <3>1, <3>3 DEF Truth
      <4>2. \A q \in Waiting' : q.op \in Mutations =>
                /\ a.seq <= q.seq
                /\ a.op # "BEGIN" => q.op # "BEGIN"
                /\ a.op = "ACTIVATE" => q.op = "ACTIVATE"
        BY <1>6, <1>8, <1>12, <3>1, <3>3 DEF Truth
      <4>3. a.op = "PROGRAM" /\ a.result = "OK" /\ core'.session # NoSession
                => a.value \in Nat /\ a.value <= core'.offset
        BY <1>1, <3>1, <3>3 DEF Truth
      <4>4. a.op = "ACTIVATE" /\ a.result = "OK" => Committed'
        BY <1>6, <1>12, <1>13, <3>1, <3>3 DEF Truth
      <4>5. QED
        BY <3>1, <4>1, <4>2, <4>3, <4>4 DEF Truth
    <3>4. QED
      BY <3>2, <3>3
  <2>2. host'.step = "acknowledged" => Committed'
    BY <1>6, <1>13 DEF AnswerInv, Asking
  <2>3. QED
    BY <1>9, <2>1, <2>2 DEF AnswerInv
<1>15. DownloadInv'
  <2>1. r.op = "BEGIN" => host.offset = 0
    BY <1>6, <1>12 DEF HostInv, Mutations
  <2>2. QED
    BY <1>1, <1>8, <2>1, Numbers DEF DownloadInv
<1>16. CalmInv'
  <2> SUFFICES ASSUME ~disturbed PROVE CalmInv'
    BY DEF CalmInv
  <2>1. Untouched => Untouched'
    <3>1. Untouched /\ r.op \in Mutations => r.op = "BEGIN"
      BY <1>6, <1>12 DEF Untouched, Asking, Mutations, SessionOps
    <3>2. QED
      BY <1>8, <1>9, <3>1 DEF Untouched
  <2>2. InStep => InStep'
    <3> SUFFICES ASSUME InStep PROVE InStep'
      OBVIOUS
    <3>1. \A q \in Waiting' : q.op \in Mutations =>
             q = core.cache.req \/ Succeeds(core.cache.req, q)
      BY <1>6, <1>8 DEF InStep
    <3>2. Settled(core.cache.req)'
      BY <1>1 DEF InStep, Settled
    <3>3. QED
      BY <1>1, <1>2, <1>9, <3>1, <3>2 DEF InStep, Succeeds
  <2>3. QED
    BY <1>1, <2>1, <2>2 DEF CalmInv
<1>17. QED
  BY <1>10, <1>11, <1>14, <1>15, <1>16

\* The client moves on, or gives up; the part does not notice.
LEMMA HostMoves ==
    ASSUME IInv, LinkInv, HostInv, ClientInv,
           UNCHANGED <<app, rec, core, job, ring, fifo, disturbed>>,
           Answers' \subseteq Answers,
           host'.session = host.session, host'.img = host.img, host'.seq \in Nat,
           host'.step \in {"INFO", "UID"} => host.step \in {"INFO", "UID"},
           host'.step \in Asking =>
              \A q : FromClient(q) => Before(q, HostRequest'),
           host'.step \in Asking /\ host.step \notin {"INFO", "UID"} =>
              /\ host.step \in Asking /\ host.step # "ACTIVATE"
              /\ host.seq <= host'.seq /\ host'.step # "BEGIN",
           host'.step = "acknowledged" => Committed,
           host'.offset # host.offset =>
              /\ \A r \in Waiting : r.op # "BEGIN"
              /\ core.session # NoSession => host'.offset <= core.offset,
           ~disturbed =>
              /\ host'.step \notin {"refused", "mismatch"}
              /\ core.session = NoSession => host'.step \in {"INFO", "UID", "BEGIN", "timeout"}
              /\ core.session # NoSession /\ host'.step \in Asking =>
                    Succeeds(core.cache.req, HostRequest')
    PROVE  ClientInv'
<1> USE DEF ClientInv
<1>1. Waiting' = Waiting /\ (LinkInOrder => LinkInOrder')
  BY SameOrder
<1>2. ASSUME NEW q, FromClient(q) PROVE FromClient(q)'
  <2>1. host'.step \notin {"INFO", "UID"}
    BY <1>2 DEF FromClient
  <2>2. host'.step \in Asking => Before(q, HostRequest')
    BY <1>2
  <2>3. QED
    BY <1>2, <2>1, <2>2 DEF FromClient
<1>3. OrderInv'
  <2>1. \A q \in Waiting' : FromClient(q)' \/ Harmless(q)
    BY <1>1, <1>2 DEF OrderInv
  <2>2. job.pc # "idle" =>
           FromClient(job.req)' /\ \A q \in Waiting' : InOrder(job.req, q)
    BY <1>1, <1>2 DEF OrderInv
  <2>3. core.cache # NoCache =>
           FromClient(core.cache.req)' /\ \A q \in Waiting' : InOrder(core.cache.req, q)
    BY <1>1, <1>2 DEF OrderInv
  <2>4. QED
    BY <1>1, <2>1, <2>2, <2>3 DEF OrderInv
<1>4. SessionInv'
  BY DEF SessionInv
<1>5. Committed => Committed'
  BY <1>1 DEF Committed
<1>6. AnswerInv'
  <2>1. ASSUME NEW a \in Answers PROVE Truth(a)'
    <3>1. Truth(a) /\ a.seq \in Nat /\ host.seq \in Nat
      BY AnswersType, Numbers DEF AnswerInv
    <3>2. CASE a.op \notin Mutations
      BY <3>1, <3>2 DEF Truth
    <3>3. CASE a.op \in Mutations
      <4>1. host.step \notin {"INFO", "UID"}
        BY <3>1, <3>3 DEF Truth
      <4>2. host'.step \notin {"INFO", "UID"}
        BY <4>1
      <4>3. host'.step \in Asking =>
              /\ a.seq <= host'.seq
              /\ a.op # "BEGIN" => host'.step # "BEGIN"
              /\ a.op = "ACTIVATE" => host'.step = "ACTIVATE"
        <5> SUFFICES ASSUME host'.step \in Asking
                     PROVE  /\ a.seq <= host'.seq
                            /\ a.op # "BEGIN" => host'.step # "BEGIN"
                            /\ a.op = "ACTIVATE" => host'.step = "ACTIVATE"
          OBVIOUS
        <5>1. /\ host.step \in Asking /\ host.step # "ACTIVATE"
              /\ host.seq <= host'.seq /\ host'.step # "BEGIN"
          BY <4>1
        <5>2. a.seq <= host.seq /\ a.op # "ACTIVATE"
          BY <3>1, <3>3, <5>1 DEF Truth
        <5>3. QED
          BY <3>1, <5>1, <5>2
      <4>4. QED
        BY <1>1, <1>5, <3>1, <3>3, <4>2, <4>3 DEF Truth
    <3>4. QED
      BY <3>2, <3>3
  <2>2. QED
    BY <1>5, <2>1 DEF AnswerInv
<1>7. DownloadInv'
  BY <1>1 DEF DownloadInv
<1>8. CalmInv'
  <2> SUFFICES ASSUME ~disturbed PROVE CalmInv'
    BY DEF CalmInv
  <2>1. core.session = NoSession => Untouched'
    BY <1>1 DEF CalmInv, Untouched
  <2>2. core.session # NoSession => InStep'
    <3> SUFFICES ASSUME core.session # NoSession PROVE InStep'
      OBVIOUS
    <3>1. InStep
      BY DEF CalmInv
    <3>2. host'.step \in Asking => Succeeds(core.cache.req, HostRequest')
      OBVIOUS
    <3>3. \A c, q : Succeeds(c, q)' <=> Succeeds(c, q)
      BY DEF Succeeds
    <3>4. Settled(core.cache.req)'
      BY <3>1 DEF InStep, Settled
    <3>5. QED
      BY <1>1, <3>1, <3>2, <3>3, <3>4 DEF InStep, Succeeds
  <2>3. QED
    BY <2>1, <2>2 DEF CalmInv
<1>9. QED
  BY <1>3, <1>4, <1>6, <1>7, <1>8

LEMMA GivesUpStep ==
    ASSUME IInv, LinkInv, HostInv, ClientInv, HostGivesUp
    PROVE  ClientInv'
<1>1. /\ host'.step = IF host.step = "ACTIVATE" THEN "unacknowledged" ELSE "timeout"
      /\ host'.session = host.session /\ host'.img = host.img /\ host'.seq = host.seq
      /\ host'.offset = host.offset /\ host.seq \in Nat /\ host.step \in Asking
  BY DEF HostGivesUp, HostInv
<1>2. UNCHANGED <<app, rec, core, job, ring, fifo, disturbed, reply, tx>>
  BY DEF HostGivesUp, allVars, vars, mainVars, linkVars
<1>3. Answers' = Answers
  BY <1>2 DEF Answers
<1>4. host'.step \notin Asking /\ host'.step \notin {"INFO", "UID", "acknowledged",
                                                     "refused", "mismatch"}
  BY <1>1 DEF Asking
<1>5. ~disturbed /\ core.session = NoSession => host'.step = "timeout"
  BY <1>1 DEF ClientInv, CalmInv, Untouched
<1>6. QED
  BY <1>1, <1>2, <1>3, <1>4, <1>5, HostMoves

\* Without a disturbance an answer to the current request is the right one.
LEMMA CalmAnswer ==
    ASSUME IInv, LinkInv, HostInv, ClientInv, ~disturbed, NEW a \in Answers,
           host.step \in Asking, a.op = host.step, a.seq = host.seq
    PROVE  /\ a.result = "OK" /\ a.value = Expected
           /\ host.step \in {"INFO", "UID"} => core.session = NoSession
           /\ host.step \notin {"INFO", "UID"} =>
                core.session # NoSession /\ core.cache.req = HostRequest
<1> USE DEF ClientInv
<1>1. Truth(a)
  BY DEF AnswerInv
<1>2. CASE host.step \in {"INFO", "UID"}
  <2>1. <<a.op, a.seq>> \in ClientQueries
    BY <1>2 DEF HostInv, ClientNumbers, ClientQueries, Asking
  <2>2. core.session = NoSession
    BY <1>2 DEF SessionInv, OrderInv, FromClient
  <2>3. QED
    BY <1>1, <1>2, <2>1, <2>2 DEF Truth, Expected
<1>3. CASE host.step \notin {"INFO", "UID"}
  <2> DEFINE c == core.cache.req
  <2>1. a.op \in Mutations
    BY <1>3 DEF Asking, Mutations, SessionOps
  <2>2. core.session # NoSession /\ InStep
    BY <2>1 DEF CalmInv, Untouched
  <2>3. /\ core.cache # NoCache /\ core.cache.reply.seq = c.seq
        /\ core.cache.reply.result = "OK" /\ c.seq \in Nat
    BY <2>2, Numbers DEF SessionInv
  <2>4. HostRequest.seq = host.seq /\ HostRequest.op = host.step /\ host.seq \in Nat
    BY HostRequestFacts, Numbers
  <2>5. HostRequest = c \/ HostRequest.seq = c.seq + 1
    BY <2>2 DEF InStep, Succeeds
  <2>6. a = core.cache.reply \/ a.seq < c.seq
    BY <2>1, <2>2 DEF InStep
  <2>7. a = core.cache.reply
    BY <2>3, <2>4, <2>5, <2>6
  <2>8. HostRequest = c
    BY <2>3, <2>4, <2>5, <2>7
  <2>9. Settled(HostRequest)
    BY <2>2, <2>8 DEF InStep
  <2>10. a.value = Expected
    <3>1. CASE host.step = "PROGRAM"
      <4>1. /\ HostRequest.offset = host.offset
            /\ HostRequest.data = Chunk(host.img, host.offset)
        BY <3>1, HostRequestFacts
      <4>2. Len(HostRequest.data) = HostChunk
        BY <3>1, <4>1, ChunkData, Numbers DEF HostInv, HostChunk
      <4>3. a.value = HostRequest.offset + Len(HostRequest.data)
        BY <2>4, <2>7, <2>9, <3>1 DEF Settled
      <4>4. QED
        BY <3>1, <4>1, <4>2, <4>3 DEF Expected
    <3>2. CASE host.step # "PROGRAM"
      BY <1>3, <2>4, <2>7, <2>9, <3>2 DEF Settled, Expected, Asking
    <3>3. QED
      BY <3>1, <3>2
  <2>11. QED
    BY <1>3, <2>2, <2>3, <2>7, <2>8, <2>10
<1>4. QED
  BY <1>2, <1>3

\* The request after an answered one.
LEMMA NextRequest ==
    ASSUME HostInv, HostInv', host.step \in Asking, Advance, host'.step \in Asking
    PROVE  /\ HostRequest'.op = host'.step /\ HostRequest'.seq = host.seq + 1
           /\ host.step # "ACTIVATE"
           /\ host.step = "UID" <=> host'.step = "BEGIN"
           /\ host.step = "INFO" <=> host'.step = "UID"
           /\ host'.step # "INFO"
           /\ host.step \notin {"INFO", "UID"} => Succeeds(HostRequest, HostRequest')
<1>1. /\ HostRequest.op = host.step /\ HostRequest.seq = host.seq
      /\ host.step = "PROGRAM" => /\ HostRequest.offset = host.offset
                                  /\ HostRequest.data = Chunk(host.img, host.offset)
  BY HostRequestFacts
<1>2. /\ HostRequest'.op = host'.step /\ HostRequest'.seq = host'.seq
      /\ host'.step = "PROGRAM" => HostRequest'.offset = host'.offset
  BY DEF HostRequest, ClientRequest
<1>3. /\ host'.seq = host.seq + 1 /\ host'.offset = NextOffset
      /\ host'.step = After(host.step, NextOffset)
  BY AdvanceFacts
<1>4. host.step = "PROGRAM" =>
         /\ NextOffset = HostRequest.offset + Len(HostRequest.data)
         /\ NextOffset \in Nat /\ NextOffset <= Size[host.img]
         /\ Size[host.img] \in Nat
  <2> SUFFICES ASSUME host.step = "PROGRAM"
               PROVE  /\ NextOffset = HostRequest.offset + Len(HostRequest.data)
                      /\ NextOffset \in Nat /\ NextOffset <= Size[host.img]
                      /\ Size[host.img] \in Nat
    OBVIOUS
  <2>1. host.img \in Offered /\ host.offset \in Nat /\ host.offset < Size[host.img]
    BY DEF HostInv
  <2>2. Len(Chunk(host.img, host.offset)) = HostChunk
        /\ HostChunk \in Nat /\ host.offset + HostChunk <= Size[host.img]
    BY <2>1, ChunkData, ChunkFacts DEF HostChunk
  <2>3. Size[host.img] \in Nat
    BY <2>1, SizeNat, HostAssumption
  <2>4. QED
    BY <1>1, <2>1, <2>2, <2>3 DEF NextOffset
<1>5. host.step = "ERASE" => NextOffset = 0
  BY DEF NextOffset, HostInv
<1>6. host.step \notin {"INFO", "UID"} => Succeeds(HostRequest, HostRequest')
  BY <1>1, <1>2, <1>3, <1>4, <1>5 DEF Succeeds, After, Asking
<1>7. QED
  BY <1>2, <1>3, <1>6 DEF After, Asking

\* The client reads an answer the part held.
LEMMA HeardStep ==
    ASSUME IInv, LinkInv, HostInv, HostInv', ClientInv,
           UNCHANGED <<app, rec, core, job, ring, fifo, disturbed>>,
           Answers' \subseteq Answers, NEW a \in Answers, host' = Hear(a)
    PROVE  ClientInv'
<1> USE DEF ClientInv
<1>1. CASE host' = host
  <2>1. Waiting' \subseteq Waiting /\ LinkInOrder'
    BY SameOrder DEF OrderInv
  <2>2. QED
    BY <1>1, <2>1, QuietStep
<1>2. CASE host.step \in Asking /\ a.op = host.step /\ a.seq = host.seq
  <2>1. ASSUME NEW step \in {"refused", "mismatch"}, host' = [host EXCEPT !.step = step],
               a.result # "OK" \/ a.value # Expected
        PROVE  ClientInv'
    <3>1. /\ host'.step \in {"refused", "mismatch"} /\ host'.session = host.session
          /\ host'.img = host.img /\ host'.seq = host.seq /\ host'.offset = host.offset
          /\ host.seq \in Nat
      BY <2>1, Numbers DEF HostInv
    <3>2. disturbed
      BY <1>2, <2>1, CalmAnswer
    <3>3. host'.step \notin Asking
      BY <3>1 DEF Asking
    <3>4. QED
      BY <3>1, <3>2, <3>3, HostMoves
  <2>2. CASE a.result = "OK" /\ a.value = Expected /\ Advance
    <3>1. /\ host'.session = host.session /\ host'.img = host.img
          /\ host'.seq = host.seq + 1 /\ host.seq \in Nat /\ host'.seq \in Nat
          /\ host.seq <= host'.seq
          /\ host'.offset = NextOffset
          /\ host.step # "PROGRAM" => host'.offset = host.offset
          /\ host'.step = After(host.step, NextOffset)
      BY <1>2, <2>2, AdvanceFacts, Numbers
    <3>2. host'.step \in Asking =>
           /\ HostRequest'.op = host'.step /\ HostRequest'.seq = host.seq + 1
           /\ host.step # "ACTIVATE"
           /\ host.step = "UID" <=> host'.step = "BEGIN"
           /\ host.step = "INFO" <=> host'.step = "UID"
           /\ host'.step # "INFO"
           /\ host.step \notin {"INFO", "UID"} => Succeeds(HostRequest, HostRequest')
      BY <1>2, <2>2, NextRequest
    <3>3. HostRequest.op = host.step /\ HostRequest.seq = host.seq
      BY <1>2, HostRequestFacts
    <3>4. Truth(a)
      BY DEF AnswerInv
    <3>5. host'.step \in Asking => \A q : FromClient(q) => Before(q, HostRequest')
      <4> SUFFICES ASSUME host'.step \in Asking, NEW q, FromClient(q)
                   PROVE  Before(q, HostRequest')
        OBVIOUS
      <4>1. Before(q, HostRequest) /\ host.step \notin {"INFO", "UID"} /\ q.seq \in Nat
        BY <1>2, Numbers DEF FromClient
      <4>2. HostRequest'.op # "BEGIN" /\ host.step # "ACTIVATE"
        BY <3>2, <4>1
      <4>3. q.seq <= host.seq /\ q.op # "ACTIVATE"
        BY <3>1, <3>3, <4>1, <4>2 DEF Before
      <4>4. q.seq < HostRequest'.seq
        BY <3>1, <3>2, <4>1, <4>3
      <4>5. QED
        BY <4>2, <4>3, <4>4 DEF Before
    <3>6. host'.step \in {"INFO", "UID"} => host.step \in {"INFO", "UID"}
      BY <3>2 DEF Asking
    <3>7. host'.step \in Asking /\ host.step \notin {"INFO", "UID"} =>
              /\ host.step \in Asking /\ host.step # "ACTIVATE"
              /\ host.seq <= host'.seq /\ host'.step # "BEGIN"
      BY <1>2, <3>1, <3>2
    <3>8. host'.step = "acknowledged" => Committed
      <4>1. host'.step = "acknowledged" => host.step = "ACTIVATE"
        BY <1>2, <3>1 DEF After, Asking
      <4>2. QED
        BY <1>2, <2>2, <3>4, <4>1 DEF Truth, Mutations, SessionOps
    <3>9. host'.offset # host.offset =>
              /\ \A r \in Waiting : r.op # "BEGIN"
              /\ core.session # NoSession => host'.offset <= core.offset
      <4> SUFFICES ASSUME host.step = "PROGRAM"
                   PROVE  /\ \A r \in Waiting : r.op # "BEGIN"
                          /\ core.session # NoSession => NextOffset <= core.offset
        BY <3>1
      <4>1. a.op = "PROGRAM" /\ a.op \in Mutations
        BY <1>2 DEF Mutations, SessionOps
      <4>2. \A r \in Waiting : r.op # "BEGIN"
        BY <3>4, <4>1 DEF Truth, Mutations
      <4>3. core.session # NoSession => a.value <= core.offset
        BY <2>2, <3>4, <4>1 DEF Truth
      <4>4. a.value = NextOffset
        BY <2>2 DEF Expected, NextOffset
      <4>5. QED
        BY <4>2, <4>3, <4>4
    <3>10. ~disturbed =>
              /\ host'.step \notin {"refused", "mismatch"}
              /\ core.session = NoSession => host'.step \in {"INFO", "UID", "BEGIN", "timeout"}
              /\ core.session # NoSession /\ host'.step \in Asking =>
                    Succeeds(core.cache.req, HostRequest')
      <4> SUFFICES ASSUME ~disturbed
                   PROVE  /\ host'.step \notin {"refused", "mismatch"}
                          /\ core.session = NoSession =>
                                host'.step \in {"INFO", "UID", "BEGIN", "timeout"}
                          /\ core.session # NoSession /\ host'.step \in Asking =>
                                Succeeds(core.cache.req, HostRequest')
        OBVIOUS
      <4>1. /\ host.step \in {"INFO", "UID"} => core.session = NoSession
            /\ host.step \notin {"INFO", "UID"} =>
                 core.session # NoSession /\ core.cache.req = HostRequest
        BY <1>2, CalmAnswer
      <4>2. host'.step \notin {"refused", "mismatch"}
        BY <1>2, <3>1 DEF After, Asking
      <4>3. core.session = NoSession => host'.step \in {"UID", "BEGIN"}
        BY <3>1, <4>1 DEF After
      <4>4. QED
        BY <3>2, <4>1, <4>2, <4>3
    <3>11. QED
      BY <3>1, <3>5, <3>6, <3>7, <3>8, <3>9, <3>10, HostMoves
  <2>3. CASE host' = host
    BY <1>1, <2>3
  <2>4. /\ host' = Hear(a) /\ HostInv
    OBVIOUS
  <2>5. QED
    BY <2>1, <2>2, <2>3, <2>4, HearCases
<1>3. QED
  BY <1>1, <1>2, HearCases

-----------------------------------------------------------------------------
(***************************************************************************)
(* The part's steps.                                                       *)
(***************************************************************************)

\* The fields an accepted mutation leaves.
LEMMA AcceptedCore ==
    ASSUME NEW r \in Requests, NEW c \in CoreSet,
           NEW v \in {NoValue} \cup (0 .. Capacity) \cup Images, Accept(r, c, v)
    PROVE  /\ core'.state = c.state /\ core'.session = c.session
           /\ core'.image = c.image /\ core'.offset = c.offset /\ core'.seq = r.seq
           /\ reply' = Answer(r, "OK", v)
           /\ core'.cache = [req |-> r, reply |-> Answer(r, "OK", v)]
           /\ core'.cache # NoCache
<1>1. Answer(r, "OK", v) \in ReplySet
  BY AnswerType DEF Results
<1>2. [req |-> r, reply |-> Answer(r, "OK", v)] \in [req : Requests, reply : ReplySet]
  BY <1>1
<1>3. reply' = Answer(r, "OK", v)
  BY DEF Accept
<1>4. core'.cache = [req |-> r, reply |-> Answer(r, "OK", v)] /\ core'.seq = r.seq
  BY DEF Accept, CoreSet
<1>5. /\ core'.state = c.state /\ core'.session = c.session
      /\ core'.image = c.image /\ core'.offset = c.offset
  BY AcceptStep
<1>6. QED
  BY <1>2, <1>3, <1>4, <1>5, CacheAssumption

\* Over a committed update the core accepts nothing more of this client.
LEMMA CommittedRefuses ==
    ASSUME IInv, HostInv, ClientInv, Committed, NEW r \in Waiting, r \in Requests,
           r.op \in Mutations, Refusal(r) = "OK"
    PROVE  FALSE
<1> USE DEF ClientInv
<1>1. r.op = "ACTIVATE" /\ r.op \in SessionOps
  BY DEF Committed, SessionOps
<1>2. r.session = core.session /\ r.session \in Sessions /\ r.seq > core.seq
  BY <1>1, NotRefused
<1>3. core.session # NoSession /\ core.seq \in Nat /\ r.seq \in Nat
  BY <1>2, RequestAssumption, Numbers
<1>4. core.cache # NoCache /\ core.cache.req.op = "ACTIVATE" /\ core.cache.req.seq = core.seq
  BY <1>3 DEF Committed, SessionInv
<1>5. InOrder(core.cache.req, r)
  BY <1>4 DEF OrderInv
<1>6. r = core.cache.req
  BY <1>1, <1>4, <1>5 DEF InOrder, Before, Mutations
<1>7. QED
  BY <1>2, <1>3, <1>4, <1>6

\* The image is whole once every chunk is in.
LEMMA WholeImage ==
    ASSUME IInv, HostInv, ClientInv, core.session # NoSession,
           core.state \in {"RECEIVING", "VERIFIED"}, core.offset = Size[host.img]
    PROVE  ImageValid(app, core.image)
<1>1. core.image = host.img
  BY DEF ClientInv, SessionInv
<1>2. \A d \in 0 .. Size[host.img] - 1 : app[d] = Content[host.img][d]
  BY DEF ClientInv, DownloadInv
<1>3. VectorsValid(Content[host.img], Size[host.img]) /\ 0 \in 0 .. Size[host.img] - 1
  BY Numbers, HostAssumption
<1>4. QED
  BY <1>1, <1>2, <1>3 DEF ImageValid, VectorsValid, CrcMatches

\* Where the double words of a chunk lie.
LEMMA ChunkSpan ==
    ASSUME NEW o \in Nat, NEW n \in Nat, NEW size \in Nat, NEW k \in 1 .. n,
           o + n <= size
    PROVE  o + k - 1 \in 0 .. size - 1 /\ o + k - 1 >= o
  OBVIOUS

\* Without a disturbance the client's next mutation succeeds.
LEMMA CalmAccepts ==
    ASSUME IInv, ContentInv, HostInv, ClientInv, ~disturbed, job = Idle,
           NEW r \in Waiting, r \in Requests, r.op \in Mutations, ~Cached(r)
    PROVE  /\ Refusal(r) = "OK"
           /\ core.session # NoSession => Succeeds(core.cache.req, r)
           /\ r.op = "PROGRAM" =>
                /\ r.offset = core.offset
                /\ \A k \in 1 .. Len(r.data) : app[r.offset + k - 1] = Blank
           /\ r.op = "VERIFY" => ImageValid(app, core.image)
           /\ r.op = "ACTIVATE" => ImageValid(app, core.image) /\ rec = BlankRecord
<1> USE DEF ClientInv
<1>1. FromClient(r)
  BY DEF OrderInv, Harmless, Queries, Mutations, SessionOps
<1>2. r.framed /\ r.session = host.session /\ r.session # NoSession /\ r.seq \in Nat
  BY <1>1, Numbers DEF FromClient
<1>3. job.pc = "idle"
  BY IdleType
<1>4. CASE core.session = NoSession
  <2>1. r.op = "BEGIN"
    BY <1>4 DEF CalmInv, Untouched
  <2>2. r.img = host.img /\ r.identity = "ours" /\ LegalSize(Size[host.img])
    BY <1>1, <2>1, Numbers, HostAssumption DEF FromClient, VectorsValid
  <2>3. Refusal(r) = "OK"
    BY <1>2, <1>4, <2>1, <2>2 DEF Refusal, BeginRefusal, Queries, SessionOps
  <2>4. QED
    BY <1>4, <2>1, <2>3
<1>5. CASE core.session # NoSession
  <2> DEFINE c == core.cache.req
  <2>1. InStep /\ core.cache # NoCache /\ core.seq = c.seq /\ core.session = host.session
        /\ core.image = host.img
    BY <1>5 DEF CalmInv, SessionInv
  <2>2. c.session = host.session /\ c.seq \in Nat
    BY <2>1, Numbers DEF OrderInv, FromClient
  <2>3. r # c
    BY <1>2, <2>1, <2>2 DEF Cached
  <2>4. Succeeds(c, r) /\ Settled(c)
    BY <2>1, <2>3 DEF InStep
  <2>5. r.seq = core.seq + 1 /\ ~(r.seq <= core.seq)
    BY <1>2, <2>1, <2>2, <2>4 DEF Succeeds
  <2>6. /\ r.op = "PROGRAM" => core.state = "RECEIVING" /\ core.offset = r.offset
        /\ r.op = "VERIFY" => core.state = "RECEIVING" /\ core.offset = Size[host.img]
        /\ r.op = "ACTIVATE" => core.state = "VERIFIED" /\ rec = BlankRecord
        /\ r.op = "ERASE" => core.state = "PREPARED"
        /\ r.op \in SessionOps /\ r.op # "BEGIN" /\ r.op # "ABORT"
    BY <1>3, <2>4 DEF Succeeds, Settled, SessionOps
  <2>7. CASE r.op = "PROGRAM"
    <3>1. /\ Len(r.data) \in 1 .. MaxChunk /\ r.offset \in Nat
          /\ ~(r.offset + Len(r.data) > Size[core.image])
          /\ PageOf[r.offset + Len(r.data) - 1] = PageOf[r.offset]
          /\ Len(r.data) \in Nat /\ Size[host.img] \in Nat
      BY <1>1, <2>1, <2>7, Numbers, RequestAssumption DEF FromClient
    <3>2. ProgramRefusal(r) = "OK"
      BY <2>6, <2>7, <3>1 DEF ProgramRefusal
    <3>3. Refusal(r) = "OK"
      BY <1>2, <2>1, <2>5, <2>7, <3>2
      DEF Refusal, SessionRefusal, StateRefusal, Queries, SessionOps
    <3>4. ASSUME NEW k \in 1 .. Len(r.data) PROVE app[r.offset + k - 1] = Blank
      <4>1. LegalSize(Size[core.image])
        BY <2>6, <2>7 DEF IInv, SessionImage
      <4>2. r.offset + k - 1 \in Dwords /\ r.offset + k - 1 >= core.offset + 0
        <5>1. /\ r.offset + Len(r.data) <= Size[host.img] /\ Size[host.img] <= Capacity
              /\ Capacity \in Nat /\ core.offset = r.offset
          BY <2>1, <2>6, <2>7, <3>1, <4>1, CapacityAssumption DEF LegalSize
        <5>2. r.offset + k - 1 \in 0 .. Capacity - 1 /\ r.offset + k - 1 >= r.offset
          <6>1. r.offset + Len(r.data) <= Capacity
            BY <3>1, <5>1
          <6>2. QED
            BY <3>1, <5>1, <6>1, ChunkSpan
        <5>3. QED
          BY <3>1, <5>1, <5>2 DEF Dwords
      <4>3. QED
        BY <1>3, <2>6, <2>7, <4>2 DEF ContentInv, TailBlank
    <3>5. QED
      BY <2>4, <2>6, <2>7, <3>3, <3>4
  <2>8. CASE r.op # "PROGRAM"
    <3>1. StateRefusal(r) = "OK"
      BY <2>1, <2>6, <2>8 DEF StateRefusal, SessionOps
    <3>2. Refusal(r) = "OK"
      BY <1>2, <2>1, <2>5, <2>6, <2>8, <3>1
      DEF Refusal, SessionRefusal, Queries, SessionOps
    <3>3. r.op = "VERIFY" => ImageValid(app, core.image)
      BY <1>5, <2>6, WholeImage
    <3>4. r.op = "ACTIVATE" => ImageValid(app, core.image)
      BY <2>6 DEF IInv, StateInv
    <3>5. QED
      BY <2>4, <2>6, <2>8, <3>2, <3>3, <3>4
  <2>9. QED
    BY <2>7, <2>8
<1>6. QED
  BY <1>4, <1>5

\* A request the loop takes from the link, as the lemmas above expect it.
Taken(r) ==
    /\ r \in Requests /\ r \in Waiting
    /\ Waiting' \subseteq Waiting /\ LinkInOrder'
    /\ \A q \in Waiting' : q \in Requests /\ InOrder(r, q)

\* Refused, contradicted by the cache, or failed before any flash work.
LEMMA TakenRefused ==
    ASSUME IInv, ContentInv, HostInv, ClientInv, host' = host, tx' = tx,
           NEW r, Taken(r), job = Idle, UNCHANGED <<app, rec, job>>,
           UNCHANGED core \/ \E res : Reject(r, res) \/ Fail(r, res),
           reply'.op = r.op, reply'.seq = r.seq,
           reply'.result = "OK" => r.op \in Queries,
           <<r.op, r.seq>> \in ClientQueries =>
              reply'.result = "OK" /\ reply'.value = NoValue,
           ~disturbed' => ~disturbed /\ r.op \notin Mutations,
           r.op \in Queries => core'.state = core.state
    PROVE  ClientInv'
<1>1. core \in CoreSet /\ job.pc = "idle"
  BY Numbers, IdleType
<1>2. /\ core'.session = core.session /\ core'.image = core.image
      /\ core'.offset = core.offset /\ core'.seq = core.seq /\ core'.cache = core.cache
      /\ core'.state \in {core.state, "ERROR_STATE"}
  BY <1>1 DEF Reject, Fail, CoreSet
<1>3. FromClient(r) \/ Harmless(r)
  BY DEF Taken, ClientInv, OrderInv
<1>4. r.op \notin Mutations => r.op \in Queries
  BY <1>3 DEF FromClient, Harmless, Mutations, SessionOps
<1>5. QED
  BY <1>1, <1>2, <1>3, <1>4, RefuseStep DEF Taken

LEMMA TakenReplay ==
    ASSUME IInv, ContentInv, HostInv, ClientInv, host' = host, tx' = tx,
           NEW r, Taken(r), job = Idle, reply = NoReply, Replay(r),
           ~disturbed' => ~disturbed
    PROVE  ClientInv'
<1> USE DEF ClientInv
<1>1. r.op \in Mutations /\ core.cache # NoCache /\ r.seq = core.seq
      /\ UNCHANGED <<app, rec, core, job>>
  BY DEF Replay, Cached
<1>2. CASE r = core.cache.req
  <2>1. reply' = core.cache.reply
    BY <1>2 DEF Replay
  <2>2. Answers' \subseteq Answers
    BY <1>1, <2>1 DEF Answers
  <2>3. QED
    BY <1>1, <2>2, QuietStep DEF Taken
<1>3. CASE r # core.cache.req
  <2>1. reply' = Answer(r, "CONFLICT", NoValue)
    BY <1>3 DEF Replay
  <2>2. /\ reply'.op = r.op /\ reply'.seq = r.seq /\ reply'.result # "OK"
        /\ <<r.op, r.seq>> \notin ClientQueries /\ r.op \notin Queries
    BY <1>1, <2>1 DEF Answer, ClientQueries, Queries, Mutations, SessionOps
  <2>3. disturbed
    <3>1. core.session # NoSession /\ core.seq = core.cache.req.seq
      BY <1>1 DEF SessionInv
    <3>2. ~disturbed => r = core.cache.req \/ r.seq = core.cache.req.seq + 1
      BY <1>1, <3>1 DEF CalmInv, InStep, Succeeds, Taken
    <3>3. core.seq \in Nat
      BY Numbers
    <3>4. QED
      BY <1>1, <1>3, <3>1, <3>2, <3>3
  <2>4. QED
    BY <1>1, <2>2, <2>3, TakenRefused
<1>4. QED
  BY <1>2, <1>3

LEMMA TakenBegin ==
    ASSUME IInv, LinkInv, ContentInv, HostInv, ClientInv, host' = host, tx' = tx,
           NEW r, Taken(r), job = Idle, Refusal(r) = "OK", Begin(r),
           ~disturbed' => ~disturbed
    PROVE  ClientInv'
<1> USE DEF ClientInv
<1> DEFINE c == [core EXCEPT !.image = r.img, !.session = r.session,
                             !.state = "PREPARED", !.offset = 0,
                             !.activatePending = FALSE]
<1>1. r \in Requests /\ r.op = "BEGIN" /\ r.op \in Mutations /\ job.pc = "idle" /\ job' = job
  BY IdleType DEF Taken, Begin, Mutations
<1>2. FromClient(r) /\ ~Committed
  BY <1>1, CommittedRefuses DEF Taken, OrderInv, Harmless, Queries
<1>3. core.session = NoSession
  <2>1. BeginRefusal(r) = "OK"
    BY <1>1 DEF Refusal, Queries, SessionOps
  <2>2. QED
    BY <2>1 DEF BeginRefusal
<1>4. r.img = host.img /\ r.session = host.session /\ host.img \in Images
      /\ host.session \in Sessions /\ core \in CoreSet
  BY <1>1, <1>2, Numbers DEF FromClient
<1>5. c \in CoreSet /\ 0 \in {NoValue} \cup (0 .. Capacity) \cup Images
  <2>1. 0 \in 0 .. Capacity /\ "PREPARED" \in States
    BY CapacityAssumption DEF States
  <2>2. r.img \in Images /\ r.session \in Sessions
    BY <1>4
  <2>3. QED
    BY <1>4, <2>1, <2>2 DEF CoreSet
<1>6. c.state = "PREPARED" /\ c.session = host.session /\ c.image = host.img /\ c.offset = 0
  BY <1>4 DEF CoreSet
<1>7. Accept(r, c, 0)
  BY DEF Begin
<1> HIDE DEF c
<1>8. /\ core'.state = "PREPARED" /\ core'.session = host.session
      /\ core'.image = host.img /\ core'.offset = 0 /\ core'.seq = r.seq
      /\ reply' = Answer(r, "OK", 0)
      /\ core'.cache = [req |-> r, reply |-> Answer(r, "OK", 0)]
      /\ core'.cache # NoCache
  BY <1>1, <1>5, <1>6, <1>7, AcceptedCore
<1>9. Settled(r)'
  BY <1>1, <1>8 DEF Settled, Answer
<1>10. QED
  BY <1>1, <1>2, <1>3, <1>8, <1>9, AcceptedStep DEF Taken

LEMMA TakenProgramAgain ==
    ASSUME IInv, LinkInv, ContentInv, HostInv, ClientInv, host' = host, tx' = tx,
           NEW r, Taken(r), job = Idle, Refusal(r) = "OK", ProgramAgain(r), ~Cached(r),
           ~disturbed' => ~disturbed
    PROVE  ClientInv'
<1> USE DEF ClientInv
<1>1. /\ r \in Requests /\ r.op = "PROGRAM" /\ r.op \in Mutations /\ r.op \in SessionOps
      /\ job.pc = "idle" /\ UNCHANGED <<app, rec, job>>
  BY IdleType DEF Taken, ProgramAgain, Mutations, SessionOps
<1>2. FromClient(r) /\ ~Committed
  BY <1>1, CommittedRefuses DEF Taken, OrderInv, Harmless, Queries
<1>3. core.session # NoSession /\ core.session = host.session /\ core.image = host.img
  BY <1>1, NotRefused, RequestAssumption DEF SessionInv
<1>4. core \in CoreSet /\ core.offset \in Nat
      /\ core.offset \in {NoValue} \cup (0 .. Capacity) \cup Images
  BY Numbers DEF CoreSet
<1>5. /\ core'.state = core.state /\ core'.session = host.session
      /\ core'.image = host.img /\ core'.offset = core.offset /\ core'.seq = r.seq
      /\ reply' = Answer(r, "OK", core.offset)
      /\ core'.cache = [req |-> r, reply |-> Answer(r, "OK", core.offset)]
      /\ core'.cache # NoCache
  BY <1>1, <1>3, <1>4, AcceptedCore DEF ProgramAgain
<1>6. disturbed
  <2>1. r.offset < core.offset /\ r.offset \in Nat
    BY <1>1, Numbers DEF ProgramAgain
  <2>2. ~disturbed => r.offset = core.offset
    BY <1>1, CalmAccepts DEF Taken
  <2>3. QED
    BY <1>4, <2>1, <2>2
<1>7. core'.state \in {"RECEIVING", "VERIFIED"} =>
         \A d \in 0 .. core'.offset - 1 : app'[d] = Content[host.img][d]
  BY <1>1, <1>3, <1>5 DEF DownloadInv
<1>8. core.offset <= core'.offset
  BY <1>4, <1>5
<1>9. QED
  BY <1>1, <1>2, <1>3, <1>4, <1>5, <1>6, <1>7, <1>8, AcceptedStep DEF Taken

LEMMA TakenVerify ==
    ASSUME IInv, LinkInv, ContentInv, HostInv, ClientInv, host' = host, tx' = tx,
           NEW r, Taken(r), job = Idle, Refusal(r) = "OK", Verify(r), ~Cached(r),
           ~disturbed' => ~disturbed
    PROVE  ClientInv'
<1> USE DEF ClientInv
<1>1. /\ r \in Requests /\ r.op = "VERIFY" /\ r.op \in Mutations /\ r.op \in SessionOps
      /\ job.pc = "idle" /\ UNCHANGED <<app, rec, job>>
  BY IdleType DEF Taken, Verify, Mutations, SessionOps
<1>2. FromClient(r) /\ ~Committed
  BY <1>1, CommittedRefuses DEF Taken, OrderInv, Harmless, Queries
<1>3. core.session # NoSession /\ core.session = host.session /\ core.image = host.img
      /\ StateRefusal(r) = "OK"
  BY <1>1, NotRefused, RequestAssumption DEF SessionInv
<1>4. core.state = "RECEIVING" /\ rec = BlankRecord
  BY <1>1, <1>3 DEF StateRefusal, IInv, StateInv
<1>5. ~disturbed => Succeeds(core.cache.req, r) /\ ImageValid(app, core.image)
  BY <1>1, <1>3, CalmAccepts DEF Taken
<1>6. CASE ~ImageValid(app, core.image)
  <2>1. Fail(r, "VERIFY_FAIL")
    BY <1>6 DEF Verify
  <2>2. /\ reply'.op = r.op /\ reply'.seq = r.seq /\ reply'.result # "OK"
        /\ <<r.op, r.seq>> \notin ClientQueries /\ r.op \notin Queries
    BY <1>1, <2>1 DEF Fail, Answer, ClientQueries, Queries
  <2>3. QED
    BY <1>1, <1>5, <1>6, <2>1, <2>2, TakenRefused
<1>7. CASE ImageValid(app, core.image)
  <2> DEFINE c == [core EXCEPT !.state = "VERIFIED"]
  <2>1. core \in CoreSet /\ core.offset \in Nat /\ host.img \in Images
    BY Numbers
  <2>2. c \in CoreSet /\ host.img \in {NoValue} \cup (0 .. Capacity) \cup Images
    BY <2>1 DEF CoreSet, States
  <2>3. c.state = "VERIFIED" /\ c.session = core.session /\ c.image = core.image
        /\ c.offset = core.offset
    BY <2>1 DEF CoreSet
  <2>4. Accept(r, c, host.img)
    BY <1>3, <1>7 DEF Verify
  <2> HIDE DEF c
  <2>5. /\ core'.state = "VERIFIED" /\ core'.session = host.session
        /\ core'.image = host.img /\ core'.offset = core.offset /\ core'.seq = r.seq
        /\ reply' = Answer(r, "OK", host.img)
        /\ core'.cache = [req |-> r, reply |-> Answer(r, "OK", host.img)]
        /\ core'.cache # NoCache
    BY <1>1, <1>3, <2>2, <2>3, <2>4, AcceptedCore
  <2>6. Settled(r)'
    BY <1>1, <1>4, <2>5 DEF Settled, Answer
  <2>7. \A d \in 0 .. core'.offset - 1 : app'[d] = Content[host.img][d]
    BY <1>1, <1>3, <1>4, <2>5 DEF DownloadInv
  <2>8. core.offset <= core'.offset
    BY <2>1, <2>5
  <2>9. QED
    BY <1>1, <1>2, <1>3, <1>5, <2>1, <2>5, <2>6, <2>7, <2>8, AcceptedStep DEF Taken
<1>8. QED
  BY <1>6, <1>7

\* A request that needs the flash starts its job, or fails on what is there.
LEMMA TakenJob ==
    ASSUME IInv, LinkInv, ContentInv, HostInv, ClientInv, host' = host, tx' = tx,
           NEW r, Taken(r), job = Idle, reply = NoReply, Refusal(r) = "OK", ~Cached(r),
           Erase(r) \/ Program(r) \/ Activate(r),
           ~disturbed' => ~disturbed
    PROVE  ClientInv'
<1> USE DEF ClientInv
<1>1. /\ r \in Requests /\ r.op \in {"ERASE", "PROGRAM", "ACTIVATE"}
      /\ r.op \in Mutations /\ r.op \in SessionOps
      /\ job.pc = "idle" /\ UNCHANGED <<app, rec>>
  BY IdleType DEF Taken, Erase, Program, Activate, Mutations, SessionOps
<1>2. FromClient(r) /\ ~Committed
  BY <1>1, CommittedRefuses DEF Taken, OrderInv, Harmless, Queries
<1>3. core.session # NoSession
  BY <1>1, NotRefused, RequestAssumption
<1>4. ~disturbed => Succeeds(core.cache.req, r)
  BY <1>1, <1>3, CalmAccepts DEF Taken
<1>5. ASSUME NEW res, res # "OK", Fail(r, res), UNCHANGED job, disturbed
      PROVE  ClientInv'
  <2>1. /\ reply'.op = r.op /\ reply'.seq = r.seq /\ reply'.result # "OK"
        /\ <<r.op, r.seq>> \notin ClientQueries /\ r.op \notin Queries
    BY <1>1, <1>5 DEF Fail, Answer, ClientQueries, Queries
  <2>2. QED
    BY <1>1, <1>5, <2>1, TakenRefused
<1>6. ASSUME NEW pc \in PCs \ {"idle"}, job' = Job(pc, r), UNCHANGED <<core, reply>>
      PROVE  ClientInv'
  <2>1. job'.pc # "idle" /\ job'.req = r
    BY <1>1, <1>6, IdleType
  <2>2. QED
    BY <1>1, <1>2, <1>3, <1>4, <1>6, <2>1, StartStep DEF Taken
<1>7. CASE Erase(r)
  BY <1>6, <1>7 DEF Erase, PCs
<1>8. CASE Program(r)
  <2>1. ~disturbed => \A k \in 1 .. Len(r.data) : app[r.offset + k - 1] = Blank
    BY <1>1, <1>8, CalmAccepts DEF Taken, Program
  <2>2. QED
    BY <1>5, <1>6, <1>8, <2>1 DEF Program, PCs
<1>9. CASE Activate(r)
  <2>1. ~disturbed => ImageValid(app, core.image) /\ rec = BlankRecord
    BY <1>1, <1>9, CalmAccepts DEF Taken, Activate
  <2>2. QED
    BY <1>5, <1>6, <1>9, <2>1 DEF Activate, PCs
<1>10. QED
  BY <1>7, <1>8, <1>9

LEMMA TakenStep ==
    ASSUME IInv, LinkInv, ContentInv, HostInv, ClientInv, host' = host, tx' = tx,
           NEW r, Taken(r), Request(r), ~disturbed' => ~disturbed
    PROVE  ClientInv'
<1> USE DEF ClientInv
<1>1. job = Idle /\ reply = NoReply /\ r \in Requests
  BY DEF Request, Taken
<1>2. FromClient(r) \/ Harmless(r)
  BY DEF Taken, OrderInv
<1>3. CASE Replay(r)
  BY <1>1, <1>3, TakenReplay
<1>4. CASE ~Cached(r) /\ Refused(r)
  <2>1. /\ reply'.op = r.op /\ reply'.seq = r.seq /\ reply'.result = Refusal(r)
        /\ Refusal(r) # "OK" /\ Reject(r, Refusal(r)) /\ UNCHANGED <<app, rec, job>>
    BY <1>4 DEF Refused, Reject, Answer
  <2>2. <<r.op, r.seq>> \notin ClientQueries
    <3> SUFFICES ASSUME <<r.op, r.seq>> \in ClientQueries PROVE FALSE
      OBVIOUS
    <3>1. r.op \in Queries
      BY DEF ClientQueries, Queries
    <3>2. r.framed /\ r.session = NoSession
      BY <1>2, <3>1 DEF Harmless, FromClient, Queries
    <3>3. Refusal(r) = "OK"
      BY <3>1, <3>2 DEF Refusal, Queries, SessionOps
    <3>4. QED
      BY <2>1, <3>3
  <2>3. ~disturbed => r.op \notin Mutations
    BY <1>1, <1>4, <2>1, CalmAccepts DEF Taken
  <2>4. core'.state = core.state
    BY <2>1, Numbers DEF Reject, CoreSet
  <2>5. QED
    BY <1>1, <2>1, <2>2, <2>3, <2>4, TakenRefused
<1>5. CASE Query(r)
  <2>1. /\ reply'.op = r.op /\ reply'.seq = r.seq /\ reply'.result = "OK"
        /\ reply'.value = NoValue /\ r.op \in Queries /\ UNCHANGED <<app, rec, core, job>>
    BY <1>5 DEF Query, Answer
  <2>2. r.op \notin Mutations
    BY <2>1 DEF Queries, Mutations, SessionOps
  <2>3. QED
    BY <1>1, <2>1, <2>2, TakenRefused
<1>6. CASE Refusal(r) = "OK" /\ Begin(r)
  BY <1>1, <1>6, TakenBegin
<1>7. CASE Refusal(r) = "OK" /\ ~Cached(r) /\ ProgramAgain(r)
  BY <1>1, <1>7, TakenProgramAgain
<1>8. CASE Refusal(r) = "OK" /\ ~Cached(r) /\ Verify(r)
  BY <1>1, <1>8, TakenVerify
<1>9. CASE Refusal(r) = "OK" /\ ~Cached(r) /\ (Erase(r) \/ Program(r) \/ Activate(r))
  BY <1>1, <1>9, TakenJob
<1>10. ~Abort(r)
  BY <1>2 DEF Abort, FromClient, Harmless, Queries
<1>11. QED
  BY <1>3, <1>4, <1>5, <1>6, <1>7, <1>8, <1>9, <1>10 DEF Request, Process

LEMMA WaitingType ==
    ASSUME LinkInv
    PROVE  \A q \in Waiting : q \in Requests
  BY ElementType DEF LinkInv, Waiting

\* The loop takes the next request, if there is one.
LEMMA PopStep ==
    ASSUME IInv, LinkInv, ContentInv, HostInv, ClientInv, host' = host, Pop,
           ~disturbed' => ~disturbed
    PROVE  ClientInv'
<1>1. fifo' = fifo /\ tx' = tx
  BY DEF Pop
<1>2. CASE ring = <<>>
  <2>1. UNCHANGED <<app, rec, core, job, reply, ring>>
    BY <1>2 DEF Pop, vars
  <2>2. Waiting' \subseteq Waiting /\ LinkInOrder' /\ Answers' \subseteq Answers
    BY <1>1, <2>1, SameOrder DEF ClientInv, OrderInv, Answers
  <2>3. QED
    BY <2>1, <2>2, QuietStep
<1>3. CASE ring # <<>>
  <2>1. ring' = Tail(ring) /\ Request(Head(ring))
    BY <1>3 DEF Pop
  <2>2. LinkInOrder
    BY DEF ClientInv, OrderInv
  <2>3. Taken(Head(ring))
    BY <1>1, <1>3, <2>1, <2>2, PopOrder, WaitingType DEF Taken
  <2>4. QED
    BY <1>1, <2>1, <2>3, TakenStep
<1>4. QED
  BY <1>2, <1>3

\* What is known of the request whose flash work is under way.
LEMMA Working ==
    ASSUME IInv, LinkInv, HostInv, ClientInv, UNCHANGED <<ring, fifo>>, job # Idle
    PROVE  /\ job.pc # "idle" /\ job.pc \in PCs
           /\ job.req \in Requests /\ FromClient(job.req) /\ ~Committed
           /\ Waiting' \subseteq Waiting /\ LinkInOrder'
           /\ \A q \in Waiting' : q \in Requests /\ InOrder(job.req, q)
           /\ core.session # NoSession
           /\ core.session = host.session /\ core.image = host.img
           /\ ~disturbed => Succeeds(core.cache.req, job.req)
<1> USE DEF ClientInv
<1>1. /\ job.pc # "idle" /\ job.pc \in PCs /\ job.req \in Requests
      /\ core.state \in {"PREPARED", "RECEIVING", "VERIFIED"}
  BY DEF IInv, TypeOK, JobInv, PCs
<1>2. Waiting' = Waiting /\ LinkInOrder'
  BY SameOrder DEF OrderInv
<1>3. FromClient(job.req) /\ \A q \in Waiting' : q \in Requests /\ InOrder(job.req, q)
  BY <1>1, <1>2, WaitingType DEF OrderInv
<1>4. ~Committed
  BY <1>1 DEF Committed
<1>5. core.session # NoSession
  BY <1>1 DEF IInv, SessionImage
<1>6. core.session = host.session /\ core.image = host.img
  BY <1>5 DEF SessionInv
<1>7. ~disturbed => Succeeds(core.cache.req, job.req)
  BY <1>1, <1>5 DEF CalmInv, InStep
<1>8. QED
  BY <1>1, <1>2, <1>3, <1>4, <1>5, <1>6, <1>7

\* ERASE: page by page, the record first.
LEMMA EraseStep ==
    ASSUME IInv, LinkInv, ContentInv, HostInv, ClientInv, host' = host, tx' = tx,
           UNCHANGED <<ring, fifo>>, EraseRecordDone \/ EraseAppPage,
           ~disturbed' => ~disturbed
    PROVE  ClientInv'
<1> DEFINE c == [core EXCEPT !.state = "RECEIVING"]
<1>0. PICK r : r = job.req
  OBVIOUS
<1>1. job # Idle /\ job.pc \in {"eraseRecord", "eraseApp"}
  BY IdleType DEF EraseRecordDone, EraseAppPage
<1>2. /\ job.pc # "idle" /\ r \in Requests /\ FromClient(r) /\ ~Committed
      /\ Waiting' \subseteq Waiting /\ LinkInOrder'
      /\ \A q \in Waiting' : q \in Requests /\ InOrder(r, q)
      /\ core.session # NoSession
      /\ core.session = host.session /\ core.image = host.img
      /\ ~disturbed => Succeeds(core.cache.req, r)
  BY <1>0, <1>1, Working
<1>3. /\ core.state = "PREPARED" /\ core.offset = 0 /\ r.op = "ERASE"
      /\ core \in CoreSet
  BY <1>0, <1>1, Numbers DEF IInv, JobInv, StateInv, ContentInv, JobFits
<1>4. CASE UNCHANGED <<core, reply>> /\ job'.pc = "eraseApp" /\ job'.req = job.req
  BY <1>2, <1>3, <1>4, GoesOnStep
<1>5. CASE job' = Idle /\ Accept(r, c, NoValue)
  <2>1. c \in CoreSet /\ NoValue \in {NoValue} \cup (0 .. Capacity) \cup Images
    BY <1>3 DEF CoreSet, States
  <2>2. c.state = "RECEIVING" /\ c.session = core.session /\ c.image = core.image
        /\ c.offset = 0
    BY <1>3 DEF CoreSet
  <2> HIDE DEF c
  <2>3. /\ core'.state = "RECEIVING" /\ core'.session = host.session
        /\ core'.image = host.img /\ core'.offset = 0 /\ core'.seq = r.seq
        /\ reply' = Answer(r, "OK", NoValue)
        /\ core'.cache = [req |-> r, reply |-> Answer(r, "OK", NoValue)]
        /\ core'.cache # NoCache
    BY <1>2, <1>5, <2>1, <2>2, AcceptedCore
  <2>4. Settled(r)' /\ job'.pc = "idle"
    BY <1>3, <1>5, <2>3, IdleType DEF Settled, Answer
  <2>5. QED
    BY <1>2, <1>3, <2>3, <2>4, AcceptedStep
<1>6. CASE EraseRecordDone
  BY <1>4, <1>6 DEF EraseRecordDone, Job
<1>7. CASE EraseAppPage
  <2>1. CASE job' = [job EXCEPT !.k = @ + 1] /\ UNCHANGED <<core, reply>>
    <3>1. job'.pc = "eraseApp" /\ job'.req = job.req
      BY <1>7, <2>1 DEF EraseAppPage, IInv, TypeOK
    <3>2. QED
      BY <1>4, <2>1, <3>1
  <2>2. QED
    BY <1>0, <1>5, <1>7, <2>1 DEF EraseAppPage
<1>8. QED
  BY <1>6, <1>7

\* ACTIVATE: the record, its body first and its mark last.
LEMMA CommitStep ==
    ASSUME IInv, IInv', LinkInv, ContentInv, HostInv, ClientInv, host' = host, tx' = tx,
           UNCHANGED <<ring, fifo>>, CommitBody \/ CommitMark,
           ~disturbed' => ~disturbed
    PROVE  ClientInv'
<1> DEFINE c == [core EXCEPT !.activatePending = TRUE]
<1>0. PICK r : r = job.req
  OBVIOUS
<1>1. job # Idle /\ job.pc \in {"commitBody", "commitMark"} /\ app' = app
  BY IdleType DEF CommitBody, CommitMark
<1>2. /\ job.pc # "idle" /\ r \in Requests /\ FromClient(r) /\ ~Committed
      /\ Waiting' \subseteq Waiting /\ LinkInOrder'
      /\ \A q \in Waiting' : q \in Requests /\ InOrder(r, q)
      /\ core.session # NoSession
      /\ core.session = host.session /\ core.image = host.img
      /\ ~disturbed => Succeeds(core.cache.req, r)
  BY <1>0, <1>1, Working
<1>3. core.state = "VERIFIED" /\ r.op = "ACTIVATE" /\ core \in CoreSet
      /\ core.offset \in Nat
  BY <1>0, <1>1, Numbers DEF IInv, JobInv, ContentInv, JobFits
<1>4. CASE CommitBody
  <2>1. UNCHANGED <<core, reply>> /\ job'.pc = "commitMark" /\ job'.req = job.req
    BY <1>4 DEF CommitBody, Job
  <2>2. QED
    BY <1>1, <1>2, <2>1, GoesOnStep
<1>5. CASE CommitMark
  <2>1. c \in CoreSet /\ NoValue \in {NoValue} \cup (0 .. Capacity) \cup Images
    BY <1>3 DEF CoreSet
  <2>2. c.state = core.state /\ c.session = core.session /\ c.image = core.image
        /\ c.offset = core.offset
    BY <1>3 DEF CoreSet
  <2>3. Accept(r, c, NoValue) /\ job' = Idle
    BY <1>0, <1>5 DEF CommitMark
  <2>4. job.pc = "commitMark" /\ rec' = [rec EXCEPT !.mark = RecordEncode(core.image).mark]
    BY <1>5 DEF CommitMark
  <2>5. rec' = RecordEncode(core.image)
    BY <2>4 DEF RecordEncode, IInv, TypeOK, JobInv, Records
  <2> HIDE DEF c
  <2>6. /\ core'.state = "VERIFIED" /\ core'.session = host.session
        /\ core'.image = host.img /\ core'.offset = core.offset /\ core'.seq = r.seq
        /\ reply' = Answer(r, "OK", NoValue)
        /\ core'.cache = [req |-> r, reply |-> Answer(r, "OK", NoValue)]
        /\ core'.cache # NoCache
    BY <1>2, <1>3, <2>1, <2>2, <2>3, AcceptedCore
  <2>7. Settled(r)' /\ job'.pc = "idle"
    BY <1>3, <2>3, <2>6, IdleType DEF Settled, Answer
  <2>8. \A d \in 0 .. core'.offset - 1 : app'[d] = Content[host.img][d]
    BY <1>1, <1>2, <1>3, <2>6 DEF ClientInv, DownloadInv
  <2>9. rec' = RecordEncode(host.img) /\ core.offset <= core'.offset
    BY <1>2, <1>3, <2>5, <2>6
  <2>10. QED
    BY <1>2, <1>3, <2>6, <2>7, <2>8, <2>9, AcceptedStep
<1>6. QED
  BY <1>4, <1>5

\* PROGRAM: double word by double word, all of them the image's.
LEMMA ProgramStep ==
    ASSUME IInv, LinkInv, ContentInv, ContentInv', HostInv, ClientInv,
           host' = host, tx' = tx, UNCHANGED <<ring, fifo>>, ProgramDword,
           ~disturbed' => ~disturbed
    PROVE  ClientInv'
<1>0. PICK r : r = job.req
  OBVIOUS
<1> DEFINE n == Len(r.data)
           end == core.offset + n
           c == [core EXCEPT !.offset = end]
<1>1. job # Idle /\ job.pc = "program" /\ rec' = rec
  BY IdleType DEF ProgramDword
<1>2. /\ job.pc # "idle" /\ r \in Requests /\ FromClient(r) /\ ~Committed
      /\ Waiting' \subseteq Waiting /\ LinkInOrder'
      /\ \A q \in Waiting' : q \in Requests /\ InOrder(r, q)
      /\ core.session # NoSession
      /\ core.session = host.session /\ core.image = host.img
      /\ ~disturbed => Succeeds(core.cache.req, r)
  BY <1>0, <1>1, Working
<1>3. /\ core.state = "RECEIVING" /\ r.op = "PROGRAM" /\ core \in CoreSet
      /\ r.offset = core.offset /\ core.offset \in Nat /\ n \in Nat
      /\ end <= Size[host.img] /\ Size[host.img] <= Capacity /\ Size[host.img] \in Nat
      /\ r.offset + job.k \in Dwords /\ job.k \in Nat
  BY <1>0, <1>1, <1>2, Numbers, JobDword DEF IInv, JobInv
<1>4. \A d \in 0 .. core.offset - 1 : app'[d] = app[d]
  <2>1. app' = app \/ \E v : app' = [app EXCEPT ![r.offset + job.k] = v]
    BY <1>0 DEF ProgramDword
  <2>2. app \in [Dwords -> Cells]
    BY DEF IInv, TypeOK
  <2>3. core.offset <= Capacity /\ Capacity \in Nat
    BY <1>3, CapacityAssumption DEF CoreSet
  <2>4. \A d \in 0 .. core.offset - 1 : d \in Dwords /\ d # r.offset + job.k
    BY <1>3, <2>3 DEF Dwords
  <2>5. QED
    BY <2>1, <2>2, <2>4
<1>5. CASE job' = [job EXCEPT !.k = @ + 1] /\ UNCHANGED <<core, reply>>
  <2>1. job'.pc = "program" /\ job'.req = job.req
    BY <1>1, <1>5 DEF IInv, TypeOK
  <2>2. QED
    BY <1>2, <1>4, <1>5, <2>1, GoesOnStep
<1>6. CASE job' = Idle /\ Accept(r, c, end)
  <2> HIDE DEF n
  <2>1. end \in 0 .. Capacity
    BY <1>3, CapacityAssumption DEF CoreSet
  <2> HIDE DEF end
  <2>2. c \in CoreSet /\ end \in {NoValue} \cup (0 .. Capacity) \cup Images
    BY <1>3, <2>1 DEF CoreSet
  <2>3. c.state = core.state /\ c.session = core.session /\ c.image = core.image
        /\ c.offset = end
    BY <1>3 DEF CoreSet
  <2> HIDE DEF c
  <2>4. /\ core'.state = "RECEIVING" /\ core'.session = host.session
        /\ core'.image = host.img /\ core'.offset = end /\ core'.seq = r.seq
        /\ reply' = Answer(r, "OK", end)
        /\ core'.cache = [req |-> r, reply |-> Answer(r, "OK", end)]
        /\ core'.cache # NoCache
    BY <1>2, <1>3, <1>6, <2>2, <2>3, AcceptedCore
  <2>5. Settled(r)' /\ job'.pc = "idle"
    BY <1>3, <1>6, <2>4, IdleType DEF Settled, Answer, end, n
  <2>6. \A d \in 0 .. core'.offset - 1 : app'[d] = Content[host.img][d]
    <3> SUFFICES ASSUME NEW d \in 0 .. end - 1 PROVE app'[d] = Content[host.img][d]
      BY <2>4
    <3>1. CASE d < core.offset
      <4>1. app[d] = Content[host.img][d]
        BY <1>2, <1>3, <3>1, <2>1 DEF ClientInv, DownloadInv
      <4>2. d \in 0 .. core.offset - 1
        BY <1>3, <2>1, <3>1
      <4>3. QED
        BY <1>4, <4>1, <4>2
    <3>2. CASE d >= core.offset
      <4> DEFINE k == d - core.offset + 1
      <4>1. k \in 1 .. n /\ r.offset + k - 1 = d
        BY <1>3, <2>1, <3>2 DEF end
      <4> HIDE DEF k
      <4>2. r.session = host.session /\ r.data[k] = Content[host.img][d]
        BY <1>2, <1>3, <4>1 DEF FromClient, n
      <4>3. app'[r.offset + k - 1] = r.data[k]
        BY <1>3, <2>4, <4>1, <4>2 DEF ContentInv, ReplayTruthful, n
      <4>4. QED
        BY <4>1, <4>2, <4>3
    <3>3. QED
      BY <1>3, <2>1, <3>1, <3>2
  <2>7. core.offset <= core'.offset /\ core'.offset \in Nat /\ end \in Nat
        /\ end <= core'.offset
    BY <1>3, <2>1, <2>4 DEF end
  <2>8. QED
    BY <1>2, <1>3, <2>4, <2>5, <2>6, <2>7, AcceptedStep
<1>7. QED
  BY <1>0, <1>5, <1>6 DEF ProgramDword

\* Flash work that fails: an answer that says so, and a disturbance.
LEMMA FailsStep ==
    ASSUME IInv, LinkInv, ContentInv, HostInv, ClientInv, host' = host, tx' = tx,
           UNCHANGED <<ring, fifo>>, FlashFails, disturbed'
    PROVE  ClientInv'
<1>0. PICK r : r = job.req
  OBVIOUS
<1>1. job # Idle /\ job' = Idle /\ Fail(r, "FLASH_ERROR")
  BY <1>0 DEF FlashFails
<1>2. /\ job.pc # "idle" /\ r \in Requests /\ FromClient(r)
      /\ Waiting' \subseteq Waiting /\ LinkInOrder'
      /\ \A q \in Waiting' : q \in Requests /\ InOrder(r, q)
  BY <1>0, <1>1, Working
<1>3. /\ core'.session = core.session /\ core'.image = core.image
      /\ core'.offset = core.offset /\ core'.seq = core.seq /\ core'.cache = core.cache
      /\ core'.state = "ERROR_STATE"
  BY <1>1, Numbers DEF Fail, CoreSet
<1>4. reply'.op = r.op /\ reply'.seq = r.seq /\ reply'.result = "FLASH_ERROR"
  BY <1>1 DEF Fail, Answer
<1>5. <<r.op, r.seq>> \notin ClientQueries /\ job'.pc = "idle"
  BY <1>1, <1>2, IdleType DEF FromClient, ClientQueries
<1>6. QED
  BY <1>2, <1>3, <1>4, <1>5, RefuseStep

LEMMA WorkStep ==
    ASSUME IInv, IInv', LinkInv, ContentInv, ContentInv', HostInv, ClientInv,
           host' = host, Work, ~disturbed' => ~disturbed,
           core'.lastError = "FLASH_ERROR" => disturbed'
    PROVE  ClientInv'
<1>1. tx' = tx /\ UNCHANGED <<ring, fifo>>
  BY DEF Work, linkVars
<1>2. CASE FlashStep
  BY <1>1, <1>2, EraseStep, ProgramStep, CommitStep DEF FlashStep
<1>3. CASE FlashFails
  <2>1. core'.lastError = "FLASH_ERROR"
    BY <1>3, Numbers DEF FlashFails, Fail, CoreSet
  <2>2. QED
    BY <1>1, <1>3, <2>1, FailsStep
<1>4. QED
  BY <1>2, <1>3 DEF Work

\* The reply goes to the link, or is dropped while one is outstanding.
LEMMA SendStep ==
    ASSUME IInv, LinkInv, HostInv, ClientInv, host' = host, Send,
           ~disturbed' => ~disturbed
    PROVE  ClientInv'
<1>1. UNCHANGED <<app, rec, core, job, ring, fifo>> /\ reply' = NoReply
  BY DEF Send, Deliver, linkVars
<1>2. tx'.reply \in {tx.reply, reply}
  BY DEF Send, LinkInv
<1>3. Answers' \subseteq Answers
  BY <1>1, <1>2 DEF Answers
<1>4. Waiting' \subseteq Waiting /\ LinkInOrder'
  BY <1>1, SameOrder DEF ClientInv, OrderInv
<1>5. QED
  BY <1>1, <1>3, <1>4, QuietStep

\* The end of the loop: on to the next round, out of a session, or to the APP.
LEMMA RestStep ==
    ASSUME IInv, LinkInv, HostInv, ClientInv, host' = host, Rest,
           ~disturbed' => ~disturbed /\ (core.session = NoSession \/ core'.session # NoSession)
    PROVE  ClientInv'
<1>1. job = Idle /\ job.pc = "idle"
  BY IdleType DEF Rest, LinkInv
<1>2. CASE Jump
  <2>1. /\ core' = InitCore /\ job' = Idle /\ rec' = rec /\ reply' = reply
        /\ ring' = <<>> /\ fifo' = <<>> /\ tx' = NoTx
    BY <1>1, <1>2 DEF Jump
  <2>2. Waiting' \subseteq Waiting /\ LinkInOrder'
    BY <2>1, EmptyOrder
  <2>3. Answers' \subseteq Answers
    BY <2>1 DEF Answers, NoTx, InitCore
  <2>4. QED
    BY <1>1, <2>1, <2>2, <2>3, FreshStep DEF InitCore
<1>3. CASE ~Jump
  <2>1. UNCHANGED <<ring, fifo, tx>> /\ (Tick \/ UNCHANGED vars)
    BY <1>3 DEF Rest, linkVars
  <2>2. Waiting' \subseteq Waiting /\ LinkInOrder'
    BY <2>1, SameOrder DEF ClientInv, OrderInv
  <2>3. CASE Tick
    <3>1. core' = InitCore /\ job' = Idle /\ rec' = rec /\ reply' = reply
      BY <2>3, <1>1 DEF Tick
    <3>2. Answers' \subseteq Answers
      BY <2>1, <3>1 DEF Answers, InitCore
    <3>3. QED
      BY <1>1, <2>2, <3>1, <3>2, FreshStep DEF InitCore
  <2>4. CASE UNCHANGED vars
    <3>1. UNCHANGED <<app, rec, core, job, reply>>
      BY <2>4 DEF vars
    <3>2. Answers' \subseteq Answers
      BY <2>1, <3>1 DEF Answers
    <3>3. QED
      BY <2>2, <3>1, <3>2, QuietStep
  <2>5. QED
    BY <2>1, <2>3, <2>4
<1>4. QED
  BY <1>2, <1>3

\* A reset, whatever it interrupts.
LEMMA RestartStep ==
    ASSUME IInv, LinkInv, HostInv, ClientInv, host' = host, NEW cause, Restart(cause),
           ~disturbed' => ~disturbed /\ (core.session = NoSession \/ core'.session # NoSession)
    PROVE  ClientInv'
<1>1. /\ core' = InitCore /\ job' = Idle /\ reply' = NoReply /\ Interrupted
      /\ ring' = <<>> /\ fifo' = <<>> /\ tx' = NoTx
  BY DEF Restart, PowerLoss
<1>2. job.pc = "idle" => rec' = rec
  BY <1>1 DEF Interrupted
<1>3. Waiting' \subseteq Waiting /\ LinkInOrder'
  BY <1>1, EmptyOrder
<1>4. Answers' \subseteq Answers
  BY <1>1 DEF Answers, NoTx, InitCore
<1>5. QED
  BY <1>1, <1>2, <1>3, <1>4, FreshStep DEF InitCore

\* Whatever the part does on its own.
LEMMA PartStep ==
    ASSUME IInv, IInv', LinkInv, ContentInv, ContentInv', HostInv, ClientInv, Part
    PROVE  ClientInv'
<1>1. /\ host' = host /\ (~disturbed' => ~disturbed)
      /\ core'.lastError = "FLASH_ERROR" => disturbed'
      /\ ~disturbed' => core.session = NoSession \/ core'.session # NoSession
  BY DEF Part
<1>2. CASE CancelTakesEffect \/ Millisecond \/ AppWritesMailbox
  <2>1. UNCHANGED <<app, rec, core, job, reply, ring, fifo>>
        /\ tx'.reply \in {tx.reply, NoReply}
    BY <1>2 DEF CancelTakesEffect, Millisecond, AppWritesMailbox, vars, linkVars
  <2>2. Waiting' \subseteq Waiting /\ LinkInOrder' /\ Answers' \subseteq Answers
    BY <2>1, SameOrder DEF ClientInv, OrderInv, Answers
  <2>3. QED
    BY <1>1, <2>1, <2>2, QuietStep
<1>3. CASE RxInterrupt
  <2>1. UNCHANGED <<app, rec, core, job, reply, tx>>
    BY <1>3 DEF RxInterrupt, vars
  <2>2. Waiting' \subseteq Waiting /\ LinkInOrder' /\ Answers' \subseteq Answers
    BY <1>3, <2>1, RxOrder DEF ClientInv, OrderInv, Answers
  <2>3. QED
    BY <1>1, <2>1, <2>2, QuietStep
<1>4. CASE Pop
  BY <1>1, <1>4, PopStep
<1>5. CASE Work
  BY <1>1, <1>5, WorkStep
<1>6. CASE Send
  BY <1>1, <1>6, SendStep
<1>7. CASE Rest
  BY <1>1, <1>7, RestStep
<1>8. CASE HardReset \/ SoftReset
  BY <1>1, <1>8, RestartStep DEF HardReset, SoftReset
<1>9. QED
  BY <1>2, <1>3, <1>4, <1>5, <1>6, <1>7, <1>8 DEF Part, Running, Resets, Loop

\* The client counts a send that the bus has lost.
LEMMA LostStep ==
    ASSUME IInv, LinkInv, HostInv, ClientInv,
           UNCHANGED <<app, rec, core, job, reply, tx, ring, fifo, disturbed>>,
           host'.step = host.step, host'.seq = host.seq, host'.session = host.session,
           host'.img = host.img, host'.offset = host.offset
    PROVE  ClientInv'
<1> USE DEF ClientInv
<1>1. HostRequest' = HostRequest
  BY DEF HostRequest
<1>2. \A q : FromClient(q) => FromClient(q)'
  BY <1>1 DEF FromClient
<1>3. Waiting' = Waiting /\ LinkInOrder' /\ Answers' = Answers
  BY SameOrder DEF OrderInv, Answers
<1>4. OrderInv'
  <2>1. \A q \in Waiting' : FromClient(q)' \/ Harmless(q)
    BY <1>2, <1>3 DEF OrderInv
  <2>2. job.pc # "idle" =>
           FromClient(job.req)' /\ \A q \in Waiting' : InOrder(job.req, q)
    BY <1>2, <1>3 DEF OrderInv
  <2>3. core.cache # NoCache =>
           FromClient(core.cache.req)' /\ \A q \in Waiting' : InOrder(core.cache.req, q)
    BY <1>2, <1>3 DEF OrderInv
  <2>4. QED
    BY <1>3, <2>1, <2>2, <2>3 DEF OrderInv
<1>5. SessionInv'
  BY DEF SessionInv
<1>6. Committed => Committed'
  BY <1>3 DEF Committed
<1>7. AnswerInv'
  <2>1. ASSUME NEW a \in Answers' PROVE Truth(a)'
    BY <1>3, <1>6, Numbers, TruthKept DEF AnswerInv
  <2>2. QED
    BY <1>6, <2>1 DEF AnswerInv
<1>8. DownloadInv'
  BY <1>3 DEF DownloadInv
<1>9. CalmInv'
  <2>1. Untouched => Untouched'
    BY <1>3 DEF Untouched
  <2>2. InStep => InStep'
    BY <1>1, <1>3 DEF InStep, Settled, Succeeds
  <2>3. QED
    BY <2>1, <2>2 DEF CalmInv
<1>10. QED
  BY <1>4, <1>5, <1>7, <1>8, <1>9

LEMMA HostSendStep ==
    ASSUME IInv, LinkInv, HostInv, ClientInv, HostSend
    PROVE  ClientInv'
<1>1. /\ host'.step = host.step /\ host'.seq = host.seq /\ host'.session = host.session
      /\ host'.img = host.img /\ host'.offset = host.offset /\ disturbed' = disturbed
      /\ host.step \in Asking
  BY DEF HostSend, HostInv
<1>2. CASE Arrive(HostRequest)
  <2>1. PICK r : r = HostRequest
    OBVIOUS
  <2>2. r \in Requests /\ Arrive(r)
    BY <1>1, <1>2, <2>1, HostRequestFacts
  <2>3. QED
    BY <1>1, <2>1, <2>2, ArriveStep
<1>3. CASE UNCHANGED allVars
  <2>1. UNCHANGED <<app, rec, core, job, reply, tx, ring, fifo>>
    BY <1>3 DEF allVars, vars, mainVars, linkVars
  <2>2. QED
    BY <1>1, <2>1, LostStep
<1>4. QED
  BY <1>2, <1>3 DEF HostSend

LEMMA ObserveStep ==
    ASSUME IInv, LinkInv, HostInv, ClientInv, Observe
    PROVE  ClientInv'
<1>1. /\ host'.step = host.step /\ host'.seq = host.seq /\ host'.session = host.session
      /\ host'.img = host.img /\ host'.offset = host.offset /\ disturbed' = disturbed
  BY DEF Observe, HostInv
<1>2. PICK r \in Observer : Arrive(r)
  BY DEF Observe
<1>3. r \in Requests /\ Harmless(r)
  BY HostAssumption DEF Harmless
<1>4. QED
  BY <1>1, <1>2, <1>3, ArriveStep

LEMMA HostHearsStep ==
    ASSUME IInv, LinkInv, HostInv, HostInv', ClientInv, HostHears
    PROVE  ClientInv'
<1>1. UNCHANGED <<app, rec, core, job, reply, ring, fifo, disturbed>>
      /\ tx'.reply = NoReply
  BY DEF HostHears, Transmit, vars, linkVars
<1>2. PICK a : a = tx.reply
  OBVIOUS
<1>3. a \in Answers
  BY <1>2 DEF HostHears, Transmit, LinkInv, Answers
<1>4. Answers' \subseteq Answers
  BY <1>1 DEF Answers
<1>5. CASE host' = host
  <2>1. Waiting' \subseteq Waiting /\ LinkInOrder'
    BY <1>1, SameOrder DEF ClientInv, OrderInv
  <2>2. QED
    BY <1>1, <1>4, <1>5, <2>1, QuietStep
<1>6. CASE host' = Hear(tx.reply)
  <2>1. host' = Hear(a)
    BY <1>2, <1>6
  <2>2. QED
    BY <1>1, <1>3, <1>4, <2>1, HeardStep
<1>7. QED
  BY <1>5, <1>6 DEF HostHears

LEMMA ClientStep ==
    ASSUME IInv, IInv', LinkInv, ContentInv, ContentInv', HostInv, HostInv', ClientInv,
           [UpdateNext]_updateVars
    PROVE  ClientInv'
<1>1. CASE HostSend
  BY <1>1, HostSendStep
<1>2. CASE HostGivesUp
  BY <1>2, GivesUpStep
<1>3. CASE HostHears
  BY <1>3, HostHearsStep
<1>4. CASE Observe
  BY <1>4, ObserveStep
<1>5. CASE Part
  BY <1>5, PartStep
<1>6. CASE UNCHANGED updateVars
  <2>1. UNCHANGED <<app, rec, core, job, reply, tx, ring, fifo, host, disturbed>>
    BY <1>6 DEF updateVars, allVars, vars, mainVars, linkVars
  <2>2. QED
    BY <2>1, LostStep
<1>7. QED
  BY <1>1, <1>2, <1>3, <1>4, <1>5, <1>6 DEF UpdateNext

\* At the start nothing is on its way and no session is open.
LEMMA ClientStart ==
    ASSUME UpdateInit
    PROVE  ClientInv
<1>1. /\ core = InitCore /\ job = Idle /\ reply = NoReply /\ tx = NoTx
      /\ ring = <<>> /\ fifo = <<>> /\ host.step = "INFO" /\ host.offset = 0
      /\ disturbed = FALSE
  BY DEF UpdateInit, MainInit, Init
<1>2. Len(ring) = 0 /\ Len(fifo) = 0
  BY <1>1, EmptySeq
<1>3. Waiting = {} /\ LinkInOrder
  BY <1>2 DEF Waiting, LinkInOrder, Ordered
<1>4. Answers = {} /\ core.session = NoSession /\ core.cache = NoCache /\ job.pc = "idle"
  BY <1>1 DEF Answers, InitCore, NoTx, Idle
<1>5. OrderInv /\ SessionInv
  BY <1>3, <1>4 DEF OrderInv, SessionInv
<1>6. AnswerInv /\ DownloadInv
  BY <1>1, <1>4 DEF AnswerInv, DownloadInv
<1>7. CalmInv
  BY <1>1, <1>3, <1>4 DEF CalmInv, Untouched
<1>8. QED
  BY <1>5, <1>6, <1>7 DEF ClientInv

(* The invariant of a whole update: the core's, the loop's, the flash      *)
(* contents', the client's place, and what is on its way between them.     *)
THEOREM UpdateInvariance == UpdateSpec => []UpdateInv
<1>1. UpdateInit => UpdateInv
  <2> SUFFICES ASSUME UpdateInit PROVE UpdateInv
    OBVIOUS
  <2>1. MainInit /\ Init
    BY DEF UpdateInit, MainInit
  <2>2. IInv /\ LinkInv /\ HostInv /\ ClientInv
    BY <2>1, InitInv, MainInitLink, HostStart, ClientStart
  <2>3. ContentInv
    BY <2>1 DEF Init, InitCore, Idle, ContentInv, TailBlank, ReplayTruthful, CacheFits,
                JobFits
  <2>4. QED
    BY <2>2, <2>3 DEF UpdateInv
<1>2. UpdateInv /\ [UpdateNext]_updateVars => UpdateInv'
  <2> SUFFICES ASSUME UpdateInv, [UpdateNext]_updateVars PROVE UpdateInv'
    OBVIOUS
  <2>1. IInv /\ LinkInv /\ ContentInv /\ HostInv /\ ClientInv
    BY DEF UpdateInv
  <2>2. [MainNext]_allVars /\ HostInv'
    BY <2>1, UpdateStep, HostStep
  <2>3. [Next]_vars
    BY <2>1, <2>2, MainStep
  <2>4. IInv' /\ LinkInv' /\ ContentInv'
    BY <2>1, <2>2, <2>3, NextInv, MainLink, NextContent
  <2>5. ClientInv'
    BY <2>1, <2>2, <2>4, ClientStep
  <2>6. QED
    BY <2>2, <2>4, <2>5 DEF UpdateInv
<1>3. QED
  BY <1>1, <1>2, PTL DEF UpdateSpec

(* An update reported as acknowledged is in the part, for good: the record *)
(* is committed and vouches for the client's image, whatever of the        *)
(* client's retries, the answers, the resets and the other tools came      *)
(* between (Client.update of loader_updater.py, ACTIVATE of loader_core.c).*)
THEOREM AcknowledgedUpdateIsInstalled == UpdateSpec => []AcknowledgedIsInstalled
<1>1. UpdateInv => AcknowledgedIsInstalled
  <2> SUFFICES ASSUME UpdateInv, host.step = "acknowledged"
               PROVE  rec = RecordEncode(host.img) /\ BootValid(app, rec)
    BY DEF AcknowledgedIsInstalled
  <2>1. rec = RecordEncode(host.img) /\ host.img \in Offered /\ host.img \in Images
    BY Numbers DEF UpdateInv, ClientInv, AnswerInv, Committed
  <2>2. rec.body = host.img /\ rec.mark = Commit
    BY <2>1 DEF RecordEncode
  <2>3. LegalSize(Size[host.img])
    BY <2>1, HostAssumption DEF VectorsValid
  <2>4. RecordDecodes(rec)
    BY <2>1, <2>2, <2>3 DEF RecordDecodes
  <2>5. ImageValid(app, rec.body)
    BY <2>4 DEF UpdateInv, IInv, RecordVouches
  <2>6. QED
    BY <2>1, <2>4, <2>5 DEF BootValid
<1>2. QED
  BY <1>1, UpdateInvariance, PTL

(* The client never runs ahead of the part: in its own session every chunk *)
(* it holds an answer for is behind the core's offset and in flash.        *)
THEOREM ClientStaysBehind == UpdateSpec => []ClientNeverAhead
<1>1. UpdateInv => ClientNeverAhead
  <2> SUFFICES ASSUME UpdateInv, core.session = host.session
               PROVE  /\ host.offset <= core.offset
                      /\ core.state \in {"RECEIVING", "VERIFIED"} =>
                           \A d \in 0 .. host.offset - 1 : app[d] = Content[host.img][d]
    BY DEF ClientNeverAhead
  <2>1. core.session # NoSession /\ host.offset \in Nat /\ core.offset \in Nat
    BY Numbers DEF UpdateInv
  <2>2. /\ host.offset <= core.offset
        /\ core.state \in {"RECEIVING", "VERIFIED"} =>
             \A d \in 0 .. core.offset - 1 : app[d] = Content[host.img][d]
    BY <2>1 DEF UpdateInv, ClientInv, DownloadInv
  <2>3. \A d \in 0 .. host.offset - 1 : d \in 0 .. core.offset - 1
    BY <2>1, <2>2
  <2>4. QED
    BY <2>2, <2>3
<1>2. QED
  BY <1>1, UpdateInvariance, PTL

(* Retries are transparent: while the part is neither reset, timed out nor *)
(* hit by a flash error, no loss, copy or delay of a request or an answer  *)
(* gets the client refused or handed a wrong answer (the one-entry cache   *)
(* of loader_core.c against the stop-and-wait of Client.request).          *)
THEOREM RetriesStayTransparent == UpdateSpec => []RetriesAreTransparent
<1>1. UpdateInv => RetriesAreTransparent
  BY DEF UpdateInv, ClientInv, CalmInv, RetriesAreTransparent
<1>2. QED
  BY <1>1, UpdateInvariance, PTL
=============================================================================
