----------------------------- MODULE LoaderMain -----------------------------
(***************************************************************************)
(* The Loader as it runs: the main loop of loader_main.c around LoaderCore *)
(* with the CAN link of loader_can.c.  Three actors share state: the loop, *)
(* the receive interrupt that fills the ring, and the FDCAN peripheral     *)
(* that holds frames in both directions; a millisecond clock ages what the *)
(* loop compares with HAL_GetTick.  The APP is only a place to jump to and *)
(* to come back from.                                                      *)
(***************************************************************************)
EXTENDS LoaderCore

CONSTANTS
    RingSize,       \* LDR_RX_RING_SIZE; one slot always stays empty
    FifoDepth,      \* frames the FDCAN RX FIFO 0 holds
    BootWindow,     \* LDR_BOOT_WINDOW_MS
    TxLimit,        \* the 100 ms limits of loader_link_send and of main
    IdleLimit       \* the 30 s limit of LoaderCore_Tick

ASSUME LimitAssumption ==
    /\ RingSize \in Nat /\ RingSize >= 2
    /\ FifoDepth \in Nat \ {0}
    /\ BootWindow \in Nat /\ TxLimit \in Nat /\ IdleLimit \in Nat

VARIABLES
    where,      \* "loader", "app", or "halted" when clocks or CAN did not start
    mail,       \* the mailbox in RAM holds a valid request to stay
    stay,       \* main's stay
    loop,       \* "pop", "handle" or "rest": where the loop is
    ring,       \* frames between the interrupt and the loop
    fifo,       \* frames in the peripheral
    rxFlag,     \* the RX FIFO 0 new-message flag
    tx,         \* the latest transmit request: its state and the reply in it
    txPending,  \* main's tx_pending
    age         \* milliseconds since boot, send, pending_since, last activity

linkVars == <<ring, fifo, rxFlag>>
mainVars == <<where, mail, stay, loop, linkVars, tx, txPending, age>>
allVars  == <<vars, mainVars>>

NoTx == [state |-> "none", reply |-> NoReply]
Ages == [boot |-> 0, tx |-> 0, pending |-> 0, idle |-> 0]

Outstanding == tx.state \in {"pending", "cancelling"}

\* An age nothing is waiting for is kept at zero.
SetAge(a) ==
    age' = [boot    |-> IF stay' THEN 0 ELSE a.boot,
            tx      |-> IF tx'.state \in {"pending", "cancelling"} THEN a.tx ELSE 0,
            pending |-> IF txPending' THEN a.pending ELSE 0,
            idle    |-> IF core'.session # NoSession /\ ~core'.activatePending
                        THEN a.idle ELSE 0]

ActivateDone(a) == a.op = "ACTIVATE" /\ a.result = "OK"

MainInit ==
    /\ Init
    /\ where = "loader" /\ mail = FALSE /\ stay = FALSE
    /\ loop = "pop"
    /\ ring = <<>> /\ fifo = <<>> /\ rxFlag = FALSE
    /\ tx = NoTx /\ txPending = FALSE
    /\ age = Ages

-----------------------------------------------------------------------------
(* The peripheral and its interrupt.                                       *)

\* A request frame reaches the node; a full FIFO loses it.
Arrive(r) ==
    /\ where = "loader"
    /\ IF Len(fifo) < FifoDepth
       THEN fifo' = Append(fifo, r) /\ rxFlag' = TRUE
       ELSE UNCHANGED <<fifo, rxFlag>>
    /\ UNCHANGED <<vars, where, mail, stay, loop, ring, tx, txPending, age>>

\* Variant: the slot that must stay empty is used.
RxInterruptFull ==
    /\ where = "loader" /\ rxFlag
    /\ rxFlag' = FALSE
    /\ IF fifo = <<>> THEN UNCHANGED <<fifo, ring>>
       ELSE /\ fifo' = Tail(fifo)
            /\ ring' = IF Len(ring) < RingSize
                       THEN Append(ring, Head(fifo)) ELSE ring
    /\ UNCHANGED <<vars, where, mail, stay, loop, tx, txPending, age>>

\* One message per interrupt, however many arrived since the flag was set.
RxInterrupt ==
    /\ where = "loader" /\ rxFlag
    /\ rxFlag' = FALSE
    /\ IF fifo = <<>> THEN UNCHANGED <<fifo, ring>>
       ELSE /\ fifo' = Tail(fifo)
            /\ ring' = IF Len(ring) < RingSize - 1
                       THEN Append(ring, Head(fifo)) ELSE ring
    /\ UNCHANGED <<vars, where, mail, stay, loop, tx, txPending, age>>

\* The frame wins the bus and is acknowledged, even if a cancel is under way.
Transmit ==
    /\ where = "loader" /\ Outstanding
    /\ tx' = [state |-> "sent", reply |-> NoReply]
    /\ UNCHANGED <<vars, where, mail, stay, loop, linkVars, txPending>>
    /\ SetAge(age)

CancelTakesEffect ==
    /\ where = "loader" /\ tx.state = "cancelling"
    /\ tx' = [state |-> "cancelled", reply |-> NoReply]
    /\ UNCHANGED <<vars, where, mail, stay, loop, linkVars, txPending>>
    /\ SetAge(age)

\* HAL_IncTick; an age stops where no comparison can tell it from a larger one.
Older(a, most) == IF a < most THEN a + 1 ELSE a

Millisecond ==
    /\ where = "loader"
    /\ UNCHANGED <<vars, where, mail, stay, loop, linkVars, tx, txPending>>
    /\ SetAge([boot    |-> Older(age.boot, BootWindow),
               tx      |-> Older(age.tx, TxLimit),
               pending |-> Older(age.pending, TxLimit + 1),
               idle    |-> Older(age.idle, IdleLimit + 1)])

-----------------------------------------------------------------------------
(* The loop.                                                               *)

\* last_activity_ms is set by what is accepted and by an exact repetition.
Touch == SetAge(IF core'.cache # NoCache /\ reply' = core'.cache.reply
                THEN [age EXCEPT !.idle = 0] ELSE age)

\* loader_link_rx_pop and the start of LoaderCore_Request.
Pop ==
    /\ where = "loader" /\ loop = "pop"
    /\ UNCHANGED <<where, mail, stay, fifo, rxFlag, tx, txPending>>
    /\ IF ring = <<>>
       THEN /\ loop' = "rest"
            /\ UNCHANGED <<vars, ring, age>>
       ELSE /\ ring' = Tail(ring)
            /\ Request(Head(ring))
            /\ loop' = "handle"
            /\ Touch

\* The flash work of the request; interrupts run between its HAL calls.
Work ==
    /\ where = "loader" /\ loop = "handle"
    /\ FlashStep \/ FlashFails
    /\ UNCHANGED <<where, mail, stay, loop, linkVars, tx, txPending>>
    /\ Touch

(* loader_link_send: while a reply is outstanding the new one is dropped,  *)
(* and an old one is cancelled once it is TxLimit old.                     *)
Send ==
    /\ where = "loader" /\ loop = "handle"
    /\ job = Idle
    /\ Deliver
    /\ LET announces == core.activatePending /\ ActivateDone(reply) IN
       IF Outstanding
       THEN /\ tx' = IF age.tx >= TxLimit THEN [tx EXCEPT !.state = "cancelling"] ELSE tx
            /\ UNCHANGED <<txPending, age>>
       ELSE /\ tx' = [state |-> "pending", reply |-> reply]
            /\ txPending' = (txPending \/ announces)
            /\ age' = [age EXCEPT !.tx = 0, !.pending = IF announces THEN 0 ELSE @]
    /\ loop' = "rest"
    /\ UNCHANGED <<where, mail, stay, linkVars>>

\* jump_app: RAM, ring and peripheral are the APP's from here on.
Jump ==
    /\ where' = "app"
    /\ mail' = FALSE
    /\ core' = InitCore
    /\ UNCHANGED <<app, rec, job, reply>>
    /\ stay' = FALSE /\ loop' = "pop"
    /\ ring' = <<>> /\ fifo' = <<>> /\ rxFlag' = FALSE
    /\ tx' = NoTx /\ txPending' = FALSE /\ age' = Ages

\* Variant: a session that keeps the Loader resident never expires.
ExpiredUnlessStaying ==
    /\ core.session # NoSession /\ ~core.activatePending /\ age.idle > IdleLimit
    /\ ~stay

Expired == core.session # NoSession /\ ~core.activatePending /\ age.idle > IdleLimit

\* tx_pending and loader_link_sent.
LeaveAfterReply == txPending /\ core.activatePending /\ tx.state = "sent"

\* Variant: the window ends even with a session open.
LeaveAfterWindowAlways == ~stay /\ age.boot >= BootWindow

\* Variant: any answer given keeps the Loader resident.
LeaveAfterWindowUnasked ==
    /\ ~stay /\ core.session = NoSession /\ age.boot >= BootWindow
    /\ tx.state = "none"

LeaveAfterWindow == ~stay /\ core.session = NoSession /\ age.boot >= BootWindow

\* The rest of the loop body, after the request if there was one.
Rest ==
    /\ where = "loader" /\ loop = "rest"
    /\ IF (LeaveAfterReply \/ LeaveAfterWindow) /\ BootValid(app, rec)
       THEN Jump
       ELSE /\ IF Expired THEN Tick ELSE UNCHANGED vars
            /\ stay' = (stay \/ core.session # NoSession \/ LeaveAfterWindow)
            /\ txPending' = (txPending /\ core.activatePending /\ age.pending <= TxLimit)
            /\ mail' = (mail /\ ~LeaveAfterReply)
            /\ loop' = "pop"
            /\ UNCHANGED <<where, linkVars, tx>>
            /\ SetAge(age)

Loop == Pop \/ Work \/ Send \/ Rest

-----------------------------------------------------------------------------
(* Resets.  main() takes the mailbox once, and believes it only after a    *)
(* software reset without brown-out.                                       *)

\* Variant: the core's RAM is not initialised.
RestartKeepsRam(cause) ==
    /\ Interrupted
    /\ job' = Idle /\ reply' = NoReply /\ UNCHANGED core
    /\ where' \in {"loader", "halted"}
    /\ stay' = (cause = "soft" /\ mail)
    /\ mail' = FALSE
    /\ loop' = "pop"
    /\ ring' = <<>> /\ fifo' = <<>> /\ rxFlag' = FALSE
    /\ tx' = NoTx /\ txPending' = FALSE /\ age' = Ages

Restart(cause) ==
    /\ PowerLoss
    /\ where' \in {"loader", "halted"}
    /\ stay' = (cause = "soft" /\ mail)
    /\ mail' = FALSE
    /\ loop' = "pop"
    /\ ring' = <<>> /\ fifo' = <<>> /\ rxFlag' = FALSE
    /\ tx' = NoTx /\ txPending' = FALSE /\ age' = Ages

\* The supply or the reset pin, at any moment and anywhere.
HardReset == Restart("hard")

\* The APP resets itself, with a mailbox (Boot_ResetToLoader) or without.
AppWritesMailbox ==
    /\ where = "app" /\ ~mail
    /\ mail' = TRUE
    /\ UNCHANGED <<vars, where, stay, loop, linkVars, tx, txPending, age>>

SoftReset == where = "app" /\ Restart("soft")

\* What happens in the part while the bus brings nothing and takes nothing.
Running ==
    \/ RxInterrupt
    \/ CancelTakesEffect
    \/ Millisecond
    \/ Loop

Resets ==
    \/ HardReset
    \/ AppWritesMailbox
    \/ SoftReset

MainNext ==
    \/ \E r \in Requests : Arrive(r)
    \/ Transmit
    \/ Running
    \/ Resets

MainSpec == MainInit /\ [][MainNext]_allVars

-----------------------------------------------------------------------------
(* Properties.                                                             *)

\* Everything the loop and the link hold is what its C declaration allows.
MainTypeOK ==
    /\ where \in {"loader", "app", "halted"}
    /\ mail \in BOOLEAN /\ stay \in BOOLEAN
    /\ loop \in {"pop", "handle", "rest"}
    /\ \A i \in 1 .. Len(ring) : ring[i] \in Requests
    /\ \A i \in 1 .. Len(fifo) : fifo[i] \in Requests
    /\ Len(ring) < RingSize /\ Len(fifo) <= FifoDepth
    /\ rxFlag \in BOOLEAN /\ txPending \in BOOLEAN
    /\ tx.state \in {"none", "pending", "cancelling", "cancelled", "sent"}
    /\ age \in [boot : 0 .. BootWindow, tx : 0 .. TxLimit,
                pending : 0 .. TxLimit + 1, idle : 0 .. IdleLimit + 1]

(* The loop, the link, the clock and the resets around it drive the core   *)
(* only through its own steps, so what holds of LoaderCore holds here.     *)
ImplementsCore == Spec

(* The Loader leaves for the APP with a session open only when the record  *)
(* names that session's image and some reply has left since; without a     *)
(* session only if none was opened since the reset.                        *)
LeavesCommitted ==
    [][where = "loader" /\ where' = "app" =>
          /\ BootValid(app, rec)
          /\ IF core.session = NoSession THEN ~stay
             ELSE rec = RecordEncode(core.image) /\ tx.state = "sent"]_allVars

\* No request is on its way or being handled.
Quiet == where = "loader" /\ ring = <<>> /\ fifo = <<>> /\ loop # "handle"

(* A download whose client vanished is closed by the 30 s rule.            *)
AbandonedDownloadEnds ==
    []((core.session # NoSession /\ ~core.activatePending /\ []Quiet)
          => <>(core.session = NoSession))

(* With no session and nobody asking, a valid image boots once the window  *)
(* has passed: queries answered before do not hold the Loader.             *)
ValidImageBoots ==
    []((~stay /\ core.session = NoSession /\ BootValid(app, rec) /\ []Quiet)
          => <>(where = "app"))
=============================================================================
