------------------------------ MODULE CanLink -------------------------------
(***************************************************************************)
(* The motor firmware's side of the CAN bus: the receive interrupt         *)
(* (CANRxIRQHandler) over the peripheral's FIFO, the one reply slot it     *)
(* fills and the foreground (CAN_SendMessage) empties, the status mailbox  *)
(* that the foreground asks and the 20 kHz tick fills (motor_status.c),    *)
(* the stream's configuration (can_motor_status.c) and the 1 kHz           *)
(* supervisor that applies a new bit rate.  What a command does to the     *)
(* motor is MotorMode's; what a BOOT request does to all this is           *)
(* BootHandoff's.                                                          *)
(*                                                                         *)
(* The interrupt and the tick are one step each: the foreground and the    *)
(* supervisor are what they interrupt.  An interrupt may be as late as it  *)
(* likes, since a flash save masks it for tens of milliseconds.            *)
(***************************************************************************)
EXTENDS Integers, Sequences, FiniteSets, Functions

CONSTANTS
    Nodes,          \* node numbers (0 .. 7 in the code)
    Rates,          \* legal bit rates
    FirstRate,      \* the one the peripheral starts with (1000 kbit/s)
    NoNode,         \* the value of an empty filter element, or of no request
    Kinds,          \* kinds of frames the host sends
    MaxFrames,      \* bound: frames the host sends
    FifoDepth       \* elements of RX FIFO 0 (3 on this part)

ASSUME CanAssumption ==
    /\ NoNode \notin Nodes
    /\ FirstRate \in Rates
    /\ Kinds \subseteq {"get", "crc", "on", "off", "node", "rate"}
    /\ MaxFrames \in Nat
    /\ FifoDepth \in Nat \ {0}

VARIABLES
    bus,            \* the peripheral: frames sent so far, fifo, the new-message
                    \* flag, the node filter and the bit rate it works at
    can,            \* CANMsg: node_id and baudrate
    slot,           \* can_reply: state, the request its ID is of, and the data's
    config,         \* CanMotorStatus configuration: epoch and enabled
    mail,           \* the status mailbox: state, and the epoch of the sample
    fg,             \* CAN_SendMessage: where it is and what it has read; and
                    \* seen and due of CanMotorStatus_Prepare
    tim,            \* CAN_BaudRateSwitching: step, baudrate_last
    tx,             \* frame in the transmit queue
    asked,          \* history: requests a slot was given to
    given           \* history: replies handed to the peripheral

vars == <<bus, can, slot, config, mail, fg, tim, tx, asked, given>>

\* A frame is numbered, so that two requests of a kind are told apart.
Values(kind) == CASE kind = "node" -> Nodes [] kind = "rate" -> Rates
                  [] OTHER -> {NoNode}
Frames ==
    {f \in [n : 1 .. MaxFrames, node : Nodes, kind : Kinds,
            value : Nodes \cup Rates \cup {NoNode}] : f.value \in Values(f.kind)}

NoRequest == [n |-> 0, node |-> NoNode, kind |-> "none", value |-> NoNode]
FreeSlot == [state |-> "FREE", head |-> NoRequest, body |-> NoRequest]

CanInit ==
    /\ \E node \in Nodes :
          /\ bus = [sent |-> 0, fifo |-> <<>>, flag |-> FALSE,
                    filter |-> node, rate |-> FirstRate]
          /\ can = [node |-> node, rate |-> FirstRate]
    /\ tim = [step |-> "idle", last |-> FirstRate, apply |-> FirstRate]
    /\ slot = FreeSlot
    /\ config = [epoch |-> 1, on |-> FALSE]
    /\ mail = [state |-> "EMPTY", epoch |-> 0]
    /\ fg = [at |-> "idle", epoch |-> 0, on |-> FALSE, seen |-> 0, due |-> FALSE,
             sample |-> 0, head |-> NoRequest, body |-> NoRequest]
    /\ tx = "empty"
    /\ asked = {} /\ given = <<>>

-----------------------------------------------------------------------------
(* The bus                                                                 *)

\* A frame reaches the filter; what passes goes to the FIFO, if it has room.
Arrive ==
    /\ bus.sent < MaxFrames
    /\ \E f \in Frames :
          /\ f.n = bus.sent + 1
          /\ bus' = IF f.node = bus.filter /\ Len(bus.fifo) < FifoDepth
                    THEN [bus EXCEPT !.sent = f.n, !.fifo = Append(@, f), !.flag = TRUE]
                    ELSE [bus EXCEPT !.sent = f.n]
    /\ UNCHANGED <<can, slot, config, mail, fg, tim, tx, asked, given>>

\* The frame in the queue wins the arbitration and is acknowledged.
Transmit ==
    /\ tx # "empty"
    /\ tx' = "empty"
    /\ UNCHANGED <<bus, can, slot, config, mail, fg, tim, asked, given>>

-----------------------------------------------------------------------------
(* The receive interrupt: one frame per interrupt                          *)

\* Variant: the slot is filled whatever state it is in.
QueueOver(f, state, body) ==
    /\ slot' = [state |-> state, head |-> f, body |-> body]
    /\ asked' = asked \cup {f}

\* CAN_QueueReply: a request that finds the slot taken is dropped.
Queue(f, state, body) ==
    IF slot.state # "FREE" THEN UNCHANGED <<slot, asked>>
    ELSE /\ slot' = [state |-> state, head |-> f, body |-> body]
         /\ asked' = asked \cup {f}

\* CAN_SetNode: the filter first, the number only when that went well; the
\* refusals (motor on, hardware error) are the motor's and the bus's.
SetNode(f) ==
    \/ /\ f.value # can.node
       /\ can' = [can EXCEPT !.node = f.value]
       /\ bus' = [bus EXCEPT !.fifo = Tail(@), !.flag = FALSE, !.filter = f.value]
    \/ /\ bus' = [bus EXCEPT !.fifo = Tail(@), !.flag = FALSE]
       /\ UNCHANGED can

\* CANRxIRQHandler on the oldest frame; HAL_FDCAN_IRQHandler has cleared the flag.
Receive(f) ==
    /\ IF f.node = can.node /\ f.kind = "node" THEN SetNode(f)
       ELSE /\ bus' = [bus EXCEPT !.fifo = Tail(@), !.flag = FALSE]
            /\ can' = IF f.node = can.node /\ f.kind = "rate"
                      THEN [can EXCEPT !.rate = f.value] ELSE can
    /\ config' = IF f.node = can.node /\ f.kind \in {"on", "off"}
                 THEN [epoch |-> config.epoch + 1, on |-> f.kind = "on"] ELSE config
    /\ IF f.node # can.node THEN UNCHANGED <<slot, asked>>
       ELSE CASE f.kind = "get" -> Queue(f, "READY", f)
              [] f.kind = "crc" -> Queue(f, "CRC", NoRequest)
              [] OTHER          -> UNCHANGED <<slot, asked>>

RxInterrupt ==
    /\ bus.flag
    /\ IF bus.fifo = <<>>
       THEN /\ bus' = [bus EXCEPT !.flag = FALSE]
            /\ UNCHANGED <<can, slot, config, asked>>
       ELSE Receive(Head(bus.fifo))
    /\ UNCHANGED <<mail, fg, tim, tx, given>>

-----------------------------------------------------------------------------
(* The 20 kHz tick fills the mailbox when it is asked to                   *)

Publish ==
    /\ mail.state = "REQUESTED"
    /\ mail' = [state |-> "READY", epoch |-> config.epoch]
    /\ UNCHANGED <<bus, can, slot, config, fg, tim, tx, asked, given>>

-----------------------------------------------------------------------------
(* The foreground: status frames while the slot is free                    *)

Idle(f) == [f EXCEPT !.at = "idle", !.epoch = 0, !.on = FALSE, !.sample = 0,
                     !.head = NoRequest, !.body = NoRequest]

\* CAN_SendMessage with the slot free: Prepare reads the configuration.
PrepareRead ==
    /\ fg.at = "idle"
    /\ slot.state = "FREE"
    /\ fg' = [fg EXCEPT !.at = "read", !.epoch = config.epoch, !.on = config.on]
    /\ UNCHANGED <<bus, can, slot, config, mail, tim, tx, asked, given>>

EmptyMail == [state |-> "EMPTY", epoch |-> 0]
Take(m)    == IF m.state = "READY" THEN EmptyMail ELSE m
Ask(m)     == IF m.state = "EMPTY" THEN [m EXCEPT !.state = "REQUESTED"] ELSE m

\* Variant: the new configuration is noted, the old observation kept.
PrepareChangedKeeping ==
    /\ fg.at = "read"
    /\ fg.epoch # fg.seen
    /\ fg' = Idle([fg EXCEPT !.seen = fg.epoch, !.due = FALSE])
    /\ UNCHANGED <<bus, can, slot, config, mail, tim, tx, asked, given>>

\* A configuration not seen before: an observation made before it is dropped.
PrepareChanged ==
    /\ fg.at = "read"
    /\ fg.epoch # fg.seen
    /\ mail' = Take(mail)
    /\ fg' = Idle([fg EXCEPT !.seen = fg.epoch, !.due = FALSE])
    /\ UNCHANGED <<bus, can, slot, config, tim, tx, asked, given>>

\* The period may have elapsed; a sample still there from the last one is old.
PrepareSample ==
    /\ fg.at = "read"
    /\ fg.epoch = fg.seen
    /\ UNCHANGED <<bus, can, slot, config, tim, tx, asked, given>>
    /\ \E elapsed \in BOOLEAN :
         LET due   == fg.on /\ (fg.due \/ elapsed)
             fresh == IF elapsed /\ fg.due THEN Take(mail) ELSE mail
         IN  \/ /\ ~due
                /\ fg' = Idle(fg)
                /\ UNCHANGED mail
             \/ /\ due /\ fresh.state = "READY"
                /\ fg' = [fg EXCEPT !.at = "taken", !.sample = fresh.epoch, !.due = FALSE]
                /\ mail' = Take(fresh)
             \/ /\ due /\ fresh.state # "READY"
                /\ fg' = Idle([fg EXCEPT !.due = TRUE])
                /\ mail' = Ask(fresh)

\* Back in Prepare with the sample: a command meanwhile makes it worthless.
PrepareCheck ==
    /\ fg.at = "taken"
    /\ fg' = IF config.epoch = fg.epoch THEN [fg EXCEPT !.at = "built"] ELSE Idle(fg)
    /\ UNCHANGED <<bus, can, slot, config, mail, tim, tx, asked, given>>

\* comm_hw_can_try_send_status, unless a reply is waiting by now.
SendStatus ==
    /\ fg.at = "built"
    /\ tx' = IF slot.state = "FREE" /\ tx = "empty" THEN "status" ELSE tx
    /\ fg' = Idle(fg)
    /\ UNCHANGED <<bus, can, slot, config, mail, tim, asked, given>>

-----------------------------------------------------------------------------
(* The foreground: the reply in the slot                                   *)

\* The parameters' CRC is computed once for the request and made READY.
Compute ==
    /\ fg.at = "idle"
    /\ slot.state = "CRC"
    /\ slot' = [slot EXCEPT !.state = "READY", !.body = slot.head]
    /\ UNCHANGED <<bus, can, config, mail, fg, tim, tx, asked, given>>

\* The identifier, then the payload, are copied out of the slot ...
CopyHead ==
    /\ fg.at = "idle"
    /\ slot.state = "READY"
    /\ fg' = [fg EXCEPT !.at = "head", !.head = slot.head]
    /\ UNCHANGED <<bus, can, slot, config, mail, tim, tx, asked, given>>

CopyBody ==
    /\ fg.at = "head"
    /\ fg' = [fg EXCEPT !.at = "copied", !.body = slot.body]
    /\ UNCHANGED <<bus, can, slot, config, mail, tim, tx, asked, given>>

\* Variant: the slot is marked as being sent, and a busy queue leaves it so.
SendReplyOnce ==
    /\ fg.at = "copied"
    /\ IF tx = "empty"
       THEN /\ tx' = "reply"
            /\ given' = Append(given, [head |-> fg.head, body |-> fg.body])
            /\ fg' = [Idle(fg) EXCEPT !.at = "release"]
            /\ UNCHANGED slot
       ELSE /\ fg' = Idle(fg)
            /\ slot' = [slot EXCEPT !.state = "SENDING"]
            /\ UNCHANGED <<tx, given>>
    /\ UNCHANGED <<bus, can, config, mail, tim, asked>>

\* ... and handed over; a busy queue leaves the slot as it is for the next try.
SendReply ==
    /\ fg.at = "copied"
    /\ IF tx = "empty"
       THEN /\ tx' = "reply"
            /\ given' = Append(given, [head |-> fg.head, body |-> fg.body])
            /\ fg' = [Idle(fg) EXCEPT !.at = "release"]
       ELSE /\ fg' = Idle(fg)
            /\ UNCHANGED <<tx, given>>
    /\ UNCHANGED <<bus, can, slot, config, mail, tim, asked>>

ReleaseSlot ==
    /\ fg.at = "release"
    /\ slot' = FreeSlot
    /\ fg' = Idle(fg)
    /\ UNCHANGED <<bus, can, config, mail, tim, tx, asked, given>>

CanForeground ==
    \/ PrepareRead \/ PrepareChanged \/ PrepareSample \/ PrepareCheck \/ SendStatus
    \/ Compute \/ CopyHead \/ CopyBody \/ SendReply \/ ReleaseSlot

-----------------------------------------------------------------------------
(* The supervisor applies a new bit rate: it compares, re-initialises the  *)
(* peripheral and remembers; a command may come between any two of these.  *)

RateCompare ==
    /\ tim.step = "idle"
    /\ tim' = IF tim.last = can.rate THEN [tim EXCEPT !.step = "remember"]
              ELSE [tim EXCEPT !.step = "apply", !.apply = can.rate]
    /\ UNCHANGED <<bus, can, slot, config, mail, fg, tx, asked, given>>

\* Stop, Init and Start: Init zeroes the message RAM, filter element included,
\* and what was queued either way is gone.
RateApply ==
    /\ tim.step = "apply"
    /\ bus' = [bus EXCEPT !.fifo = <<>>, !.filter = NoNode, !.rate = tim.apply]
    /\ tx' = "empty"
    /\ tim' = [tim EXCEPT !.step = "remember"]
    /\ UNCHANGED <<can, slot, config, mail, fg, asked, given>>

RateRemember ==
    /\ tim.step = "remember"
    /\ tim' = [step |-> "idle", last |-> can.rate, apply |-> can.rate]
    /\ UNCHANGED <<bus, can, slot, config, mail, fg, tx, asked, given>>

CanSupervisor == RateCompare \/ RateApply \/ RateRemember

CanNext == Arrive \/ Transmit \/ RxInterrupt \/ Publish \/ CanForeground \/ CanSupervisor

CanSpec == CanInit /\ [][CanNext]_vars

(* The bus, the interrupts and both loops keep going; the host need not.   *)
FairCan ==
    /\ CanSpec
    /\ WF_vars(Transmit)
    /\ WF_vars(RxInterrupt)
    /\ WF_vars(Publish)
    /\ WF_vars(CanForeground)
    /\ WF_vars(CanSupervisor)

-----------------------------------------------------------------------------

Requests == Frames \cup {NoRequest}
Steps == {"idle", "read", "taken", "built", "head", "copied", "release"}

\* Values in range.
CanTypeOK ==
    /\ bus \in [sent : 0 .. MaxFrames, fifo : Seq(Frames), flag : BOOLEAN,
                filter : Nodes \cup {NoNode}, rate : Rates]
    /\ can \in [node : Nodes, rate : Rates]
    /\ slot \in [state : {"FREE", "CRC", "READY"}, head : Requests, body : Requests]
    /\ config \in [epoch : Nat, on : BOOLEAN]
    /\ mail \in [state : {"EMPTY", "REQUESTED", "READY"}, epoch : Nat]
    /\ fg \in [at : Steps, epoch : Nat, on : BOOLEAN, seen : Nat, due : BOOLEAN,
               sample : Nat, head : Requests, body : Requests]
    /\ tim \in [step : {"idle", "apply", "remember"}, last : Rates, apply : Rates]
    /\ tx \in {"empty", "status", "reply"}
    /\ asked \subseteq Requests
    /\ given \in Seq([head : Requests, body : Requests])

(* Every request that got the slot is answered once, with the answer to    *)
(* that very request, node number included, and nothing else is answered:  *)
(* neither a query during a CRC or a transmission, nor a new node number,  *)
(* nor a busy queue can mix two replies, lose one or repeat one.           *)
AnsweredOnce ==
    LET answered == {r.head : r \in Range(given)}
    IN  /\ \A r \in Range(given) : r.body = r.head
        /\ Cardinality(answered) = Len(given)
        /\ answered \cup (IF slot.state = "FREE" THEN {} ELSE {slot.head}) = asked
        /\ slot.state # "FREE" /\ fg.at # "release" => slot.head \notin answered

(* A status frame that is about to be sent was sampled under the stream's  *)
(* configuration it is built for, never before that command.               *)
StatusIsFresh == fg.at = "built" => fg.sample = fg.epoch

(* The slot is given back: a reply that meets a busy queue is tried again  *)
(* and leaves.                                                             *)
SlotFrees == slot.state # "FREE" ~> slot.state = "FREE"

(* A frame in the FIFO is handled once the interrupt that was running ends *)
(* (interface_can.c: new frames are handled after this ISR has left).      *)
FramesHandled ==
    \A n \in 1 .. MaxFrames :
        (\E f \in Range(bus.fifo) : f.n = n) ~> ~(\E f \in Range(bus.fifo) : f.n = n)

(* The node filter stands at the node number the firmware answers to.      *)
FilterIsNode == bus.filter = can.node
=============================================================================
