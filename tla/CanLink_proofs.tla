--------------------------- MODULE CanLink_proofs ---------------------------
(***************************************************************************)
(* Replies and status frames, for any number of nodes, bit rates and       *)
(* frames and any depth of the FIFO: TLC sees three frames and two         *)
(* elements.                                                               *)
(***************************************************************************)
EXTENDS CanLink, FiniteSetTheorems, TLAPS

\* The requests that were answered so far.
Answered == {r.head : r \in Range(given)}

\* Frames are in the FIFO in the order they were sent, and behind every request
\* the interrupt has queued.
FifoInv ==
    /\ \A i, j \in 1 .. Len(bus.fifo) : i < j => bus.fifo[i].n < bus.fifo[j].n
    /\ \A i \in 1 .. Len(bus.fifo) : bus.fifo[i].n <= bus.sent
    /\ \A f \in asked : f.n <= bus.sent
    /\ \A f \in asked, i \in 1 .. Len(bus.fifo) : f.n < bus.fifo[i].n

\* A slot being sent is not filled again, and what is copied is what is in it.
SlotInv ==
    /\ slot.state = "READY" => slot.body = slot.head
    /\ fg.at \in {"head", "copied", "release"} => slot.state = "READY"
    /\ fg.at \in {"head", "copied"} => fg.head = slot.head
    /\ fg.at = "copied" => fg.body = slot.body
    /\ fg.at = "release" => slot.head \in Answered
    /\ IsFiniteSet(Answered)

\* An observation in the mailbox is of a configuration the foreground has seen
\* or of a later one; one that was taken is of the one it read or a later one.
MailInv ==
    /\ fg.seen <= config.epoch
    /\ mail.state = "READY" => fg.seen <= mail.epoch /\ mail.epoch <= config.epoch
    /\ fg.at \in {"read", "taken", "built"} =>
          fg.seen <= fg.epoch /\ fg.epoch <= config.epoch
    /\ fg.at \in {"taken", "built"} => fg.seen = fg.epoch /\ fg.epoch <= fg.sample
    /\ fg.at = "taken" => fg.sample <= config.epoch
    /\ StatusIsFresh

LinkInv == CanTypeOK /\ FifoInv /\ SlotInv /\ AnsweredOnce /\ MailInv

FgSet == [at : Steps, epoch : Nat, on : BOOLEAN, seen : Nat, due : BOOLEAN,
          sample : Nat, head : Requests, body : Requests]
BusSet == [sent : 0 .. MaxFrames, fifo : Seq(Frames), flag : BOOLEAN,
           filter : Nodes \cup {NoNode}, rate : Rates]
SlotSet == [state : {"FREE", "CRC", "READY"}, head : Requests, body : Requests]
ConfigSet == [epoch : Nat, on : BOOLEAN]
MailSet == [state : {"EMPTY", "REQUESTED", "READY"}, epoch : Nat]
ReplySet == [head : Requests, body : Requests]
TimSet == [step : {"idle", "apply", "remember"}, last : Rates, apply : Rates]

Typed ==
    /\ bus \in BusSet /\ slot \in SlotSet /\ config \in ConfigSet /\ mail \in MailSet
    /\ fg \in FgSet /\ can \in [node : Nodes, rate : Rates]
    /\ tim \in TimSet
    /\ tx \in {"empty", "status", "reply"} /\ asked \subseteq Requests
    /\ given \in Seq(ReplySet)

LEMMA TypeFacts == (CanTypeOK <=> Typed) /\ (CanTypeOK' <=> Typed')
  BY Zenon DEF CanTypeOK, Typed, BusSet, SlotSet, ConfigSet, MailSet, FgSet, ReplySet, TimSet

-----------------------------------------------------------------------------
(* Operators.                                                              *)

LEMMA FrameFacts ==
    ASSUME NEW f \in Frames
    PROVE  /\ f \in Requests /\ f.n \in Nat /\ f.node \in Nodes
           /\ f.kind = "node" => f.value \in Nodes
           /\ f.kind = "rate" => f.value \in Rates
<1>1. f.n \in 1 .. MaxFrames /\ f.node \in Nodes /\ f.value \in Values(f.kind)
  BY DEF Frames
<1>2. f \in Requests /\ f.n \in Nat
  BY <1>1, CanAssumption DEF Requests
<1>3. /\ f.kind = "node" => Values(f.kind) = Nodes
      /\ f.kind = "rate" => Values(f.kind) = Rates
  BY DEF Values
<1>4. QED
  BY <1>1, <1>2, <1>3

LEMMA IdleFacts ==
    ASSUME NEW f \in FgSet
    PROVE  /\ Idle(f) \in FgSet
           /\ Idle(f).at = "idle" /\ Idle(f).seen = f.seen /\ Idle(f).due = f.due
<1>1. "idle" \in Steps /\ 0 \in Nat /\ FALSE \in BOOLEAN /\ NoRequest \in Requests
  BY DEF Steps, Requests
<1>2. Idle(f) \in FgSet
  BY <1>1, Zenon DEF Idle, FgSet
<1>3. QED
  BY <1>2 DEF Idle, FgSet

\* Nothing left in a queue is older than what was taken out.
LEMMA TailFacts ==
    ASSUME NEW S, NEW s \in Seq(S), s # <<>>
    PROVE  /\ Head(s) \in S /\ Head(s) = s[1]
           /\ Tail(s) \in Seq(S) /\ Len(Tail(s)) = Len(s) - 1
           /\ \A i \in 1 .. Len(Tail(s)) : Tail(s)[i] = s[i + 1] /\ i + 1 \in 1 .. Len(s)
  OBVIOUS

LEMMA AppendFacts ==
    ASSUME NEW S, NEW s \in Seq(S), NEW x \in S
    PROVE  /\ Append(s, x) \in Seq(S) /\ Len(Append(s, x)) = Len(s) + 1
           /\ \A i \in 1 .. Len(s) : Append(s, x)[i] = s[i]
           /\ Append(s, x)[Len(s) + 1] = x
  OBVIOUS

LEMMA RangeAppend ==
    ASSUME NEW S, NEW s \in Seq(S), NEW x \in S
    PROVE  Range(Append(s, x)) = Range(s) \cup {x}
<1>1. DOMAIN Append(s, x) = 1 .. Len(s) + 1 /\ DOMAIN s = 1 .. Len(s) /\ Len(s) \in Nat
  BY AppendFacts
<1>2. Range(Append(s, x)) \subseteq Range(s) \cup {x}
  BY <1>1, AppendFacts DEF Range
<1>3. x \in Range(Append(s, x))
  BY <1>1, AppendFacts DEF Range
<1>4. Range(s) \subseteq Range(Append(s, x))
  <2>1. SUFFICES ASSUME NEW i \in 1 .. Len(s) PROVE s[i] \in Range(Append(s, x))
    BY <1>1 DEF Range
  <2>2. Append(s, x)[i] = s[i] /\ i \in DOMAIN Append(s, x)
    BY <1>1, AppendFacts
  <2>3. QED
    BY <2>2 DEF Range
<1>5. QED
  BY <1>2, <1>3, <1>4
-----------------------------------------------------------------------------
(* The receive interrupt, and types.                                       *)

\* What a frame may do to a free slot.
Queued(f) ==
    /\ slot.state = "FREE"
    /\ slot' \in SlotSet /\ slot'.state \in {"CRC", "READY"} /\ slot'.head = f
    /\ slot'.state = "READY" => slot'.body = f
    /\ asked' = asked \cup {f}

LEMMA QueueFacts ==
    ASSUME NEW f \in Frames, NEW t \in {"CRC", "READY"}, NEW b \in Requests,
           t = "READY" => b = f, Queue(f, t, b)
    PROVE  UNCHANGED <<slot, asked>> \/ Queued(f)
<1>1. CASE slot.state # "FREE"
  BY <1>1 DEF Queue
<1>2. CASE slot.state = "FREE"
  <2>1. slot' = [state |-> t, head |-> f, body |-> b] /\ asked' = asked \cup {f}
    BY <1>2 DEF Queue
  <2>2. f \in Requests
    BY FrameFacts
  <2>3. QED
    BY <1>2, <2>1, <2>2 DEF Queued, SlotSet
<1>3. QED
  BY <1>1, <1>2

LEMMA ReceiveFacts ==
    ASSUME CanTypeOK, bus.fifo # <<>>, NEW f, f = Head(bus.fifo), Receive(f)
    PROVE  /\ f \in Frames
           /\ bus' \in BusSet /\ bus'.fifo = Tail(bus.fifo) /\ bus'.sent = bus.sent
           /\ can' \in [node : Nodes, rate : Rates]
           /\ config' \in ConfigSet /\ config'.epoch \in {config.epoch, config.epoch + 1}
           /\ UNCHANGED <<slot, asked>> \/ Queued(f)
<1>1. /\ bus \in BusSet /\ bus.fifo \in Seq(Frames) /\ config \in ConfigSet
      /\ can \in [node : Nodes, rate : Rates]
  BY TypeFacts DEF Typed, BusSet
<1>2. f \in Frames /\ Tail(bus.fifo) \in Seq(Frames)
  BY <1>1, TailFacts
<1>3. bus' \in {[bus EXCEPT !.fifo = Tail(@), !.flag = FALSE],
                [bus EXCEPT !.fifo = Tail(@), !.flag = FALSE, !.filter = f.value]}
      /\ (bus' # [bus EXCEPT !.fifo = Tail(@), !.flag = FALSE] => f.value \in Nodes)
  BY <1>2, FrameFacts, Zenon DEF Receive, SetNode
<1>4. bus' \in BusSet
  BY <1>1, <1>2, <1>3, Zenon DEF BusSet
<1>5. bus'.fifo = Tail(bus.fifo) /\ bus'.sent = bus.sent
  BY <1>1, <1>3 DEF BusSet
<1>6. can' \in [node : Nodes, rate : Rates]
  <2>1. \/ can' = can
        \/ can' = [can EXCEPT !.node = f.value] /\ f.value \in Nodes
        \/ can' = [can EXCEPT !.rate = f.value] /\ f.value \in Rates
    BY <1>2, FrameFacts, Zenon DEF Receive, SetNode
  <2>2. QED
    BY <1>1, <2>1
<1>7. config' \in ConfigSet /\ config'.epoch \in {config.epoch, config.epoch + 1}
  <2>1. (f.kind = "on") \in BOOLEAN
    OBVIOUS
  <2>2. \E b \in BOOLEAN : \/ config' = config
                           \/ config' = [epoch |-> config.epoch + 1, on |-> b]
    BY <2>1, Zenon DEF Receive
  <2>3. QED
    BY <1>1, <2>2 DEF ConfigSet
<1>8. UNCHANGED <<slot, asked>> \/ Queued(f)
  <2>1. \/ UNCHANGED <<slot, asked>>
        \/ Queue(f, "READY", f)
        \/ Queue(f, "CRC", NoRequest)
    BY Zenon DEF Receive
  <2>2. f \in Requests /\ NoRequest \in Requests
    BY <1>2 DEF Requests
  <2>3. QED
    BY <1>2, <2>1, <2>2, QueueFacts
<1>9. QED
  BY <1>2, <1>4, <1>5, <1>6, <1>7, <1>8

LEMMA RxFacts ==
    ASSUME CanTypeOK, RxInterrupt
    PROVE  /\ bus' \in BusSet /\ can' \in [node : Nodes, rate : Rates]
           /\ config' \in ConfigSet /\ config'.epoch \in {config.epoch, config.epoch + 1}
           /\ bus'.sent = bus.sent
           /\ \/ bus'.fifo = bus.fifo /\ UNCHANGED <<slot, asked>>
              \/ /\ bus.fifo # <<>> /\ bus'.fifo = Tail(bus.fifo)
                 /\ UNCHANGED <<slot, asked>> \/ Queued(Head(bus.fifo))
           /\ UNCHANGED <<mail, fg, tim, tx, given>>
<1>1. CASE bus.fifo = <<>>
  <2>1. bus' = [bus EXCEPT !.flag = FALSE] /\ UNCHANGED <<can, slot, config, asked>>
        /\ UNCHANGED <<mail, fg, tim, tx, given>>
    BY <1>1 DEF RxInterrupt
  <2>2. bus \in BusSet
    BY TypeFacts DEF Typed
  <2>3. bus' \in BusSet /\ bus'.fifo = bus.fifo /\ bus'.sent = bus.sent
    BY <2>1, <2>2 DEF BusSet
  <2>4. QED
    BY <2>1, <2>3, TypeFacts DEF Typed
<1>2. CASE bus.fifo # <<>>
  BY <1>2, ReceiveFacts DEF RxInterrupt
<1>3. QED
  BY <1>1, <1>2

LEMMA QueuedTypes ==
    ASSUME CanTypeOK, NEW f \in Frames, Queued(f)
    PROVE  slot' \in SlotSet /\ asked' \subseteq Requests
  BY TypeFacts, FrameFacts DEF Typed, Queued

LEMMA RateFacts ==
    ASSUME NEW t \in TimSet, NEW r \in Rates
    PROVE  /\ [t EXCEPT !.step = "remember"] \in TimSet
           /\ [t EXCEPT !.step = "apply", !.apply = r] \in TimSet
           /\ [step |-> "idle", last |-> r, apply |-> r] \in TimSet
  BY DEF TimSet

LEMMA BusTypes == CanTypeOK /\ (Arrive \/ RxInterrupt \/ RateApply) => CanTypeOK'
<1> SUFFICES ASSUME CanTypeOK, Arrive \/ RxInterrupt \/ RateApply PROVE CanTypeOK'
  OBVIOUS
<1> USE TypeFacts DEF Typed
<1>1. ASSUME Arrive PROVE CanTypeOK'
  <2>1. PICK f \in Frames :
           /\ f.n = bus.sent + 1
           /\ bus' = IF f.node = bus.filter /\ Len(bus.fifo) < FifoDepth
                     THEN [bus EXCEPT !.sent = f.n, !.fifo = Append(@, f), !.flag = TRUE]
                     ELSE [bus EXCEPT !.sent = f.n]
    BY <1>1, Zenon DEF Arrive
  <2>2. bus.sent \in 0 .. MaxFrames /\ bus.fifo \in Seq(Frames) /\ bus.sent < MaxFrames
    BY <1>1 DEF BusSet, Arrive
  <2>3. f.n \in 0 .. MaxFrames /\ Append(bus.fifo, f) \in Seq(Frames)
    BY <2>1, <2>2, CanAssumption, AppendFacts
  <2>4. bus' \in BusSet
    BY <2>1, <2>3, Zenon DEF BusSet
  <2>5. QED
    BY <1>1, <2>4, Zenon DEF Arrive
<1>2. ASSUME RxInterrupt PROVE CanTypeOK'
  <2>1. bus.fifo # <<>> => Head(bus.fifo) \in Frames
    BY TailFacts DEF BusSet
  <2>2. slot' \in SlotSet /\ asked' \subseteq Requests
    BY <1>2, <2>1, RxFacts, QueuedTypes
  <2>3. QED
    BY <1>2, <2>2, RxFacts
<1>3. ASSUME RateApply PROVE CanTypeOK'
  <2>1. <<>> \in Seq(Frames) /\ tim.apply \in Rates /\ "remember" \in {"idle", "apply", "remember"}
    BY DEF TimSet
  <2>2. bus' \in BusSet
    BY <1>3, <2>1, Zenon DEF RateApply, BusSet
  <2>3. tim' \in TimSet
    BY <1>3, RateFacts DEF RateApply
  <2>4. QED
    BY <1>3, <2>2, <2>3 DEF RateApply
<1>4. QED
  BY <1>1, <1>2, <1>3

LEMMA ForegroundTypes == CanTypeOK /\ CanForeground => CanTypeOK'
<1> SUFFICES ASSUME CanTypeOK, CanForeground PROVE CanTypeOK'
  OBVIOUS
<1> USE TypeFacts DEF Typed
<1>1. Steps = {"idle", "read", "taken", "built", "head", "copied", "release"}
  BY DEF Steps
<1>2. /\ fg.epoch \in Nat /\ config.epoch \in Nat /\ config.on \in BOOLEAN
      /\ slot.head \in Requests /\ slot.body \in Requests
      /\ fg.head \in Requests /\ fg.body \in Requests /\ mail.epoch \in Nat
  BY Zenon DEF FgSet, ConfigSet, SlotSet, MailSet
<1>3. Take(mail) \in MailSet /\ Ask(mail) \in MailSet /\ Ask(Take(mail)) \in MailSet
  BY DEF Take, Ask, EmptyMail, MailSet
<1>4. Idle(fg) \in FgSet
  BY IdleFacts
<1>5. ASSUME PrepareRead PROVE CanTypeOK'
  <2>1. fg' \in FgSet
    BY <1>1, <1>2, <1>5, Zenon DEF PrepareRead, FgSet
  <2>2. QED
    BY <1>5, <2>1 DEF PrepareRead
<1>6. ASSUME PrepareChanged PROVE CanTypeOK'
  <2>1. [fg EXCEPT !.seen = fg.epoch, !.due = FALSE] \in FgSet
    BY <1>2, Zenon DEF FgSet
  <2>2. fg' \in FgSet /\ mail' \in MailSet
    BY <1>3, <1>6, <2>1, IdleFacts DEF PrepareChanged
  <2>3. QED
    BY <1>6, <2>2 DEF PrepareChanged
<1>7. ASSUME PrepareSample PROVE CanTypeOK'
  <2>1. PICK elapsed \in BOOLEAN :
           LET due   == fg.on /\ (fg.due \/ elapsed)
               fresh == IF elapsed /\ fg.due THEN Take(mail) ELSE mail
           IN  \/ /\ ~due
                  /\ fg' = Idle(fg)
                  /\ UNCHANGED mail
               \/ /\ due /\ fresh.state = "READY"
                  /\ fg' = [fg EXCEPT !.at = "taken", !.sample = fresh.epoch, !.due = FALSE]
                  /\ mail' = Take(fresh)
               \/ /\ due /\ fresh.state # "READY"
                  /\ fg' = Idle([fg EXCEPT !.due = TRUE])
                  /\ mail' = Ask(fresh)
    BY <1>7, Zenon DEF PrepareSample
  <2> DEFINE fresh == IF elapsed /\ fg.due THEN Take(mail) ELSE mail
  <2>2. fresh \in MailSet /\ fresh.epoch \in Nat
    BY <1>3 DEF MailSet
  <2>3. Take(fresh) \in MailSet /\ Ask(fresh) \in MailSet
    BY <2>2 DEF Take, Ask, EmptyMail, MailSet
  <2>4. [fg EXCEPT !.at = "taken", !.sample = fresh.epoch, !.due = FALSE] \in FgSet
    BY <1>1, <2>2, Zenon DEF FgSet
  <2>5. [fg EXCEPT !.due = TRUE] \in FgSet
    BY Zenon DEF FgSet
  <2>6. fg' \in FgSet /\ mail' \in MailSet
    BY <1>4, <2>1, <2>3, <2>4, <2>5, IdleFacts, Zenon
  <2>7. QED
    BY <1>7, <2>6 DEF PrepareSample
<1>8. ASSUME PrepareCheck PROVE CanTypeOK'
  <2>1. [fg EXCEPT !.at = "built"] \in FgSet
    BY <1>1, Zenon DEF FgSet
  <2>2. fg' \in FgSet
    BY <1>4, <1>8, <2>1, Zenon DEF PrepareCheck
  <2>3. QED
    BY <1>8, <2>2 DEF PrepareCheck
<1>9. ASSUME SendStatus PROVE CanTypeOK'
  BY <1>4, <1>9 DEF SendStatus
<1>10. ASSUME Compute PROVE CanTypeOK'
  <2>1. slot' \in SlotSet
    BY <1>2, <1>10, Zenon DEF Compute, SlotSet
  <2>2. QED
    BY <1>10, <2>1 DEF Compute
<1>11. ASSUME CopyHead PROVE CanTypeOK'
  <2>1. fg' \in FgSet
    BY <1>1, <1>2, <1>11, Zenon DEF CopyHead, FgSet
  <2>2. QED
    BY <1>11, <2>1 DEF CopyHead
<1>12. ASSUME CopyBody PROVE CanTypeOK'
  <2>1. fg' \in FgSet
    BY <1>1, <1>2, <1>12, Zenon DEF CopyBody, FgSet
  <2>2. QED
    BY <1>12, <2>1 DEF CopyBody
<1>13. ASSUME SendReply PROVE CanTypeOK'
  <2>1. [Idle(fg) EXCEPT !.at = "release"] \in FgSet
    BY <1>1, <1>4, Zenon DEF FgSet
  <2>2. fg' \in FgSet
    BY <1>4, <1>13, <2>1, Zenon DEF SendReply
  <2>3. [head |-> fg.head, body |-> fg.body] \in ReplySet
    BY <1>2 DEF ReplySet
  <2>4. given' \in Seq(ReplySet)
    <3>1. given' \in {given, Append(given, [head |-> fg.head, body |-> fg.body])}
      BY <1>13, Zenon DEF SendReply
    <3>2. QED
      BY <2>3, <3>1, AppendFacts
  <2>5. QED
    BY <1>13, <2>2, <2>4 DEF SendReply
<1>14. ASSUME ReleaseSlot PROVE CanTypeOK'
  <2>1. FreeSlot \in SlotSet
    BY DEF FreeSlot, SlotSet, Requests
  <2>2. QED
    BY <1>4, <1>14, <2>1 DEF ReleaseSlot
<1>15. QED
  BY <1>5, <1>6, <1>7, <1>8, <1>9, <1>10, <1>11, <1>12, <1>13, <1>14 DEF CanForeground

LEMMA CanTypes == CanTypeOK /\ [CanNext]_vars => CanTypeOK'
<1> SUFFICES ASSUME CanTypeOK, [CanNext]_vars PROVE CanTypeOK'
  OBVIOUS
<1> USE TypeFacts DEF Typed
<1>1. ASSUME Transmit \/ Publish \/ RateCompare \/ RateRemember PROVE CanTypeOK'
  <2>1. can.rate \in Rates /\ config.epoch \in Nat
    BY DEF ConfigSet
  <2>2. mail' \in MailSet
    BY <1>1, <2>1 DEF Transmit, Publish, RateCompare, RateRemember, MailSet
  <2>3. tim' \in TimSet
    <3>1. \/ tim' = tim
          \/ tim' = [tim EXCEPT !.step = "remember"]
          \/ tim' = [tim EXCEPT !.step = "apply", !.apply = can.rate]
          \/ tim' = [step |-> "idle", last |-> can.rate, apply |-> can.rate]
      <4>1. CASE Transmit \/ Publish
        BY <4>1 DEF Transmit, Publish
      <4>2. CASE RateCompare
        BY <4>2, Zenon DEF RateCompare
      <4>3. CASE RateRemember
        BY <4>3, Zenon DEF RateRemember
      <4>4. QED
        BY <1>1, <4>1, <4>2, <4>3
    <3>2. QED
      BY <2>1, <3>1, RateFacts
  <2>4. QED
    BY <1>1, <2>2, <2>3 DEF Transmit, Publish, RateCompare, RateRemember
<1>2. CASE UNCHANGED vars
  BY <1>2 DEF vars
<1>3. QED
  BY <1>1, <1>2, BusTypes, ForegroundTypes DEF CanNext, CanSupervisor

-----------------------------------------------------------------------------
(* The FIFO.                                                               *)

LEMMA FifoKeeps == CanTypeOK /\ FifoInv /\ [CanNext]_vars => FifoInv'
<1> SUFFICES ASSUME CanTypeOK, FifoInv, [CanNext]_vars PROVE FifoInv'
  OBVIOUS
<1>1. /\ bus \in BusSet /\ bus.fifo \in Seq(Frames) /\ bus.sent \in Nat
      /\ asked \subseteq Requests /\ \A f \in asked : f.n \in Nat
  <2>1. \A f \in Requests : f.n \in Nat
    <3>1. NoRequest.n = 0
      BY DEF NoRequest
    <3>2. QED
      BY <3>1, FrameFacts DEF Requests
  <2>2. /\ bus \in BusSet /\ bus.fifo \in Seq(Frames) /\ bus.sent \in Nat
        /\ asked \subseteq Requests
    BY CanAssumption, TypeFacts DEF Typed, BusSet
  <2>3. QED
    BY <2>1, <2>2
<1>2. ASSUME Arrive PROVE FifoInv'
  <2>1. PICK f \in Frames :
           /\ f.n = bus.sent + 1
           /\ bus' = IF f.node = bus.filter /\ Len(bus.fifo) < FifoDepth
                     THEN [bus EXCEPT !.sent = f.n, !.fifo = Append(@, f), !.flag = TRUE]
                     ELSE [bus EXCEPT !.sent = f.n]
    BY <1>2, Zenon DEF Arrive
  <2>2. asked' = asked
    BY <1>2 DEF Arrive
  <2>3. bus'.sent = bus.sent + 1 /\ bus'.fifo \in {bus.fifo, Append(bus.fifo, f)}
    <3> DEFINE q == Append(bus.fifo, f)
    <3>1. \/ bus' = [bus EXCEPT !.sent = f.n, !.fifo = q, !.flag = TRUE]
          \/ bus' = [bus EXCEPT !.sent = f.n]
      BY <2>1, Zenon
    <3> HIDE DEF q
    <3>2. bus'.sent = f.n /\ bus'.fifo \in {bus.fifo, q}
      BY <1>1, <3>1 DEF BusSet
    <3>3. f.n = bus.sent + 1
      BY <2>1
    <3>4. QED
      BY <3>2, <3>3, Zenon DEF q
  <2>4. CASE bus'.fifo = bus.fifo
    <3>1. \A i \in 1 .. Len(bus.fifo) : bus.fifo[i].n \in Nat
      BY <1>1, FrameFacts
    <3>2. /\ \A i \in 1 .. Len(bus.fifo) : bus.fifo[i].n <= bus.sent + 1
          /\ \A g \in asked : g.n <= bus.sent + 1
      BY <1>1, <3>1 DEF FifoInv
    <3>3. QED
      BY <2>2, <2>3, <2>4, <3>2 DEF FifoInv
  <2>5. CASE bus'.fifo = Append(bus.fifo, f)
    <3>1. /\ Len(bus'.fifo) = Len(bus.fifo) + 1 /\ Len(bus.fifo) \in Nat
          /\ \A i \in 1 .. Len(bus.fifo) : bus'.fifo[i] = bus.fifo[i]
          /\ bus'.fifo[Len(bus.fifo) + 1] = f
      BY <1>1, <2>5, AppendFacts
    <3>2. \A i \in 1 .. Len(bus'.fifo) :
             bus'.fifo[i].n <= bus.sent + 1 /\ (i <= Len(bus.fifo) => bus'.fifo[i].n <= bus.sent)
      <4>1. TAKE i \in 1 .. Len(bus'.fifo)
      <4>2. CASE i = Len(bus.fifo) + 1
        BY <1>1, <2>1, <3>1, <4>2
      <4>3. CASE i \in 1 .. Len(bus.fifo)
        <5>1. bus.fifo[i] \in Frames /\ bus'.fifo[i] = bus.fifo[i]
              /\ bus.fifo[i].n <= bus.sent
          BY <1>1, <3>1, <4>3 DEF FifoInv
        <5>2. bus.fifo[i].n \in Nat
          BY <5>1, FrameFacts
        <5>3. QED
          BY <1>1, <5>1, <5>2
      <4>4. QED
        BY <3>1, <4>2, <4>3
    <3>3. \A i, j \in 1 .. Len(bus'.fifo) : i < j => bus'.fifo[i].n < bus'.fifo[j].n
      <4>1. TAKE i, j \in 1 .. Len(bus'.fifo)
      <4>2. HAVE i < j
      <4>3. i \in 1 .. Len(bus.fifo)
        BY <3>1, <4>2
      <4>4. CASE j = Len(bus.fifo) + 1
        <5>1. bus'.fifo[i].n <= bus.sent /\ bus'.fifo[i] = bus.fifo[i] /\ bus.fifo[i] \in Frames
          BY <1>1, <3>1, <3>2, <4>3
        <5>2. bus'.fifo[i].n \in Nat
          BY <5>1, FrameFacts
        <5>3. QED
          BY <1>1, <2>1, <3>1, <4>4, <5>1, <5>2
      <4>5. CASE j \in 1 .. Len(bus.fifo)
        BY <3>1, <4>2, <4>3, <4>5 DEF FifoInv
      <4>6. QED
        BY <3>1, <4>4, <4>5
    <3>4. \A g \in asked, i \in 1 .. Len(bus'.fifo) : g.n < bus'.fifo[i].n
      <4>1. TAKE g \in asked, i \in 1 .. Len(bus'.fifo)
      <4>2. CASE i = Len(bus.fifo) + 1
        BY <1>1, <2>1, <3>1, <4>2 DEF FifoInv
      <4>3. CASE i \in 1 .. Len(bus.fifo)
        BY <3>1, <4>3 DEF FifoInv
      <4>4. QED
        BY <3>1, <4>2, <4>3
    <3>5. \A g \in asked : g.n <= bus.sent + 1
      BY <1>1 DEF FifoInv
    <3>6. QED
      BY <2>2, <2>3, <3>2, <3>3, <3>4, <3>5 DEF FifoInv
  <2>6. QED
    BY <2>3, <2>4, <2>5
<1>3. ASSUME RxInterrupt PROVE FifoInv'
  <2>1. CASE bus'.fifo = bus.fifo /\ UNCHANGED <<slot, asked>>
    BY <1>3, <2>1, RxFacts DEF FifoInv
  <2>2. CASE bus.fifo # <<>> /\ bus'.fifo = Tail(bus.fifo)
             /\ (UNCHANGED <<slot, asked>> \/ Queued(Head(bus.fifo)))
    <3>1. /\ Len(bus'.fifo) = Len(bus.fifo) - 1 /\ Len(bus.fifo) \in Nat
          /\ \A i \in 1 .. Len(bus'.fifo) : /\ bus'.fifo[i] = bus.fifo[i + 1]
                                            /\ i + 1 \in 1 .. Len(bus.fifo)
          /\ Head(bus.fifo) = bus.fifo[1] /\ 1 \in 1 .. Len(bus.fifo)
      BY <1>1, <2>2, TailFacts
    <3>2. asked' \subseteq asked \cup {bus.fifo[1]} /\ bus'.sent = bus.sent
      BY <1>3, <2>2, <3>1, RxFacts DEF Queued
    <3>3. \A i, j \in 1 .. Len(bus'.fifo) : i < j => bus'.fifo[i].n < bus'.fifo[j].n
      <4>1. TAKE i, j \in 1 .. Len(bus'.fifo)
      <4>2. HAVE i < j
      <4>3. i + 1 \in 1 .. Len(bus.fifo) /\ j + 1 \in 1 .. Len(bus.fifo) /\ i + 1 < j + 1
        BY <3>1, <4>2
      <4>4. QED
        BY <3>1, <4>3 DEF FifoInv
    <3>4. \A i \in 1 .. Len(bus'.fifo) : bus'.fifo[i].n <= bus'.sent
      BY <3>1, <3>2 DEF FifoInv
    <3>5. \A g \in asked' : g.n <= bus'.sent
      BY <3>1, <3>2 DEF FifoInv
    <3>6. \A g \in asked', i \in 1 .. Len(bus'.fifo) : g.n < bus'.fifo[i].n
      <4>1. TAKE g \in asked', i \in 1 .. Len(bus'.fifo)
      <4>2. CASE g \in asked
        BY <3>1, <4>2 DEF FifoInv
      <4>3. CASE g = bus.fifo[1]
        <5>1. i + 1 \in 1 .. Len(bus.fifo) /\ 1 < i + 1 /\ bus'.fifo[i] = bus.fifo[i + 1]
          BY <3>1
        <5>2. QED
          BY <3>1, <4>3, <5>1 DEF FifoInv
      <4>4. QED
        BY <3>2, <4>2, <4>3
    <3>7. QED
      BY <3>3, <3>4, <3>5, <3>6 DEF FifoInv
  <2>3. QED
    BY <1>3, <2>1, <2>2, RxFacts
<1>4. ASSUME RateApply PROVE FifoInv'
  <2>1. bus'.fifo = <<>> /\ bus'.sent = bus.sent /\ asked' = asked
    BY <1>1, <1>4 DEF RateApply, BusSet
  <2>2. Len(<<>>) = 0
    OBVIOUS
  <2>3. QED
    BY <2>1, <2>2 DEF FifoInv
<1>5. ASSUME UNCHANGED <<bus, asked>> PROVE FifoInv'
  BY <1>5 DEF FifoInv
<1>6. QED
  <2>1. \/ Arrive \/ RxInterrupt \/ RateApply \/ UNCHANGED <<bus, asked>>
    BY Zenon DEF CanNext, CanForeground, CanSupervisor, vars, Transmit, Publish, PrepareRead,
          PrepareChanged, PrepareSample, PrepareCheck, SendStatus, Compute, CopyHead, CopyBody,
          SendReply, ReleaseSlot, RateCompare, RateRemember
  <2>2. QED
    BY <1>2, <1>3, <1>4, <1>5, <2>1

-----------------------------------------------------------------------------
(* The mailbox.                                                            *)

LEMMA MailKeeps == CanTypeOK /\ MailInv /\ [CanNext]_vars => MailInv'
<1> SUFFICES ASSUME CanTypeOK, MailInv, [CanNext]_vars PROVE MailInv'
  OBVIOUS
<1>1. /\ fg \in FgSet /\ mail \in MailSet /\ config \in ConfigSet
      /\ fg.seen \in Nat /\ fg.epoch \in Nat /\ fg.sample \in Nat
      /\ mail.epoch \in Nat /\ config.epoch \in Nat
  BY TypeFacts DEF Typed, FgSet, MailSet, ConfigSet
<1>2. /\ Take(mail).state # "READY"
      /\ Ask(mail).state = "READY" => Ask(mail) = mail
      /\ Ask(Take(mail)).state # "READY"
  BY <1>1 DEF Take, Ask, EmptyMail, MailSet
<1> USE DEF MailInv, StatusIsFresh
<1>3. ASSUME UNCHANGED <<fg, mail>>, config'.epoch \in {config.epoch, config.epoch + 1}
      PROVE  MailInv'
  BY <1>1, <1>3
<1>4. ASSUME Publish PROVE MailInv'
  BY <1>1, <1>4 DEF Publish
<1>5. ASSUME PrepareRead PROVE MailInv'
  <2>1. UNCHANGED <<mail, config>> /\ fg'.at = "read" /\ fg'.epoch = config.epoch
        /\ fg'.seen = fg.seen
    BY <1>1, <1>5 DEF PrepareRead, FgSet
  <2>2. QED
    BY <1>1, <2>1
<1>6. ASSUME PrepareChanged PROVE MailInv'
  <2>1. [fg EXCEPT !.seen = fg.epoch, !.due = FALSE] \in FgSet
    BY <1>1, Zenon DEF FgSet
  <2>2. [fg EXCEPT !.seen = fg.epoch, !.due = FALSE].seen = fg.epoch
    BY <1>1 DEF FgSet
  <2>3. /\ fg'.at = "idle" /\ fg'.seen = fg.epoch /\ fg.at = "read"
        /\ mail' = Take(mail) /\ config' = config
    BY <1>6, <2>1, <2>2, IdleFacts DEF PrepareChanged
  <2>4. QED
    BY <1>1, <1>2, <2>3
<1>7. ASSUME PrepareSample PROVE MailInv'
  <2>1. PICK elapsed \in BOOLEAN :
           LET due   == fg.on /\ (fg.due \/ elapsed)
               fresh == IF elapsed /\ fg.due THEN Take(mail) ELSE mail
           IN  \/ /\ ~due
                  /\ fg' = Idle(fg)
                  /\ UNCHANGED mail
               \/ /\ due /\ fresh.state = "READY"
                  /\ fg' = [fg EXCEPT !.at = "taken", !.sample = fresh.epoch, !.due = FALSE]
                  /\ mail' = Take(fresh)
               \/ /\ due /\ fresh.state # "READY"
                  /\ fg' = Idle([fg EXCEPT !.due = TRUE])
                  /\ mail' = Ask(fresh)
    BY <1>7, Zenon DEF PrepareSample
  <2> DEFINE fresh == IF elapsed /\ fg.due THEN Take(mail) ELSE mail
  <2>2. config' = config /\ fg.at = "read" /\ fg.epoch = fg.seen
    BY <1>7 DEF PrepareSample
  <2>3. CASE fg' = Idle(fg) /\ UNCHANGED mail
    BY <1>1, <2>2, <2>3, IdleFacts
  <2>4. CASE /\ fresh.state = "READY" /\ mail' = Take(fresh)
             /\ fg' = [fg EXCEPT !.at = "taken", !.sample = fresh.epoch, !.due = FALSE]
    <3>1. fresh = mail
      BY <1>2, <2>4
    <3>2. fg'.at = "taken" /\ fg'.sample = mail.epoch /\ fg'.seen = fg.seen /\ fg'.epoch = fg.epoch
      BY <1>1, <2>4, <3>1 DEF FgSet
    <3>3. mail.state = "READY" /\ mail'.state # "READY"
      BY <1>2, <2>4, <3>1
    <3>4. QED
      BY <1>1, <2>2, <3>2, <3>3
  <2>5. CASE fresh.state # "READY" /\ fg' = Idle([fg EXCEPT !.due = TRUE]) /\ mail' = Ask(fresh)
    <3>1. [fg EXCEPT !.due = TRUE] \in FgSet /\ [fg EXCEPT !.due = TRUE].seen = fg.seen
      BY <1>1 DEF FgSet
    <3>2. fg'.at = "idle" /\ fg'.seen = fg.seen
      BY <2>5, <3>1, IdleFacts
    <3>3. mail'.state # "READY"
      BY <1>2, <2>5
    <3>4. QED
      BY <1>1, <2>2, <3>2, <3>3
  <2>6. QED
    BY <2>1, <2>3, <2>4, <2>5, Zenon
<1>8. ASSUME PrepareCheck PROVE MailInv'
  <2>1. CASE config.epoch = fg.epoch
    <3>1. /\ fg.at = "taken" /\ UNCHANGED <<mail, config>>
          /\ fg' = [fg EXCEPT !.at = "built"]
      BY <1>8, <2>1 DEF PrepareCheck
    <3>2. /\ fg'.at = "built" /\ fg'.seen = fg.seen /\ fg'.epoch = fg.epoch
          /\ fg'.sample = fg.sample
      BY <1>1, <3>1 DEF FgSet
    <3>3. QED
      BY <1>1, <2>1, <3>1, <3>2
  <2>2. CASE config.epoch # fg.epoch
    BY <1>1, <1>8, <2>2, IdleFacts DEF PrepareCheck
  <2>3. QED
    BY <2>1, <2>2
<1>9. ASSUME SendStatus \/ ReleaseSlot PROVE MailInv'
  BY <1>1, <1>9, IdleFacts DEF SendStatus, ReleaseSlot
<1>10. ASSUME CopyHead \/ CopyBody PROVE MailInv'
  <2>1. UNCHANGED <<mail, config>> /\ fg'.at \in {"head", "copied"} /\ fg'.seen = fg.seen
    BY <1>1, <1>10 DEF CopyHead, CopyBody, FgSet
  <2>2. QED
    BY <1>1, <2>1
<1>11. ASSUME SendReply PROVE MailInv'
  <2>1. UNCHANGED <<mail, config>> /\ fg' \in {Idle(fg), [Idle(fg) EXCEPT !.at = "release"]}
    BY <1>11, Zenon DEF SendReply
  <2>2. Idle(fg) \in FgSet /\ Idle(fg).at = "idle" /\ Idle(fg).seen = fg.seen
    BY <1>1, IdleFacts
  <2>3. fg'.at \in {"idle", "release"} /\ fg'.seen = fg.seen
    BY <2>1, <2>2 DEF FgSet
  <2>4. QED
    BY <1>1, <2>1, <2>3
<1>12. QED
  <2>1. \/ UNCHANGED <<fg, mail>> /\ config'.epoch \in {config.epoch, config.epoch + 1}
        \/ Publish \/ PrepareRead \/ PrepareChanged \/ PrepareSample \/ PrepareCheck
        \/ SendStatus \/ ReleaseSlot \/ CopyHead \/ CopyBody \/ SendReply
    <3>1. RxInterrupt => UNCHANGED <<fg, mail>> /\ config'.epoch \in {config.epoch, config.epoch + 1}
      BY RxFacts
    <3>2. Arrive \/ Transmit \/ Compute \/ CanSupervisor \/ UNCHANGED vars
            => UNCHANGED <<fg, mail>> /\ config' = config
      BY Zenon DEF Arrive, Transmit, Compute, CanSupervisor, RateCompare, RateApply, RateRemember,
                   vars
    <3>3. QED
      BY <3>1, <3>2, Zenon DEF CanNext, CanForeground
  <2>2. QED
    BY <1>3, <1>4, <1>5, <1>6, <1>7, <1>8, <1>9, <1>10, <1>11, <2>1, Zenon

-----------------------------------------------------------------------------
(* The reply slot.                                                         *)

\* The slot and the replies apart from the foreground's copy.
ReplyInv ==
    /\ slot.state = "READY" => slot.body = slot.head
    /\ IsFiniteSet(Answered)
    /\ \A r \in Range(given) : r.body = r.head
    /\ Cardinality(Answered) = Len(given)
    /\ Answered \cup (IF slot.state = "FREE" THEN {} ELSE {slot.head}) = asked

CopyInv ==
    /\ fg.at \in {"head", "copied", "release"} => slot.state = "READY"
    /\ fg.at \in {"head", "copied"} => fg.head = slot.head
    /\ fg.at = "copied" => fg.body = slot.body
    /\ fg.at = "release" => slot.head \in Answered
    /\ slot.state # "FREE" /\ fg.at # "release" => slot.head \notin Answered

LEMMA ReplyParts ==
    /\ SlotInv /\ AnsweredOnce <=> ReplyInv /\ CopyInv
    /\ (SlotInv /\ AnsweredOnce)' <=> (ReplyInv /\ CopyInv)'
<1>1. SlotInv /\ AnsweredOnce <=> ReplyInv /\ CopyInv
  BY Zenon DEF SlotInv, AnsweredOnce, ReplyInv, CopyInv, Answered
<1>2. (SlotInv /\ AnsweredOnce)' <=> (ReplyInv /\ CopyInv)'
  BY Zenon DEF SlotInv, AnsweredOnce, ReplyInv, CopyInv, Answered
<1>3. QED
  BY <1>1, <1>2

LEMMA ReplyKeeps ==
    CanTypeOK /\ FifoInv /\ ReplyInv /\ CopyInv /\ [CanNext]_vars => ReplyInv' /\ CopyInv'
<1> SUFFICES ASSUME CanTypeOK, FifoInv, ReplyInv, CopyInv, [CanNext]_vars
             PROVE  ReplyInv' /\ CopyInv'
  OBVIOUS
<1>1. /\ fg \in FgSet /\ slot \in SlotSet /\ given \in Seq(ReplySet)
      /\ asked \subseteq Requests /\ bus.fifo \in Seq(Frames)
  BY TypeFacts DEF Typed, BusSet
<1>2. given' = given => Answered' = Answered
  BY Zenon DEF Answered
<1>3. ASSUME UNCHANGED <<slot, given, asked>>,
             \/ fg' = fg
             \/ /\ fg.at \notin {"head", "copied", "release"}
                /\ fg'.at \notin {"head", "copied", "release"}
      PROVE  ReplyInv' /\ CopyInv'
  BY <1>2, <1>3, Zenon DEF ReplyInv, CopyInv
<1>4. ASSUME RxInterrupt, ~UNCHANGED <<slot, asked>> PROVE ReplyInv' /\ CopyInv'
  <2> DEFINE f == Head(bus.fifo)
  <2>1. bus.fifo # <<>> /\ Queued(f) /\ UNCHANGED <<fg, given>>
    BY <1>4, RxFacts
  <2>2. f = bus.fifo[1] /\ f \in Frames /\ 1 \in 1 .. Len(bus.fifo)
    BY <1>1, <2>1, TailFacts
  <2>3. f \notin asked
    <3>1. \A g \in asked : g.n < bus.fifo[1].n
      BY <2>2 DEF FifoInv
    <3>2. f.n \in Nat
      BY <2>2, FrameFacts
    <3>3. QED
      BY <2>2, <3>1, <3>2
  <2> HIDE DEF f
  <2>4. /\ slot.state = "FREE" /\ asked' = asked \cup {f}
        /\ slot'.state # "FREE" /\ slot'.head = f
        /\ slot'.state = "READY" => slot'.body = f
    BY <2>1 DEF Queued
  <2>5. Answered' = Answered /\ Answered = asked
    BY <1>2, <2>1, <2>4 DEF ReplyInv
  <2>6. ReplyInv'
    BY <2>1, <2>4, <2>5 DEF ReplyInv
  <2>7. CopyInv'
    BY <2>1, <2>3, <2>4, <2>5 DEF CopyInv
  <2>8. QED
    BY <2>6, <2>7
<1>5. ASSUME Compute PROVE ReplyInv' /\ CopyInv'
  <2>1. /\ fg.at = "idle" /\ slot.state = "CRC" /\ UNCHANGED <<fg, given, asked>>
        /\ slot'.state = "READY" /\ slot'.head = slot.head /\ slot'.body = slot.head
    BY <1>1, <1>5 DEF Compute, SlotSet
  <2>2. QED
    BY <1>2, <2>1 DEF ReplyInv, CopyInv
<1>6. ASSUME CopyHead PROVE ReplyInv' /\ CopyInv'
  <2>1. /\ fg.at = "idle" /\ slot.state = "READY" /\ UNCHANGED <<slot, given, asked>>
        /\ fg'.at = "head" /\ fg'.head = slot.head
    BY <1>1, <1>6 DEF CopyHead, FgSet
  <2>2. QED
    BY <1>2, <2>1 DEF ReplyInv, CopyInv
<1>7. ASSUME CopyBody PROVE ReplyInv' /\ CopyInv'
  <2>1. /\ fg.at = "head" /\ UNCHANGED <<slot, given, asked>>
        /\ fg'.at = "copied" /\ fg'.head = fg.head /\ fg'.body = slot.body
    BY <1>1, <1>7 DEF CopyBody, FgSet
  <2>2. QED
    BY <1>2, <2>1 DEF ReplyInv, CopyInv
<1>8. ASSUME SendReply PROVE ReplyInv' /\ CopyInv'
  <2>1. CASE tx = "empty"
    <3> DEFINE r == [head |-> fg.head, body |-> fg.body]
    <3>1. /\ fg.at = "copied" /\ UNCHANGED <<slot, asked>>
          /\ given' = Append(given, r) /\ fg' = [Idle(fg) EXCEPT !.at = "release"]
      BY <1>8, <2>1 DEF SendReply
    <3>2. r \in ReplySet /\ r.head = slot.head /\ r.body = slot.head /\ slot.state = "READY"
          /\ slot.head \notin Answered
      BY <1>1, <3>1 DEF ReplySet, FgSet, ReplyInv, CopyInv
    <3> HIDE DEF r
    <3>3. Range(given') = Range(given) \cup {r} /\ Len(given') = Len(given) + 1
      BY <1>1, <3>1, <3>2, RangeAppend, AppendFacts
    <3>4. Answered' = Answered \cup {slot.head}
      BY <3>2, <3>3 DEF Answered
    <3>5. IsFiniteSet(Answered') /\ Cardinality(Answered') = Cardinality(Answered) + 1
      BY <3>2, <3>4, FS_AddElement DEF ReplyInv
    <3>6. fg'.at = "release"
      BY <1>1, <3>1, IdleFacts DEF FgSet
    <3>7. ReplyInv'
      BY <3>1, <3>2, <3>3, <3>4, <3>5 DEF ReplyInv
    <3>8. CopyInv'
      BY <3>1, <3>2, <3>4, <3>6 DEF CopyInv
    <3>9. QED
      BY <3>7, <3>8
  <2>2. CASE tx # "empty"
    <3>1. fg.at = "copied" /\ UNCHANGED <<slot, asked, given>> /\ fg'.at = "idle"
      BY <1>1, <1>8, <2>2, IdleFacts DEF SendReply
    <3>2. QED
      BY <1>2, <3>1, Zenon DEF ReplyInv, CopyInv
  <2>3. QED
    BY <2>1, <2>2
<1>9. ASSUME ReleaseSlot PROVE ReplyInv' /\ CopyInv'
  <2>1. /\ fg.at = "release" /\ UNCHANGED <<asked, given>> /\ fg'.at = "idle"
        /\ slot'.state = "FREE"
    BY <1>1, <1>9, IdleFacts DEF ReleaseSlot, FreeSlot
  <2>2. Answered' = Answered /\ Answered = asked
    BY <1>2, <2>1 DEF ReplyInv, CopyInv
  <2>3. QED
    BY <2>1, <2>2 DEF ReplyInv, CopyInv
<1>10. ASSUME PrepareRead \/ PrepareChanged \/ PrepareSample \/ PrepareCheck \/ SendStatus
       PROVE  /\ UNCHANGED <<slot, given, asked>>
              /\ fg.at \notin {"head", "copied", "release"}
              /\ fg'.at \notin {"head", "copied", "release"}
  <2>1. /\ UNCHANGED <<slot, given, asked>> /\ fg.at \in {"idle", "read", "taken", "built"}
    BY <1>10 DEF PrepareRead, PrepareChanged, PrepareSample, PrepareCheck, SendStatus
  <2>2. \/ \E x \in FgSet : fg' = Idle(x)
        \/ fg' \in FgSet /\ fg'.at \in {"read", "taken", "built"}
    <3>1. [fg EXCEPT !.seen = fg.epoch, !.due = FALSE] \in FgSet
      BY <1>1, Zenon DEF FgSet
    <3>2. [fg EXCEPT !.due = TRUE] \in FgSet
      BY <1>1, Zenon DEF FgSet
    <3>3. CASE PrepareRead
      <4>1. fg' = [fg EXCEPT !.at = "read", !.epoch = config.epoch, !.on = config.on]
        BY <3>3 DEF PrepareRead
      <4>2. fg' \in FgSet
        BY <3>3, ForegroundTypes, TypeFacts DEF CanForeground, Typed
      <4>3. QED
        BY <1>1, <4>1, <4>2 DEF FgSet
    <3>4. CASE PrepareChanged
      BY <3>1, <3>4 DEF PrepareChanged
    <3>5. CASE PrepareSample
      <4>1. \/ fg' = Idle(fg)
            \/ fg' = Idle([fg EXCEPT !.due = TRUE])
            \/ \E n : fg' = [fg EXCEPT !.at = "taken", !.sample = n, !.due = FALSE]
        BY <3>5, Zenon DEF PrepareSample
      <4>2. fg' \in FgSet
        BY <3>5, ForegroundTypes, TypeFacts DEF CanForeground, Typed
      <4>3. QED
        BY <1>1, <3>2, <4>1, <4>2 DEF FgSet
    <3>6. CASE PrepareCheck
      <4>1. fg' = Idle(fg) \/ fg' = [fg EXCEPT !.at = "built"]
        BY <3>6 DEF PrepareCheck
      <4>2. fg' \in FgSet
        BY <3>6, ForegroundTypes, TypeFacts DEF CanForeground, Typed
      <4>3. QED
        BY <1>1, <4>1, <4>2 DEF FgSet
    <3>7. CASE SendStatus
      BY <1>1, <3>7 DEF SendStatus
    <3>8. QED
      BY <1>10, <3>3, <3>4, <3>5, <3>6, <3>7
  <2>3. fg'.at \in {"idle", "read", "taken", "built"}
    BY <2>2, IdleFacts
  <2>4. QED
    BY <2>1, <2>3
<1>11. RxInterrupt => UNCHANGED <<fg, given>>
  BY DEF RxInterrupt
<1>12. Arrive \/ Transmit \/ Publish \/ CanSupervisor \/ UNCHANGED vars
          => UNCHANGED <<slot, given, asked, fg>>
  BY Zenon DEF Arrive, Transmit, Publish, CanSupervisor, RateCompare, RateApply, RateRemember, vars
<1>13. QED
  BY <1>3, <1>4, <1>5, <1>6, <1>7, <1>8, <1>9, <1>10, <1>11, <1>12, Zenon
  DEF CanNext, CanForeground

-----------------------------------------------------------------------------
(* The theorems.                                                           *)

LEMMA LinkInitially == CanInit => LinkInv
<1> SUFFICES ASSUME CanInit PROVE LinkInv
  OBVIOUS
<1>1. PICK node \in Nodes :
         /\ bus = [sent |-> 0, fifo |-> <<>>, flag |-> FALSE,
                   filter |-> node, rate |-> FirstRate]
         /\ can = [node |-> node, rate |-> FirstRate]
  BY DEF CanInit
<1>2. FirstRate \in Rates /\ 0 \in 0 .. MaxFrames /\ <<>> \in Seq(Frames)
      /\ <<>> \in Seq(ReplySet) /\ NoRequest \in Requests
  BY CanAssumption DEF Requests
<1>3. CanTypeOK
  <2>1. bus \in BusSet
    BY <1>1, <1>2 DEF BusSet
  <2>2. can \in [node : Nodes, rate : Rates] /\ tim \in TimSet
    BY <1>1, <1>2 DEF TimSet, CanInit
  <2>3. slot \in SlotSet
    BY <1>2 DEF SlotSet, CanInit, FreeSlot
  <2>4. config \in ConfigSet /\ mail \in MailSet
    BY DEF ConfigSet, MailSet, CanInit
  <2>5. fg \in FgSet
    BY <1>2 DEF FgSet, CanInit, Steps
  <2>6. tx \in {"empty", "status", "reply"} /\ asked \subseteq Requests /\ given \in Seq(ReplySet)
    BY <1>2 DEF CanInit
  <2>7. QED
    BY <2>1, <2>2, <2>3, <2>4, <2>5, <2>6, TypeFacts DEF Typed
<1>4. FifoInv
  <2>1. bus.fifo = <<>> /\ asked = {}
    BY <1>1 DEF CanInit
  <2>2. Len(<<>>) = 0
    OBVIOUS
  <2>3. QED
    BY <2>1, <2>2 DEF FifoInv
<1>5. SlotInv /\ AnsweredOnce
  <2>1. slot.state = "FREE" /\ fg.at = "idle" /\ given = <<>> /\ asked = {}
    BY DEF CanInit, FreeSlot
  <2>2. Range(given) = {}
    BY <2>1 DEF Range
  <2>3. Answered = {}
    BY <2>2, Zenon DEF Answered
  <2>4. Cardinality(Answered) = Len(given) /\ IsFiniteSet(Answered)
    BY <2>1, <2>3, FS_EmptySet
  <2>5. QED
    BY <2>1, <2>2, <2>3, <2>4, ReplyParts DEF ReplyInv, CopyInv
<1>6. MailInv
  BY DEF CanInit, MailInv, StatusIsFresh
<1>7. QED
  BY <1>3, <1>4, <1>5, <1>6 DEF LinkInv

\* FIFO, slot and mailbox keep their orders, whatever comes between two steps
\* of the foreground.
THEOREM LinkInvariance == CanSpec => []LinkInv
<1>1. LinkInv /\ [CanNext]_vars => LinkInv'
  BY CanTypes, FifoKeeps, MailKeeps, ReplyKeeps, ReplyParts, Zenon DEF LinkInv
<1>2. QED
  BY LinkInitially, <1>1, PTL DEF CanSpec

\* The peripheral, the slot, the mailbox and the foreground's copies are what
\* they are declared to be.
THEOREM LinkTypes == CanSpec => []CanTypeOK
<1>1. LinkInv => CanTypeOK
  BY DEF LinkInv
<1>2. QED
  BY LinkInvariance, <1>1, PTL

\* Every request that got the slot is answered once and with its own answer,
\* for any number of frames (CAN_QueueReply, CAN_SendMessage).
THEOREM RequestsAnsweredOnce == CanSpec => []AnsweredOnce
<1>1. LinkInv => AnsweredOnce
  BY DEF LinkInv
<1>2. QED
  BY LinkInvariance, <1>1, PTL

\* A status frame carries an observation made under the configuration it is
\* built for, for any number of commands (CanMotorStatus_Prepare).
THEOREM StatusFramesAreFresh == CanSpec => []StatusIsFresh
<1>1. LinkInv => StatusIsFresh
  BY DEF LinkInv, MailInv
<1>2. QED
  BY LinkInvariance, <1>1, PTL
=============================================================================
