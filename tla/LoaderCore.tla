----------------------------- MODULE LoaderCore -----------------------------
(***************************************************************************)
(* The upgrade session of the CAN Loader (loader/firmware/loader_core.c)   *)
(* over the flash driver it calls (loader_port.c).                         *)
(*                                                                         *)
(* The core is a foreground server: one request is handled to its reply    *)
(* before the next is looked at.  Requests that only touch RAM are single  *)
(* steps; ERASE, PROGRAM and ACTIVATE are jobs whose HAL calls are steps   *)
(* of their own, because the supply may fail, and the HAL may report an    *)
(* error, between any two of them and in the middle of each.               *)
(*                                                                         *)
(* An operator marked "Variant" is not part of the model: it is the        *)
(* definition below it with one mistake, which a property must notice.     *)
(***************************************************************************)
EXTENDS BootContract

CONSTANTS
    Sessions, NoSession,    \* session numbers; NoSession is 0
    MaxSeq,                 \* largest sequence number (65535: u16 on the wire)
    MaxChunk,               \* double words of one PROGRAM (LDR_MAX_CHUNK / 8)
    Requests,               \* the requests clients may send
    FactoryFlash,           \* APP contents a part may start its life with
    NoRequest, NoReply, NoCache, NoValue

VARIABLES
    app,        \* APP flash, double word by double word
    rec,        \* the record page
    core,       \* LoaderCore, in RAM
    job,        \* the flash work the foreground is in, and how far
    reply       \* the answer not yet given to the link

vars == <<app, rec, core, job, reply>>

-----------------------------------------------------------------------------
Queries    == {"INFO", "STATUS", "UID"}
SessionOps == {"ERASE", "PROGRAM", "VERIFY", "ACTIVATE", "ABORT"}
Mutations  == {"BEGIN"} \cup SessionOps
States     == {"IDLE", "PREPARED", "RECEIVING", "VERIFIED", "ERROR_STATE"}
Results    == {"OK", "BAD_FRAME", "BAD_STATE", "BAD_OFFSET", "BAD_SIZE",
               "FLASH_ERROR", "VERIFY_FAIL", "BAD_OPCODE", "BAD_SESSION",
               "BUSY", "CONFLICT", "BAD_IDENTITY", "BAD_COMPATIBILITY"}
Seqs       == 0 .. MaxSeq

(* A request that passed ldr_parse_request.  framed: the payload has the   *)
(* length its opcode asks for.  identity: the UID and the compatibility    *)
(* fields of BEGIN.  offset and data: PROGRAM, in double words; byte       *)
(* lengths that are no multiple of 8 are refused like a length of 0.       *)
Header(ops) == [op : ops, seq : Seqs, session : Sessions \cup {NoSession},
                framed : BOOLEAN]
PlainRequests   == Header(Queries \cup (SessionOps \ {"PROGRAM"}) \cup {"UNKNOWN"})
BeginRequests   == [op : {"BEGIN"}, seq : Seqs,
                    session : Sessions \cup {NoSession}, framed : BOOLEAN,
                    img : Images, identity : {"ours", "uid", "family"}]
ProgramRequests == [op : {"PROGRAM"}, seq : Seqs,
                    session : Sessions \cup {NoSession}, framed : BOOLEAN,
                    offset : Nat, data : Seq(Data)]
RequestSet == PlainRequests \cup BeginRequests \cup ProgramRequests

ASSUME RequestAssumption ==
    /\ MaxSeq \in Nat
    /\ MaxChunk \in Nat
    /\ NoSession \notin Sessions
    /\ \A r \in Requests : r \in PlainRequests \/ r \in BeginRequests
                                               \/ r \in ProgramRequests
    /\ NoRequest \notin Requests
    /\ FactoryFlash \subseteq [Dwords -> Cells]

InitCore == [state |-> "IDLE", session |-> NoSession, image |-> NoImage,
             offset |-> 0, seq |-> 0, lastError |-> "OK",
             activatePending |-> FALSE, cache |-> NoCache]

Idle == [pc |-> "idle", req |-> NoRequest, k |-> 0]

Job(pc, r) == [pc |-> pc, req |-> r, k |-> 0]

(* A factory-fresh or previously updated part: the record is blank, or it  *)
(* vouches for an image that is there.                                     *)
Init ==
    /\ app \in FactoryFlash
    /\ \/ rec = BlankRecord
       \/ \E i \in Images : rec = RecordEncode(i) /\ BootValid(app, rec)
    /\ core = InitCore
    /\ job = Idle
    /\ reply = NoReply

-----------------------------------------------------------------------------
(* What refuses a request before anything but last_error changes.          *)

\* Variant: a second client may open a session over the first.
BeginRefusalNeverBusy(r) ==
    IF ~r.framed \/ r.session = NoSession THEN "BAD_FRAME"
    ELSE IF r.identity = "uid"            THEN "BAD_IDENTITY"
    ELSE IF r.identity = "family"         THEN "BAD_COMPATIBILITY"
    ELSE IF ~LegalSize(Size[r.img])       THEN "BAD_SIZE"
    ELSE "OK"

BeginRefusal(r) ==
    IF ~r.framed \/ r.session = NoSession THEN "BAD_FRAME"
    ELSE IF core.session # NoSession      THEN "BUSY"
    ELSE IF r.identity = "uid"            THEN "BAD_IDENTITY"
    ELSE IF r.identity = "family"         THEN "BAD_COMPATIBILITY"
    ELSE IF ~LegalSize(Size[r.img])       THEN "BAD_SIZE"
    ELSE "OK"

\* The chunk covers only acknowledged double words, and they hold its data.
AlreadyProgrammed(r) ==
    /\ r.offset + Len(r.data) <= core.offset
    /\ \A k \in 1 .. Len(r.data) : app[r.offset + k - 1] = r.data[k]

ProgramRefusal(r) ==
    LET n == Len(r.data)  size == Size[core.image] IN
    IF core.state # "RECEIVING" THEN "BAD_STATE"
    ELSE IF n \notin 1 .. MaxChunk \/ r.offset + n > size THEN "BAD_SIZE"
    ELSE IF PageOf[r.offset] # PageOf[r.offset + n - 1] THEN "BAD_OFFSET"
    ELSE IF r.offset > core.offset THEN "BAD_OFFSET"
    ELSE IF r.offset < core.offset /\ ~AlreadyProgrammed(r) THEN "CONFLICT"
    ELSE "OK"

StateRefusal(r) ==
    CASE r.op = "ERASE"    -> IF core.state = "PREPARED" THEN "OK" ELSE "BAD_STATE"
      [] r.op = "PROGRAM"  -> ProgramRefusal(r)
      [] r.op = "VERIFY"   -> IF /\ core.state = "RECEIVING"
                                 /\ core.offset = Size[core.image]
                              THEN "OK" ELSE "BAD_STATE"
      [] r.op = "ACTIVATE" -> IF core.state = "VERIFIED" THEN "OK" ELSE "BAD_STATE"
      [] r.op = "ABORT"    -> "OK"

\* Variant: the sequence number is only a label.
SessionRefusalAnySeq(r) ==
    IF r.session = NoSession \/ r.session # core.session THEN "BAD_SESSION"
    ELSE IF r.op # "PROGRAM" /\ ~r.framed                THEN "BAD_FRAME"
    ELSE StateRefusal(r)

SessionRefusal(r) ==
    IF r.session = NoSession \/ r.session # core.session THEN "BAD_SESSION"
    ELSE IF r.seq <= core.seq                            THEN "CONFLICT"
    ELSE IF r.op # "PROGRAM" /\ ~r.framed                THEN "BAD_FRAME"
    ELSE StateRefusal(r)

Refusal(r) ==
    CASE r.op \in Queries    -> IF r.framed /\ r.session = NoSession
                                THEN "OK" ELSE "BAD_FRAME"
      [] r.op = "BEGIN"      -> BeginRefusal(r)
      [] r.op \in SessionOps -> SessionRefusal(r)
      [] OTHER               -> "BAD_OPCODE"

-----------------------------------------------------------------------------
(* How a handler ends.                                                     *)

Answer(r, result, value) ==
    [op |-> r.op, seq |-> r.seq, session |-> r.session, result |-> result,
     value |-> value, status |-> <<>>]

\* A mutation done: c is the core it leaves; only now is it cached.
Accept(r, c, value) ==
    LET a == Answer(r, "OK", value) IN
    /\ core' = [c EXCEPT !.lastError = "OK", !.seq = r.seq,
                         !.cache = [req |-> r, reply |-> a]]
    /\ reply' = a

Reject(r, result) ==
    /\ core' = [core EXCEPT !.lastError = result]
    /\ reply' = Answer(r, result, NoValue)

\* A mutation that failed half way; the session is left in ERROR_STATE.
Fail(r, result) ==
    /\ core' = [core EXCEPT !.state = "ERROR_STATE", !.lastError = result]
    /\ reply' = Answer(r, result, NoValue)

-----------------------------------------------------------------------------
(* The one-entry cache of the last accepted mutation.                      *)

\* Variant: nothing is remembered.
CachedNever(r) == FALSE

Cached(r) ==
    /\ r.op \in Mutations
    /\ core.cache # NoCache
    /\ r.seq = core.seq
    /\ r.session = core.cache.req.session

Replay(r) ==
    /\ Cached(r)
    /\ reply' = IF r = core.cache.req THEN core.cache.reply
                ELSE Answer(r, "CONFLICT", NoValue)
    /\ UNCHANGED <<app, rec, core, job>>

-----------------------------------------------------------------------------
(* The handlers, for a request the cache did not answer.                   *)

Refused(r) ==
    /\ Refusal(r) # "OK"
    /\ Reject(r, Refusal(r))
    /\ UNCHANGED <<app, rec, job>>

Query(r) ==
    /\ r.op \in Queries
    /\ reply' = [Answer(r, "OK", NoValue) EXCEPT
                   !.status = IF r.op = "STATUS"
                              THEN <<core.state, core.lastError, core.offset,
                                     core.image, core.session>>
                              ELSE <<>>]
    /\ UNCHANGED <<app, rec, core, job>>

Begin(r) ==
    /\ r.op = "BEGIN"
    /\ Accept(r, [core EXCEPT !.image = r.img, !.session = r.session,
                              !.state = "PREPARED", !.offset = 0,
                              !.activatePending = FALSE], 0)
    /\ UNCHANGED <<app, rec, job>>

\* Variant: the APP goes first, the record that vouches for it stays.
EraseKeepingRecord(r) ==
    /\ r.op = "ERASE"
    /\ job' = Job("eraseApp", r)
    /\ UNCHANGED <<app, rec, core, reply>>

Erase(r) ==
    /\ r.op = "ERASE"
    /\ job' = Job("eraseRecord", r)
    /\ UNCHANGED <<app, rec, core, reply>>

\* Variant: acknowledged with the end of the repeated chunk.
ProgramAgainOwnEnd(r) ==
    /\ r.op = "PROGRAM"
    /\ r.offset < core.offset
    /\ Accept(r, core, r.offset + Len(r.data))
    /\ UNCHANGED <<app, rec, job>>

\* A chunk that is already there is acknowledged with the current offset.
ProgramAgain(r) ==
    /\ r.op = "PROGRAM"
    /\ r.offset < core.offset
    /\ Accept(r, core, core.offset)
    /\ UNCHANGED <<app, rec, job>>

\* program() looks for a blank target before its first HAL call.
Program(r) ==
    /\ r.op = "PROGRAM"
    /\ r.offset = core.offset
    /\ IF \A k \in 1 .. Len(r.data) : app[r.offset + k - 1] = Blank
       THEN job' = Job("program", r) /\ UNCHANGED <<core, reply>>
       ELSE Fail(r, "FLASH_ERROR") /\ UNCHANGED job
    /\ UNCHANGED <<app, rec>>

\* Variant: the CRC is not compared.
VerifyVectorsOnly(r) ==
    /\ r.op = "VERIFY"
    /\ IF VectorsValid(app, Size[core.image])
       THEN Accept(r, [core EXCEPT !.state = "VERIFIED"], core.image)
       ELSE Fail(r, "VERIFY_FAIL")
    /\ UNCHANGED <<app, rec, job>>

Verify(r) ==
    /\ r.op = "VERIFY"
    /\ IF ImageValid(app, core.image)
       THEN Accept(r, [core EXCEPT !.state = "VERIFIED"], core.image)
       ELSE Fail(r, "VERIFY_FAIL")
    /\ UNCHANGED <<app, rec, job>>

Activate(r) ==
    /\ r.op = "ACTIVATE"
    /\ IF ~ImageValid(app, core.image)
       THEN Fail(r, "VERIFY_FAIL") /\ UNCHANGED job
       ELSE IF rec # BlankRecord
       THEN Fail(r, "FLASH_ERROR") /\ UNCHANGED job
       ELSE job' = Job("commitBody", r) /\ UNCHANGED <<core, reply>>
    /\ UNCHANGED <<app, rec>>

Abort(r) ==
    /\ r.op = "ABORT"
    /\ Accept(r, [core EXCEPT !.state = "IDLE", !.session = NoSession,
                              !.offset = 0, !.activatePending = FALSE], NoValue)
    /\ UNCHANGED <<app, rec, job>>

Process(r) ==
    \/ Refused(r)
    \/ /\ Refusal(r) = "OK"
       /\ \/ Query(r)
          \/ Begin(r)
          \/ Erase(r)
          \/ ProgramAgain(r)
          \/ Program(r)
          \/ Verify(r)
          \/ Activate(r)
          \/ Abort(r)

\* LoaderCore_Request, up to its reply or its first HAL call.
Request(r) ==
    /\ job = Idle
    /\ reply = NoReply
    /\ Replay(r) \/ (~Cached(r) /\ Process(r))

-----------------------------------------------------------------------------
(* The HAL calls of a job that succeed.                                    *)

EraseRecordDone ==
    /\ job.pc = "eraseRecord"
    /\ rec' = BlankRecord
    /\ job' = Job("eraseApp", job.req)
    /\ UNCHANGED <<app, core, reply>>

\* Variant: the last page is left out.
EraseAppPageButLast ==
    /\ job.pc = "eraseApp"
    /\ app' = [d \in Dwords |-> IF PageOf[d] = job.k THEN Blank ELSE app[d]]
    /\ IF job.k < LastPage - 1
       THEN job' = [job EXCEPT !.k = @ + 1] /\ UNCHANGED <<core, reply>>
       ELSE /\ job' = Idle
            /\ Accept(job.req, [core EXCEPT !.state = "RECEIVING"], NoValue)
    /\ UNCHANGED rec

EraseAppPage ==
    /\ job.pc = "eraseApp"
    /\ app' = [d \in Dwords |-> IF PageOf[d] = job.k THEN Blank ELSE app[d]]
    /\ IF job.k < LastPage
       THEN job' = [job EXCEPT !.k = @ + 1] /\ UNCHANGED <<core, reply>>
       ELSE /\ job' = Idle
            /\ Accept(job.req, [core EXCEPT !.state = "RECEIVING"], NoValue)
    /\ UNCHANGED rec

\* Variant: a write the array dropped is not noticed.
ProgramDwordUnread ==
    LET r == job.req
        d == r.offset + job.k
        v == r.data[job.k + 1]
    IN  /\ job.pc = "program"
        /\ v = Blank \/ app[d] = Blank
        /\ app' \in {app, [app EXCEPT ![d] = v]}
        /\ IF job.k + 1 < Len(r.data)
           THEN job' = [job EXCEPT !.k = @ + 1] /\ UNCHANGED <<core, reply>>
           ELSE /\ job' = Idle
                /\ Accept(r, [core EXCEPT !.offset = @ + Len(r.data)],
                          core.offset + Len(r.data))
        /\ UNCHANGED rec

\* All-ones double words are skipped; the array refuses to program twice.
ProgramDword ==
    LET r == job.req
        d == r.offset + job.k
        v == r.data[job.k + 1]
    IN  /\ job.pc = "program"
        /\ v = Blank \/ app[d] = Blank
        /\ app' = IF v = Blank THEN app ELSE [app EXCEPT ![d] = v]
        /\ IF job.k + 1 < Len(r.data)
           THEN job' = [job EXCEPT !.k = @ + 1] /\ UNCHANGED <<core, reply>>
           ELSE /\ job' = Idle
                /\ Accept(r, [core EXCEPT !.offset = @ + Len(r.data)],
                          core.offset + Len(r.data))
        /\ UNCHANGED rec

CommitBody ==
    /\ job.pc = "commitBody"
    /\ rec' = [rec EXCEPT !.body = RecordEncode(core.image).body]
    /\ job' = Job("commitMark", job.req)
    /\ UNCHANGED <<app, core, reply>>

CommitMark ==
    /\ job.pc = "commitMark"
    /\ rec' = [rec EXCEPT !.mark = RecordEncode(core.image).mark]
    /\ job' = Idle
    /\ Accept(job.req, [core EXCEPT !.activatePending = TRUE], NoValue)
    /\ UNCHANGED app

-----------------------------------------------------------------------------
(* A HAL call cut short, by an error it reports or by the supply: what it  *)
(* was changing may be old, new or torn.                                   *)

Interrupted ==
    \/ /\ job.pc = "idle"
       /\ UNCHANGED <<app, rec>>
    \/ /\ job.pc = "eraseRecord"
       /\ rec' \in [body : {rec.body, Blank, Torn}, mark : {rec.mark, Blank, Torn}]
       /\ UNCHANGED app
    \/ /\ job.pc = "eraseApp"
       /\ \E wiped, torn \in SUBSET {d \in Dwords : PageOf[d] = job.k} :
            app' = [d \in Dwords |-> IF d \in wiped THEN Blank
                                     ELSE IF d \in torn THEN Torn ELSE app[d]]
       /\ UNCHANGED rec
    \/ /\ job.pc = "program"
       /\ LET d == job.req.offset + job.k
              v == job.req.data[job.k + 1]
          IN  \E c \in IF v = Blank THEN {app[d]} ELSE {app[d], Torn, v} :
                 app' = [app EXCEPT ![d] = c]
       /\ UNCHANGED rec
    \/ /\ job.pc = "commitBody"
       /\ \E b \in {rec.body, Torn, core.image} : rec' = [rec EXCEPT !.body = b]
       /\ UNCHANGED app
    \/ /\ job.pc = "commitMark"
       /\ \E m \in {rec.mark, Torn, Commit} : rec' = [rec EXCEPT !.mark = m]
       /\ UNCHANGED app

\* Variant: the result of writing the commit mark is dropped.
FlashFailsButMark ==
    /\ job # Idle
    /\ Interrupted
    /\ IF job.pc = "commitMark"
       THEN Accept(job.req, [core EXCEPT !.activatePending = TRUE], NoValue)
       ELSE Fail(job.req, "FLASH_ERROR")
    /\ job' = Idle

\* Unlock, erase, program, lock or read-back went wrong.
FlashFails ==
    /\ job # Idle
    /\ Interrupted
    /\ Fail(job.req, "FLASH_ERROR")
    /\ job' = Idle

FlashStep ==
    \/ EraseRecordDone
    \/ EraseAppPage
    \/ ProgramDword
    \/ CommitBody
    \/ CommitMark

\* A reset of any cause restarts the Loader with a fresh core.
PowerLoss ==
    /\ Interrupted
    /\ core' = InitCore
    /\ job' = Idle
    /\ reply' = NoReply

\* LoaderCore_Tick after 30 s without an accepted or repeated mutation.
Tick ==
    /\ job = Idle
    /\ reply = NoReply
    /\ core.session # NoSession
    /\ ~core.activatePending
    /\ core' = InitCore
    /\ UNCHANGED <<app, rec, job, reply>>

\* The foreground gives the reply to the link and comes back for more.
Deliver ==
    /\ reply # NoReply
    /\ reply' = NoReply
    /\ UNCHANGED <<app, rec, core, job>>

Next ==
    \/ \E r \in Requests : Request(r)
    \/ FlashStep
    \/ FlashFails
    \/ PowerLoss
    \/ Tick
    \/ Deliver

Spec == Init /\ [][Next]_vars

-----------------------------------------------------------------------------
(* Types.                                                                  *)

\* Every variable stays in the range its C type and its protocol give it.
ReplySet == [op : Mutations \cup Queries \cup {"UNKNOWN"}, seq : Seqs,
             session : Sessions \cup {NoSession}, result : Results,
             value : {NoValue} \cup (0 .. Capacity) \cup Images,
             status : {<<>>} \cup
                      (States \X Results \X (0 .. Capacity) \X
                       (Images \cup {NoImage}) \X (Sessions \cup {NoSession}))]

CoreSet == [state : States, session : Sessions \cup {NoSession},
            image : Images \cup {NoImage}, offset : 0 .. Capacity, seq : Seqs,
            lastError : Results, activatePending : BOOLEAN,
            cache : {NoCache} \cup [req : Requests, reply : ReplySet]]

\* An empty cache is none of the entries it may hold.
ASSUME CacheAssumption == NoCache \notin [req : Requests, reply : ReplySet]

PCs == {"idle", "eraseRecord", "eraseApp", "program", "commitBody", "commitMark"}

TypeOK ==
    /\ app \in [Dwords -> Cells]
    /\ rec \in Records
    /\ core \in CoreSet
    /\ job \in [pc : PCs, req : Requests \cup {NoRequest}, k : Nat]
    /\ reply \in ReplySet \cup {NoReply}

-----------------------------------------------------------------------------
(* Safety.                                                                 *)

(* A record that decodes vouches for the image that is in flash: no cut    *)
(* supply, HAL error, repeated or stray request leaves a committed record  *)
(* over missing or foreign double words (erase order in ERASE, mark last   *)
(* in ACTIVATE).                                                           *)
RecordVouches == RecordDecodes(rec) => ImageValid(app, rec.body)

(* The permission to leave for the APP (activate_pending, which the main   *)
(* loop jumps on and which stops the session timeout) is held only while   *)
(* the record names the image of this very session.                        *)
PendingMeansCommitted ==
    core.activatePending => rec = RecordEncode(core.image)

(* While a download runs, everything past the acknowledged offset is       *)
(* blank, but for the chunk being written: no double word is ever offered  *)
(* to the array twice, and a gap cannot hide old code.                     *)
TailBlank ==
    core.state = "RECEIVING" =>
        \A d \in Dwords :
            d >= core.offset + (IF job.pc = "program" THEN job.k ELSE 0)
                => app[d] = Blank

(* Whatever a replay would repeat is still true: an acknowledged chunk is  *)
(* in flash and the offset stands, a verified image is still valid, an     *)
(* activated one still committed, for as long as the session lasts.        *)
ReplayTruthful ==
    LET q == core.cache.req IN
    core.cache # NoCache /\ core.session = q.session =>
        /\ q.op = "PROGRAM" =>
             /\ core.cache.reply.value = core.offset
             /\ \A k \in 1 .. Len(q.data) : app[q.offset + k - 1] = q.data[k]
        /\ q.op = "VERIFY" => ImageValid(app, core.image)
        /\ q.op = "ACTIVATE" => rec = RecordEncode(core.image)

(* Inside a session sequence numbers and the offset only grow, and a new   *)
(* mutation is accepted only under a new number: a request retried by the  *)
(* host is never executed twice.                                           *)
SessionMonotone ==
    [][core.session # NoSession /\ core'.session = core.session =>
          /\ core'.offset >= core.offset
          /\ core'.seq >= core.seq
          /\ core'.cache # core.cache => core'.seq > core.seq]_vars

-----------------------------------------------------------------------------
(* What makes the safety properties inductive.                             *)

\* The image a session works on is one BEGIN found legal.
SessionImage ==
    core.state \in {"PREPARED", "RECEIVING", "VERIFIED"} =>
        /\ core.image \in Images
        /\ LegalSize(Size[core.image])
        /\ core.session # NoSession

\* What the record and the APP flash are worth in each state of the core.
StateInv ==
    /\ core.state = "PREPARED" => ~core.activatePending /\ core.offset = 0
    /\ core.state = "RECEIVING" => rec = BlankRecord /\ core.offset <= Size[core.image]
    /\ core.state = "VERIFIED" => ImageValid(app, core.image)

\* Each job runs in the state it was started in, over the flash it expects.
JobInv ==
    /\ job.pc = "idle" <=> job = Idle
    /\ job.pc # "idle" =>
         /\ job.req \in Requests /\ reply = NoReply
         /\ job.req.session = core.session /\ job.req.seq > core.seq
    /\ job.pc \in {"eraseRecord", "eraseApp"} => core.state = "PREPARED"
    /\ job.pc = "eraseApp" => rec = BlankRecord
    /\ job.pc = "program" =>
         /\ core.state = "RECEIVING"
         /\ job.req.op = "PROGRAM"
         /\ job.req.offset = core.offset
         /\ job.k < Len(job.req.data)
         /\ core.offset + Len(job.req.data) <= Size[core.image]
    /\ job.pc \in {"commitBody", "commitMark"} => core.state = "VERIFIED"
    /\ job.pc = "commitBody" => rec = BlankRecord
    /\ job.pc = "commitMark" => rec.body = core.image /\ rec.mark = Blank

(* The inductive invariant.  RecordVouches alone is not inductive: that an *)
(* erase or a program never runs under a record that decodes follows from  *)
(* the state the core is in, and that the mark is only written over a      *)
(* valid image from the path through VERIFIED.                             *)
IInv ==
    /\ TypeOK
    /\ SessionImage
    /\ StateInv
    /\ JobInv
    /\ RecordVouches
    /\ PendingMeansCommitted

-----------------------------------------------------------------------------
(* Refinement: seen from outside, an update is BootUpdate.                 *)

BootedImage == IF BootValid(app, rec) THEN rec.body ELSE NoImage

Update == INSTANCE BootUpdate WITH
              bootable <- BootedImage,
              target <- IF core.session = NoSession THEN NoImage ELSE core.image

(* The bootable image changes only in a session, only from the old image   *)
(* to none and from none to the image that session announced; never from   *)
(* one image to another, and never to anything when nobody is updating.    *)
ImplementsBootUpdate == Update!Spec

=============================================================================
