------------------------- MODULE LoaderCore_proofs -------------------------
(***************************************************************************)
(* Proofs about LoaderCore for every flash size, image set, chunk limit    *)
(* and set of requests: the inductive invariant IInv, type correctness,    *)
(* RecordVouches, PendingMeansCommitted, that the Loader implements        *)
(* BootUpdate, TailBlank and ReplayTruthful.                               *)
(***************************************************************************)
EXTENDS LoaderCore, TLAPS

\* The fields of a request, whatever its opcode.
LEMMA RequestFields ==
    ASSUME NEW r \in Requests
    PROVE  /\ r.op \in Mutations \cup Queries \cup {"UNKNOWN"}
           /\ r.seq \in Seqs
           /\ r.session \in Sessions \cup {NoSession}
           /\ r.op = "BEGIN" => r.img \in Images
           /\ r.op = "PROGRAM" => r.offset \in Nat /\ r.data \in Seq(Data)
  BY RequestAssumption
  DEF PlainRequests, BeginRequests, ProgramRequests, Header,
      Queries, SessionOps, Mutations

\* An answer is a reply record.
LEMMA AnswerType ==
    ASSUME NEW r \in Requests, NEW res \in Results,
           NEW v \in {NoValue} \cup (0 .. Capacity) \cup Images
    PROVE  Answer(r, res, v) \in ReplySet
  BY RequestFields DEF Answer, ReplySet

\* The size of an image is a natural number.
LEMMA SizeNat == \A i \in Images : Size[i] \in Nat
  BY ImageAssumption

\* A blank record does not decode.
LEMMA BlankDoesNotDecode == ~RecordDecodes(BlankRecord)
  BY CellAssumption DEF RecordDecodes, BlankRecord

\* The blank record and the encoding of an image are records.
LEMMA RecordTypes ==
    /\ BlankRecord \in Records
    /\ \A i \in Images : RecordEncode(i) \in Records
  BY DEF BlankRecord, RecordEncode, Records

\* A job record, idle or started, has the fields the code keeps for it.
LEMMA IdleType ==
    /\ Idle \in [pc : PCs, req : Requests \cup {NoRequest}, k : Nat]
    /\ \A pc \in PCs, r \in Requests :
          Job(pc, r) \in [pc : PCs, req : Requests \cup {NoRequest}, k : Nat]
    /\ Idle.pc = "idle"
    /\ \A pc \in PCs, r \in Requests :
          Job(pc, r).pc = pc /\ Job(pc, r).req = r /\ Job(pc, r).k = 0
  BY DEF Idle, Job, PCs

\* LoaderCore_Init leaves a well-typed core.
LEMMA InitCoreType == InitCore \in CoreSet
  BY CapacityAssumption, RequestAssumption DEF InitCore, CoreSet, States, Results, Seqs

\* A part as delivered, or after an earlier update, satisfies the invariant.
LEMMA InitInv == Init => IInv
<1> SUFFICES ASSUME Init PROVE IInv
  OBVIOUS
<1>1. TypeOK
  <2>1. rec \in Records
    BY RecordTypes DEF Init
  <2>2. QED
    BY <2>1, RequestAssumption, IdleType, InitCoreType DEF Init, TypeOK
<1>2. RecordVouches
  BY BlankDoesNotDecode DEF Init, RecordVouches, BootValid
<1>3. SessionImage /\ StateInv /\ JobInv /\ PendingMeansCommitted
  BY DEF Init, InitCore, Idle, SessionImage, StateInv, JobInv, PendingMeansCommitted
<1>4. QED
  BY <1>1, <1>2, <1>3 DEF IInv

-----------------------------------------------------------------------------
(* How a handler ends keeps the types, and changes no field it is not      *)
(* meant to change.                                                        *)

\* An accepted mutation leaves the core its handler built, well typed.
LEMMA AcceptStep ==
    ASSUME NEW r \in Requests, NEW c \in CoreSet,
           NEW v \in {NoValue} \cup (0 .. Capacity) \cup Images,
           Accept(r, c, v)
    PROVE  /\ core' \in CoreSet /\ reply' \in ReplySet
           /\ core'.state = c.state /\ core'.session = c.session
           /\ core'.image = c.image /\ core'.offset = c.offset
           /\ core'.activatePending = c.activatePending
<1> DEFINE a == Answer(r, "OK", v)
<1>1. a \in ReplySet
  BY AnswerType DEF Results
<1>2. r.seq \in Seqs /\ "OK" \in Results
  BY RequestFields DEF Results
<1>3. [req |-> r, reply |-> a] \in [req : Requests, reply : ReplySet]
  BY <1>1
<1> HIDE DEF a
<1>4. /\ core' = [c EXCEPT !.lastError = "OK", !.seq = r.seq,
                           !.cache = [req |-> r, reply |-> a]]
      /\ reply' = a
  BY DEF Accept, a
<1>5. QED
  BY <1>1, <1>2, <1>3, <1>4 DEF CoreSet

\* A failed mutation leaves ERROR_STATE and keeps session, image and offset.
LEMMA FailStep ==
    ASSUME core \in CoreSet, NEW r \in Requests, NEW res \in Results,
           Fail(r, res)
    PROVE  /\ core' \in CoreSet /\ reply' \in ReplySet
           /\ core'.state = "ERROR_STATE" /\ core'.session = core.session
           /\ core'.image = core.image /\ core'.offset = core.offset
           /\ core'.activatePending = core.activatePending
<1>1. reply' \in ReplySet
  BY AnswerType DEF Fail
<1>2. QED
  BY <1>1 DEF Fail, CoreSet, States

\* A refused request changes no field of the core but lastError.
LEMMA RejectStep ==
    ASSUME core \in CoreSet, NEW r \in Requests, NEW res \in Results,
           Reject(r, res)
    PROVE  /\ core' \in CoreSet /\ reply' \in ReplySet
           /\ core'.state = core.state /\ core'.session = core.session
           /\ core'.image = core.image /\ core'.offset = core.offset
           /\ core'.activatePending = core.activatePending
<1>1. reply' \in ReplySet
  BY AnswerType DEF Reject
<1>2. QED
  BY <1>1 DEF Reject, CoreSet

\* The refusal codes are result codes.
LEMMA RefusalType ==
    ASSUME NEW r \in Requests
    PROVE  Refusal(r) \in Results
<1>1. BeginRefusal(r) \in Results
  BY DEF BeginRefusal, Results
<1>2. ProgramRefusal(r) \in Results
  BY DEF ProgramRefusal, Results
<1>3. r.op \in SessionOps => StateRefusal(r) \in Results
  BY <1>2 DEF StateRefusal, Results, SessionOps
<1>4. r.op \in SessionOps => SessionRefusal(r) \in Results
  BY <1>3 DEF SessionRefusal, Results
<1>5. QED
  BY <1>1, <1>4 DEF Refusal, Results, Queries

(* A step that leaves the flash and the job alone keeps the invariant if   *)
(* the core it leaves fits the flash.                                      *)
LEMMA RamStep ==
    ASSUME IInv, job = Idle, UNCHANGED <<app, rec, job>>,
           core' \in CoreSet, reply' \in ReplySet \cup {NoReply},
           SessionImage', StateInv', PendingMeansCommitted'
    PROVE  IInv'
<1>1. TypeOK'
  BY DEF IInv, TypeOK
<1>2. JobInv'
  BY IdleType DEF IInv, JobInv
<1>3. RecordVouches'
  BY DEF IInv, RecordVouches
<1>4. QED
  BY <1>1, <1>2, <1>3 DEF IInv

-----------------------------------------------------------------------------
(* The handlers.                                                           *)

\* Answering from the cache keeps the invariant.
LEMMA ReplayInv ==
    ASSUME IInv, job = Idle, NEW r \in Requests, Replay(r)
    PROVE  IInv'
<1>1. core.cache # NoCache /\ core.cache \in {NoCache} \cup [req : Requests, reply : ReplySet]
  BY DEF IInv, TypeOK, CoreSet, Replay, Cached
<1>2. Answer(r, "CONFLICT", NoValue) \in ReplySet
  BY AnswerType DEF Results
<1>3. reply' \in ReplySet
  BY <1>1, <1>2 DEF Replay
<1>4. core' \in CoreSet /\ SessionImage' /\ StateInv' /\ PendingMeansCommitted'
  BY DEF Replay, IInv, TypeOK, SessionImage, StateInv, PendingMeansCommitted
<1>5. QED
  BY <1>3, <1>4, RamStep DEF Replay

\* Refusing a request keeps the invariant.
LEMMA RefusedInv ==
    ASSUME IInv, job = Idle, NEW r \in Requests, Refused(r)
    PROVE  IInv'
<1>1. core \in CoreSet /\ Refusal(r) \in Results /\ Reject(r, Refusal(r))
  BY RefusalType DEF IInv, TypeOK, Refused
<1>2. /\ core' \in CoreSet /\ reply' \in ReplySet
      /\ core'.state = core.state /\ core'.session = core.session
      /\ core'.image = core.image /\ core'.offset = core.offset
      /\ core'.activatePending = core.activatePending
  BY <1>1, RejectStep
<1>3. SessionImage' /\ StateInv' /\ PendingMeansCommitted'
  BY <1>2 DEF Refused, IInv, SessionImage, StateInv, PendingMeansCommitted
<1>4. QED
  BY <1>2, <1>3, RamStep DEF Refused

\* Answering INFO, STATUS or UID keeps the invariant.
LEMMA QueryInv ==
    ASSUME IInv, job = Idle, NEW r \in Requests, Query(r)
    PROVE  IInv'
<1>1. Answer(r, "OK", NoValue) \in ReplySet
  BY AnswerType DEF Results
<1>2. <<core.state, core.lastError, core.offset, core.image, core.session>>
        \in States \X Results \X (0 .. Capacity) \X
            (Images \cup {NoImage}) \X (Sessions \cup {NoSession})
  BY DEF IInv, TypeOK, CoreSet
<1>3. reply' \in ReplySet
  BY <1>1, <1>2 DEF Query, ReplySet
<1>4. core' \in CoreSet /\ SessionImage' /\ StateInv' /\ PendingMeansCommitted'
  BY DEF Query, IInv, TypeOK, SessionImage, StateInv, PendingMeansCommitted
<1>5. QED
  BY <1>3, <1>4, RamStep DEF Query

\* BEGIN opens a session on a legal image only.
LEMMA BeginInv ==
    ASSUME IInv, job = Idle, NEW r \in Requests, Begin(r), Refusal(r) = "OK"
    PROVE  IInv'
<1> DEFINE c == [core EXCEPT !.image = r.img, !.session = r.session,
                             !.state = "PREPARED", !.offset = 0,
                             !.activatePending = FALSE]
<1>1. /\ r.img \in Images /\ r.session \in Sessions /\ LegalSize(Size[r.img])
  <2>1. BeginRefusal(r) = "OK" /\ r.op = "BEGIN"
    BY DEF Begin, Refusal, Queries, SessionOps
  <2>2. QED
    BY <2>1, RequestFields DEF BeginRefusal
<1>2. c \in CoreSet /\ 0 \in {NoValue} \cup (0 .. Capacity) \cup Images
  <2>1. 0 \in 0 .. Capacity /\ "PREPARED" \in States
    BY CapacityAssumption DEF States
  <2>2. core \in CoreSet
    BY DEF IInv, TypeOK
  <2>3. QED
    BY <1>1, <2>1, <2>2 DEF CoreSet
<1>3. /\ c.state = "PREPARED" /\ c.session = r.session /\ c.image = r.img
      /\ c.offset = 0 /\ c.activatePending = FALSE
  BY DEF IInv, TypeOK, CoreSet
<1>4. Accept(r, c, 0)
  BY DEF Begin
<1> HIDE DEF c
<1>5. /\ core' \in CoreSet /\ reply' \in ReplySet
      /\ core'.state = "PREPARED" /\ core'.session = r.session
      /\ core'.image = r.img /\ core'.offset = 0 /\ core'.activatePending = FALSE
  BY <1>2, <1>3, <1>4, AcceptStep
<1>6. SessionImage' /\ StateInv' /\ PendingMeansCommitted'
  BY <1>1, <1>5, RequestAssumption DEF SessionImage, StateInv, PendingMeansCommitted
<1>7. QED
  BY <1>5, <1>6, RamStep DEF Begin

(* Starting a job changes nothing but the job; what JobInv asks of it at   *)
(* its first step is what the handler has checked.                         *)
LEMMA JobStart ==
    ASSUME IInv, job = Idle, NEW r \in Requests, NEW pc \in PCs, reply = NoReply,
           job' = Job(pc, r), UNCHANGED <<app, rec, core, reply>>, JobInv'
    PROVE  IInv'
<1>1. TypeOK'
  BY IdleType DEF IInv, TypeOK
<1>2. SessionImage' /\ StateInv' /\ RecordVouches' /\ PendingMeansCommitted'
  BY DEF IInv, SessionImage, StateInv, RecordVouches, PendingMeansCommitted
<1>3. QED
  BY <1>1, <1>2 DEF IInv

\* A session operation that is not refused belongs to the session, carries a
\* new sequence number and passed its state check.
LEMMA NotRefused ==
    ASSUME IInv, NEW r \in Requests, Refusal(r) = "OK", r.op \in SessionOps
    PROVE  /\ StateRefusal(r) = "OK" /\ r.session = core.session
           /\ r.session \in Sessions /\ r.seq > core.seq
<1>1. StateRefusal(r) = "OK" /\ r.session = core.session /\ r.session # NoSession
      /\ ~(r.seq <= core.seq)
  BY DEF Refusal, SessionRefusal, SessionOps, Queries
<1>2. r.seq \in Seqs /\ core.seq \in Seqs /\ r.session \in Sessions \cup {NoSession}
  BY RequestFields DEF IInv, TypeOK, CoreSet
<1>3. QED
  BY <1>1, <1>2, RequestAssumption DEF Seqs

\* ERASE starts its job in PREPARED only.
LEMMA EraseInv ==
    ASSUME IInv, job = Idle, reply = NoReply, NEW r \in Requests, Erase(r),
           Refusal(r) = "OK"
    PROVE  IInv'
<1>1. core.state = "PREPARED" /\ r.session = core.session /\ r.seq > core.seq
  BY NotRefused DEF Erase, StateRefusal, SessionOps
<1>2. "eraseRecord" \in PCs /\ job' = Job("eraseRecord", r)
  BY DEF PCs, Erase
<1>3. JobInv'
  BY <1>1, <1>2, IdleType DEF JobInv, Erase
<1>4. QED
  BY <1>2, <1>3, JobStart DEF Erase

\* Acknowledging a chunk that is already there keeps the invariant.
LEMMA ProgramAgainInv ==
    ASSUME IInv, job = Idle, NEW r \in Requests, ProgramAgain(r)
    PROVE  IInv'
<1>1. core \in CoreSet /\ core.offset \in {NoValue} \cup (0 .. Capacity) \cup Images
  BY DEF IInv, TypeOK, CoreSet
<1>2. /\ core' \in CoreSet /\ reply' \in ReplySet
      /\ core'.state = core.state /\ core'.session = core.session
      /\ core'.image = core.image /\ core'.offset = core.offset
      /\ core'.activatePending = core.activatePending
  BY <1>1, AcceptStep DEF ProgramAgain
<1>3. SessionImage' /\ StateInv' /\ PendingMeansCommitted'
  BY <1>2 DEF ProgramAgain, IInv, SessionImage, StateInv, PendingMeansCommitted
<1>4. QED
  BY <1>2, <1>3, RamStep DEF ProgramAgain

\* A record that is blank is not the record of any image.
LEMMA BlankIsNoRecord == \A i : RecordEncode(i) # BlankRecord
  BY CellAssumption DEF RecordEncode, BlankRecord

\* A handler that fails before its first HAL call keeps the invariant.
LEMMA FailInv ==
    ASSUME IInv, job = Idle, NEW r \in Requests, NEW res \in Results,
           Fail(r, res), UNCHANGED <<app, rec, job>>
    PROVE  IInv'
<1>1. core \in CoreSet
  BY DEF IInv, TypeOK
<1>2. /\ core' \in CoreSet /\ reply' \in ReplySet
      /\ core'.state = "ERROR_STATE" /\ core'.image = core.image
      /\ core'.activatePending = core.activatePending
  BY <1>1, FailStep
<1>3. SessionImage' /\ StateInv' /\ PendingMeansCommitted'
  BY <1>2 DEF IInv, SessionImage, StateInv, PendingMeansCommitted
<1>4. QED
  BY <1>2, <1>3, RamStep

\* PROGRAM starts its job on a chunk inside the image, at the offset.
LEMMA ProgramInv ==
    ASSUME IInv, job = Idle, reply = NoReply, NEW r \in Requests, Program(r),
           Refusal(r) = "OK"
    PROVE  IInv'
<1>1. r.op = "PROGRAM" /\ r.offset = core.offset
  BY DEF Program
<1>2. ProgramRefusal(r) = "OK" /\ r.session = core.session /\ r.seq > core.seq
  BY <1>1, NotRefused DEF StateRefusal, SessionOps
<1>3. core.state = "RECEIVING" /\ Len(r.data) \in 1 .. MaxChunk
                               /\ ~(r.offset + Len(r.data) > Size[core.image])
  BY <1>2 DEF ProgramRefusal
<1>4. 0 < Len(r.data) /\ core.offset + Len(r.data) <= Size[core.image]
  <2>1. core.image \in Images
    BY <1>3 DEF IInv, SessionImage
  <2>2. Size[core.image] \in Nat /\ core.offset \in Nat
    BY <2>1, SizeNat DEF IInv, TypeOK, CoreSet
  <2>3. QED
    BY <1>1, <1>3, <2>2, RequestFields
<1>5. CASE Fail(r, "FLASH_ERROR") /\ UNCHANGED job
  <2>1. "FLASH_ERROR" \in Results
    BY DEF Results
  <2>2. QED
    BY <1>5, <2>1, FailInv DEF Program
<1>6. CASE job' = Job("program", r) /\ UNCHANGED <<core, reply>>
  <2>1. "program" \in PCs
    BY DEF PCs
  <2>2. JobInv'
    BY <1>1, <1>2, <1>3, <1>4, <1>6, <2>1, IdleType DEF JobInv
  <2>3. QED
    BY <1>6, <2>1, <2>2, JobStart DEF Program
<1>7. QED
  BY <1>5, <1>6 DEF Program

\* VERIFY reaches VERIFIED only over a valid image.
LEMMA VerifyInv ==
    ASSUME IInv, job = Idle, NEW r \in Requests, Verify(r), Refusal(r) = "OK"
    PROVE  IInv'
<1>1. core.state = "RECEIVING"
  BY NotRefused DEF Verify, StateRefusal, SessionOps
<1>2. CASE Fail(r, "VERIFY_FAIL")
  <2>1. "VERIFY_FAIL" \in Results
    BY DEF Results
  <2>2. QED
    BY <1>2, <2>1, FailInv DEF Verify
<1>3. CASE /\ ImageValid(app, core.image)
           /\ Accept(r, [core EXCEPT !.state = "VERIFIED"], core.image)
  <2> DEFINE c == [core EXCEPT !.state = "VERIFIED"]
  <2>1. c \in CoreSet /\ core.image \in Images /\ core.session # NoSession
                      /\ LegalSize(Size[core.image])
    BY <1>1 DEF IInv, TypeOK, CoreSet, States, SessionImage
  <2>2. /\ c.state = "VERIFIED" /\ c.session = core.session /\ c.image = core.image
        /\ c.activatePending = core.activatePending
    BY DEF IInv, TypeOK, CoreSet
  <2>3. Accept(r, c, core.image)
    BY <1>3
  <2> HIDE DEF c
  <2>4. /\ core' \in CoreSet /\ reply' \in ReplySet
        /\ core'.state = "VERIFIED" /\ core'.session = core.session
        /\ core'.image = core.image /\ core'.activatePending = core.activatePending
    BY <2>1, <2>2, <2>3, AcceptStep
  <2>5. SessionImage' /\ StateInv' /\ PendingMeansCommitted'
    BY <1>3, <2>1, <2>4
    DEF Verify, IInv, SessionImage, StateInv, PendingMeansCommitted
  <2>6. QED
    BY <2>4, <2>5, RamStep DEF Verify
<1>4. QED
  BY <1>2, <1>3 DEF Verify

\* ACTIVATE starts its job in VERIFIED over a blank record only.
LEMMA ActivateInv ==
    ASSUME IInv, job = Idle, reply = NoReply, NEW r \in Requests, Activate(r),
           Refusal(r) = "OK"
    PROVE  IInv'
<1>1. core.state = "VERIFIED" /\ r.session = core.session /\ r.seq > core.seq
  BY NotRefused DEF Activate, StateRefusal, SessionOps
<1>2. CASE \E res \in {"VERIFY_FAIL", "FLASH_ERROR"} : Fail(r, res) /\ UNCHANGED job
  <2>1. {"VERIFY_FAIL", "FLASH_ERROR"} \subseteq Results
    BY DEF Results
  <2>2. QED
    BY <1>2, <2>1, FailInv DEF Activate
<1>3. CASE /\ rec = BlankRecord
           /\ job' = Job("commitBody", r) /\ UNCHANGED <<core, reply>>
  <2>1. "commitBody" \in PCs
    BY DEF PCs
  <2>2. JobInv'
    BY <1>1, <1>3, <2>1, IdleType DEF JobInv, Activate
  <2>3. QED
    BY <1>3, <2>1, <2>2, JobStart DEF Activate
<1>4. QED
  BY <1>2, <1>3 DEF Activate

\* ABORT closes the session and gives up any permission to leave.
LEMMA AbortInv ==
    ASSUME IInv, job = Idle, NEW r \in Requests, Abort(r)
    PROVE  IInv'
<1> DEFINE c == [core EXCEPT !.state = "IDLE", !.session = NoSession,
                             !.offset = 0, !.activatePending = FALSE]
<1>1. c \in CoreSet
  <2>1. 0 \in 0 .. Capacity /\ "IDLE" \in States
    BY CapacityAssumption DEF States
  <2>2. core \in CoreSet
    BY DEF IInv, TypeOK
  <2>3. QED
    BY <2>1, <2>2 DEF CoreSet
<1>2. c.state = "IDLE" /\ c.activatePending = FALSE
  BY DEF IInv, TypeOK, CoreSet
<1>3. Accept(r, c, NoValue)
  BY DEF Abort
<1> HIDE DEF c
<1>4. /\ core' \in CoreSet /\ reply' \in ReplySet
      /\ core'.state = "IDLE" /\ core'.activatePending = FALSE
  BY <1>1, <1>2, <1>3, AcceptStep
<1>5. SessionImage' /\ StateInv' /\ PendingMeansCommitted'
  BY <1>4 DEF SessionImage, StateInv, PendingMeansCommitted
<1>6. QED
  BY <1>4, <1>5, RamStep DEF Abort

\* Whatever a request is answered, the invariant holds after it.
LEMMA RequestInv ==
    ASSUME IInv, NEW r \in Requests, Request(r)
    PROVE  IInv'
<1>1. job = Idle /\ reply = NoReply
  BY DEF Request
<1>2. CASE Replay(r)
  BY <1>1, <1>2, ReplayInv
<1>3. CASE Refused(r)
  BY <1>1, <1>3, RefusedInv
<1>4. CASE Query(r) /\ Refusal(r) = "OK"
  BY <1>1, <1>4, QueryInv
<1>5. CASE Begin(r) /\ Refusal(r) = "OK"
  BY <1>1, <1>5, BeginInv
<1>6. CASE Erase(r) /\ Refusal(r) = "OK"
  BY <1>1, <1>6, EraseInv
<1>7. CASE ProgramAgain(r) /\ Refusal(r) = "OK"
  BY <1>1, <1>7, ProgramAgainInv
<1>8. CASE Program(r) /\ Refusal(r) = "OK"
  BY <1>1, <1>8, ProgramInv
<1>9. CASE Verify(r) /\ Refusal(r) = "OK"
  BY <1>1, <1>9, VerifyInv
<1>10. CASE Activate(r) /\ Refusal(r) = "OK"
  BY <1>1, <1>10, ActivateInv
<1>11. CASE Abort(r) /\ Refusal(r) = "OK"
  BY <1>1, <1>11, AbortInv
<1>12. QED
  BY <1>2, <1>3, <1>4, <1>5, <1>6, <1>7, <1>8, <1>9, <1>10, <1>11
  DEF Request, Process

-----------------------------------------------------------------------------
(* The steps of a flash job.                                               *)

\* While a job runs nothing has been activated yet.
LEMMA JobNotPending ==
    ASSUME IInv, job # Idle
    PROVE  /\ ~core.activatePending /\ job.pc # "idle" /\ job.req \in Requests
           /\ job.req.session = core.session /\ job.req.seq > core.seq
<1>1. job.pc # "idle" /\ job.pc \in PCs
  BY DEF IInv, JobInv, TypeOK
<1>2. CASE job.pc \in {"eraseRecord", "eraseApp"}
  BY <1>1, <1>2 DEF IInv, JobInv, StateInv
<1>3. CASE job.pc \in {"program", "commitBody"}
  <2>1. rec = BlankRecord
    BY <1>3 DEF IInv, JobInv, StateInv
  <2>2. QED
    BY <1>1, <2>1, BlankIsNoRecord DEF IInv, JobInv, PendingMeansCommitted
<1>4. CASE job.pc = "commitMark"
  <2>1. rec.mark = Blank /\ RecordEncode(core.image).mark = Commit
    BY <1>4 DEF IInv, JobInv, RecordEncode
  <2>2. QED
    BY <1>1, <2>1, CellAssumption DEF IInv, JobInv, PendingMeansCommitted
<1>5. QED
  BY <1>1, <1>2, <1>3, <1>4 DEF PCs, IInv, JobInv

\* Outside ERASE's first and ACTIVATE's last call no record decodes.
LEMMA JobRecord ==
    ASSUME IInv, job.pc \in {"eraseApp", "program", "commitBody"}
    PROVE  rec = BlankRecord
  BY DEF IInv, JobInv, StateInv

\* The double word being programmed is inside the APP area, its value is data.
LEMMA JobDword ==
    ASSUME IInv, job.pc = "program"
    PROVE  /\ job.req.offset + job.k \in Dwords
           /\ job.req.data[job.k + 1] \in Data
           /\ job.k \in Nat /\ Len(job.req.data) \in Nat
           /\ core.offset + Len(job.req.data) <= Size[core.image]
           /\ Size[core.image] \in Nat /\ Size[core.image] <= Capacity
           /\ core.offset \in Nat /\ job.req.offset = core.offset
           /\ job.k < Len(job.req.data)
<1>1. /\ job.req \in Requests /\ job.req.op = "PROGRAM" /\ core.state = "RECEIVING"
      /\ job.req.offset = core.offset /\ job.k < Len(job.req.data)
      /\ core.offset + Len(job.req.data) <= Size[core.image]
  BY DEF IInv, JobInv
<1>2. core.image \in Images /\ Size[core.image] \in 1 .. Capacity
  BY <1>1 DEF IInv, SessionImage, LegalSize
<1>3. job.req.data \in Seq(Data) /\ job.k \in Nat /\ core.offset \in Nat
  BY <1>1, RequestFields DEF IInv, TypeOK, CoreSet
<1> DEFINE n == Len(job.req.data)
           v == job.req.data
<1>4. n \in Nat /\ (\A k \in 1 .. n : v[k] \in Data)
  BY <1>3
<1>5. job.k + 1 \in 1 .. n
  <2> HIDE DEF n
  <2>1. QED
    BY <1>1, <1>3, <1>4 DEF n
<1>6. job.req.offset + job.k \in Dwords
  <2>1. core.offset + n <= Capacity /\ job.k < n
    <3> HIDE DEF n
    <3>1. core.offset + n <= Size[core.image]
      BY <1>1 DEF n
    <3>2. QED
      BY <1>1, <1>2, <1>3, <1>4, <3>1, CapacityAssumption DEF n
  <2> HIDE DEF n
  <2>2. QED
    BY <1>1, <1>3, <1>4, <2>1, CapacityAssumption DEF Dwords
<1>7. Size[core.image] \in Nat /\ Size[core.image] <= Capacity
  BY <1>2, CapacityAssumption
<1>8. QED
  BY <1>1, <1>3, <1>4, <1>5, <1>6, <1>7

\* Programming one double word keeps the APP flash well formed.
LEMMA ProgramType ==
    ASSUME IInv, job.pc = "program",
           NEW c \in {app[job.req.offset + job.k], Torn, job.req.data[job.k + 1]}
    PROVE  [app EXCEPT ![job.req.offset + job.k] = c] \in [Dwords -> Cells]
<1>1. c \in Cells
  BY JobDword DEF IInv, TypeOK, Cells
<1>2. QED
  BY <1>1, JobDword DEF IInv, TypeOK

\* Erasing the record first leaves nothing that decodes.
LEMMA EraseRecordDoneInv ==
    ASSUME IInv, EraseRecordDone
    PROVE  IInv'
<1>1. job # Idle /\ job.pc = "eraseRecord" /\ "eraseApp" \in PCs
  BY IdleType DEF EraseRecordDone, PCs
<1>2. /\ job.req \in Requests /\ ~core.activatePending
      /\ job.req.session = core.session /\ job.req.seq > core.seq
  BY <1>1, JobNotPending
<1>3. core.state = "PREPARED" /\ reply = NoReply
  BY <1>1 DEF IInv, JobInv
<1>4. job' = Job("eraseApp", job.req) /\ rec' = BlankRecord
  BY DEF EraseRecordDone
<1>5. TypeOK'
  BY <1>1, <1>2, <1>4, IdleType, RecordTypes DEF EraseRecordDone, IInv, TypeOK
<1>6. SessionImage' /\ StateInv' /\ PendingMeansCommitted'
  BY <1>2, <1>3 DEF EraseRecordDone, IInv, SessionImage, StateInv, PendingMeansCommitted
<1>7. JobInv'
  BY <1>1, <1>2, <1>3, <1>4, IdleType DEF EraseRecordDone, JobInv
<1>8. RecordVouches'
  BY <1>4, BlankDoesNotDecode DEF RecordVouches
<1>9. QED
  BY <1>5, <1>6, <1>7, <1>8 DEF IInv

\* Erasing the APP goes on under a blank record, to RECEIVING.
LEMMA EraseAppPageInv ==
    ASSUME IInv, EraseAppPage
    PROVE  IInv'
<1>1. job # Idle /\ job.pc = "eraseApp" /\ job.k \in Nat
  BY IdleType DEF EraseAppPage, IInv, TypeOK
<1>2. /\ job.req \in Requests /\ ~core.activatePending
      /\ job.req.session = core.session /\ job.req.seq > core.seq
  BY <1>1, JobNotPending
<1>3. core.state = "PREPARED" /\ reply = NoReply /\ rec = BlankRecord /\ rec' = rec
  BY <1>1 DEF IInv, JobInv, EraseAppPage
<1>4. core.image \in Images /\ core.session # NoSession
      /\ LegalSize(Size[core.image]) /\ core.offset = 0
  BY <1>3 DEF IInv, SessionImage, StateInv
<1>5. app' \in [Dwords -> Cells]
  BY CellAssumption DEF EraseAppPage, IInv, TypeOK, Cells
<1>6. RecordVouches'
  BY <1>3, BlankDoesNotDecode DEF RecordVouches
<1>7. CASE job' = [job EXCEPT !.k = @ + 1] /\ UNCHANGED <<core, reply>>
  <2>1. /\ job' \in [pc : PCs, req : Requests \cup {NoRequest}, k : Nat]
        /\ job'.pc = job.pc /\ job'.req = job.req
    BY <1>1, <1>7 DEF IInv, TypeOK
  <2>2. TypeOK'
    BY <1>3, <1>5, <1>7, <2>1 DEF IInv, TypeOK
  <2>3. SessionImage' /\ StateInv' /\ PendingMeansCommitted'
    BY <1>2, <1>3, <1>7 DEF IInv, SessionImage, StateInv, PendingMeansCommitted
  <2>4. JobInv'
    BY <1>1, <1>2, <1>3, <1>7, <2>1, IdleType DEF JobInv
  <2>5. QED
    BY <1>6, <2>2, <2>3, <2>4 DEF IInv
<1>8. CASE /\ job' = Idle
           /\ Accept(job.req, [core EXCEPT !.state = "RECEIVING"], NoValue)
  <2> DEFINE c == [core EXCEPT !.state = "RECEIVING"]
  <2>1. c \in CoreSet
    BY DEF IInv, TypeOK, CoreSet, States
  <2>2. /\ c.state = "RECEIVING" /\ c.session = core.session /\ c.image = core.image
        /\ c.offset = core.offset /\ c.activatePending = core.activatePending
    BY DEF IInv, TypeOK, CoreSet
  <2>3. Accept(job.req, c, NoValue)
    BY <1>8
  <2> HIDE DEF c
  <2>4. /\ core' \in CoreSet /\ reply' \in ReplySet
        /\ core'.state = "RECEIVING" /\ core'.session = core.session
        /\ core'.image = core.image /\ core'.offset = 0
        /\ core'.activatePending = FALSE
    <3>1. core.activatePending \in BOOLEAN
      BY DEF IInv, TypeOK, CoreSet
    <3>2. QED
      BY <1>2, <1>4, <2>1, <2>2, <2>3, <3>1, AcceptStep
  <2>5. TypeOK'
    BY <1>3, <1>5, <1>8, <2>4, IdleType DEF IInv, TypeOK
  <2>6. Size[core.image] \in Nat
    BY <1>4, SizeNat
  <2>7. SessionImage' /\ StateInv' /\ PendingMeansCommitted'
    BY <1>3, <1>4, <2>4, <2>6 DEF SessionImage, StateInv, PendingMeansCommitted
  <2>8. JobInv'
    BY <1>8, IdleType DEF JobInv
  <2>9. QED
    BY <1>6, <2>5, <2>7, <2>8 DEF IInv
<1>9. QED
  BY <1>7, <1>8 DEF EraseAppPage

\* Programming a double word goes on under a blank record.
LEMMA ProgramDwordInv ==
    ASSUME IInv, ProgramDword
    PROVE  IInv'
<1> DEFINE r == job.req
<1>1. job # Idle /\ job.pc = "program"
  BY IdleType DEF ProgramDword
<1>2. /\ r \in Requests /\ ~core.activatePending
      /\ r.session = core.session /\ r.seq > core.seq
  BY <1>1, JobNotPending
<1>3. /\ core.state = "RECEIVING" /\ reply = NoReply /\ r.op = "PROGRAM"
      /\ rec = BlankRecord /\ rec' = rec
  BY <1>1, JobRecord DEF IInv, JobInv, ProgramDword
<1>4. /\ job.k \in Nat /\ Len(r.data) \in Nat /\ job.k < Len(r.data)
      /\ core.offset + Len(r.data) <= Size[core.image]
      /\ Size[core.image] \in Nat /\ Size[core.image] <= Capacity
      /\ core.offset \in Nat /\ r.offset = core.offset
  BY <1>1, JobDword
<1>5. app' \in [Dwords -> Cells]
  <2>1. app \in [Dwords -> Cells]
    BY DEF IInv, TypeOK
  <2>2. [app EXCEPT ![job.req.offset + job.k] = job.req.data[job.k + 1]]
          \in [Dwords -> Cells]
    BY <1>1, ProgramType
  <2>3. QED
    BY <2>1, <2>2 DEF ProgramDword
<1>6. RecordVouches'
  BY <1>3, BlankDoesNotDecode DEF RecordVouches
<1>7. CASE /\ job.k + 1 < Len(r.data)
           /\ job' = [job EXCEPT !.k = @ + 1] /\ UNCHANGED <<core, reply>>
  <2>1. /\ job' \in [pc : PCs, req : Requests \cup {NoRequest}, k : Nat]
        /\ job'.pc = job.pc /\ job'.req = job.req /\ job'.k = job.k + 1
    BY <1>4, <1>7 DEF IInv, TypeOK
  <2>2. TypeOK'
    BY <1>3, <1>5, <1>7, <2>1 DEF IInv, TypeOK
  <2>3. SessionImage' /\ StateInv' /\ PendingMeansCommitted'
    BY <1>2, <1>3, <1>7 DEF IInv, SessionImage, StateInv, PendingMeansCommitted
  <2>4. JobInv'
    BY <1>1, <1>2, <1>3, <1>4, <1>7, <2>1, IdleType DEF JobInv
  <2>5. QED
    BY <1>6, <2>2, <2>3, <2>4 DEF IInv
<1>8. CASE /\ job' = Idle
           /\ Accept(r, [core EXCEPT !.offset = @ + Len(r.data)],
                     core.offset + Len(r.data))
  <2> DEFINE c == [core EXCEPT !.offset = @ + Len(r.data)]
  <2>1. core.offset + Len(r.data) \in 0 .. Capacity
    BY <1>4, CapacityAssumption
  <2>2. /\ c \in CoreSet
        /\ c.state = core.state /\ c.session = core.session /\ c.image = core.image
        /\ c.offset = core.offset + Len(r.data)
        /\ c.activatePending = core.activatePending
    BY <2>1 DEF IInv, TypeOK, CoreSet
  <2>3. Accept(r, c, core.offset + Len(r.data))
    BY <1>8
  <2> HIDE DEF c
  <2>4. /\ core' \in CoreSet /\ reply' \in ReplySet
        /\ core'.state = core.state /\ core'.session = core.session
        /\ core'.image = core.image /\ core'.offset = core.offset + Len(r.data)
        /\ core'.activatePending = core.activatePending
    BY <1>2, <2>1, <2>2, <2>3, AcceptStep
  <2>5. TypeOK'
    BY <1>3, <1>5, <1>8, <2>4, IdleType DEF IInv, TypeOK
  <2>6. SessionImage' /\ StateInv' /\ PendingMeansCommitted'
    BY <1>2, <1>3, <1>4, <2>4
    DEF IInv, SessionImage, StateInv, PendingMeansCommitted
  <2>7. JobInv'
    BY <1>8, IdleType DEF JobInv
  <2>8. QED
    BY <1>6, <2>5, <2>6, <2>7 DEF IInv
<1>9. QED
  BY <1>7, <1>8 DEF ProgramDword

\* A record with a body and no mark does not decode.
LEMMA CommitBodyInv ==
    ASSUME IInv, CommitBody
    PROVE  IInv'
<1>1. job # Idle /\ job.pc = "commitBody" /\ "commitMark" \in PCs
  BY IdleType DEF CommitBody, PCs
<1>2. /\ job.req \in Requests /\ ~core.activatePending
      /\ job.req.session = core.session /\ job.req.seq > core.seq
  BY <1>1, JobNotPending
<1>3. /\ core.state = "VERIFIED" /\ reply = NoReply /\ rec = BlankRecord
      /\ core.image \in Images
  BY <1>1 DEF IInv, JobInv, SessionImage
<1>4. rec' = [body |-> core.image, mark |-> Blank]
  BY <1>3 DEF CommitBody, RecordEncode, BlankRecord
<1>5. rec' \in Records
  BY <1>3, <1>4 DEF Records
<1>6. TypeOK'
  BY <1>1, <1>2, <1>5, IdleType DEF CommitBody, IInv, TypeOK
<1>7. SessionImage' /\ StateInv' /\ PendingMeansCommitted'
  BY <1>2, <1>3 DEF CommitBody, IInv, SessionImage, StateInv, PendingMeansCommitted
<1>8. JobInv'
  BY <1>1, <1>2, <1>3, <1>4, IdleType DEF CommitBody, JobInv
<1>9. RecordVouches'
  BY <1>4, CellAssumption DEF RecordVouches, RecordDecodes
<1>10. QED
  BY <1>6, <1>7, <1>8, <1>9 DEF IInv

\* The mark completes the record of an image VERIFY found valid.
LEMMA CommitMarkInv ==
    ASSUME IInv, CommitMark
    PROVE  IInv'
<1>1. job # Idle /\ job.pc = "commitMark"
  BY IdleType DEF CommitMark
<1>2. job.req \in Requests
  BY <1>1, JobNotPending
<1>3. /\ core.state = "VERIFIED" /\ core.image \in Images /\ rec.body = core.image
      /\ core.session # NoSession /\ LegalSize(Size[core.image])
      /\ ImageValid(app, core.image) /\ reply = NoReply /\ app' = app
  BY <1>1 DEF IInv, JobInv, SessionImage, StateInv, CommitMark
<1>4. rec' = RecordEncode(core.image)
  BY <1>3 DEF CommitMark, RecordEncode, IInv, TypeOK, Records
<1> DEFINE c == [core EXCEPT !.activatePending = TRUE]
<1>5. /\ c \in CoreSet
      /\ c.state = core.state /\ c.session = core.session /\ c.image = core.image
  BY DEF IInv, TypeOK, CoreSet
<1>6. Accept(job.req, c, NoValue)
  BY DEF CommitMark
<1> HIDE DEF c
<1>7. /\ core' \in CoreSet /\ reply' \in ReplySet
      /\ core'.state = "VERIFIED" /\ core'.session = core.session
      /\ core'.image = core.image
  BY <1>2, <1>3, <1>5, <1>6, AcceptStep
<1>8. TypeOK'
  BY <1>3, <1>4, <1>7, IdleType, RecordTypes DEF CommitMark, IInv, TypeOK
<1>9. SessionImage' /\ StateInv' /\ PendingMeansCommitted'
  BY <1>3, <1>4, <1>7 DEF SessionImage, StateInv, PendingMeansCommitted
<1>10. JobInv'
  BY IdleType DEF JobInv, CommitMark
<1>11. RecordVouches'
  BY <1>3, <1>4 DEF RecordVouches, RecordEncode
<1>12. QED
  BY <1>8, <1>9, <1>10, <1>11 DEF IInv

(* A HAL call cut short leaves flash that is well formed and a record that *)
(* still vouches for what it names.                                        *)
LEMMA InterruptedFlash ==
    ASSUME IInv, Interrupted
    PROVE  app' \in [Dwords -> Cells] /\ rec' \in Records /\ RecordVouches'
<1> USE DEF Interrupted
<1>1. app \in [Dwords -> Cells] /\ rec \in Records /\ RecordVouches
  BY DEF IInv, TypeOK
<1>2. CASE job.pc = "idle"
  BY <1>1, <1>2 DEF RecordVouches
<1>3. CASE job.pc = "eraseRecord"
  <2>1. rec' \in [body : {rec.body, Blank, Torn}, mark : {rec.mark, Blank, Torn}]
        /\ app' = app
    BY <1>3
  <2>2. rec' \in Records
    BY <1>1, <2>1 DEF Records
  <2>3. ASSUME RecordDecodes(rec') PROVE rec'.body = rec.body /\ RecordDecodes(rec)
    BY <2>1, <2>3, CellAssumption, ImageAssumption DEF RecordDecodes
  <2>4. RecordVouches'
    BY <1>1, <2>1, <2>3 DEF RecordVouches
  <2>5. QED
    BY <1>1, <2>1, <2>2, <2>4
<1>4. CASE job.pc = "eraseApp"
  <2>1. rec' = rec /\ rec = BlankRecord
    BY <1>4, JobRecord
  <2>2. app' \in [Dwords -> Cells]
    BY <1>1, <1>4, CellAssumption DEF Cells
  <2>3. QED
    BY <1>1, <2>1, <2>2, BlankDoesNotDecode DEF RecordVouches
<1>5. CASE job.pc = "program"
  <2>1. rec' = rec /\ rec = BlankRecord
    BY <1>5, JobRecord
  <2>2. app' \in [Dwords -> Cells]
    <3>1. PICK c \in {app[job.req.offset + job.k], Torn, job.req.data[job.k + 1]} :
            app' = [app EXCEPT ![job.req.offset + job.k] = c]
      BY <1>5
    <3>2. QED
      BY <1>5, <3>1, ProgramType
  <2>3. QED
    BY <1>1, <2>1, <2>2, BlankDoesNotDecode DEF RecordVouches
<1>6. CASE job.pc = "commitBody"
  <2>1. rec = BlankRecord /\ core.image \in Images /\ app' = app
    BY <1>6, JobRecord DEF IInv, JobInv, SessionImage
  <2>2. PICK b \in {rec.body, Torn, core.image} : rec' = [rec EXCEPT !.body = b]
    BY <1>6
  <2>3. rec' \in Records /\ rec'.mark = Blank
    BY <1>1, <2>1, <2>2 DEF Records, BlankRecord
  <2>4. QED
    BY <1>1, <2>1, <2>3, CellAssumption DEF RecordVouches, RecordDecodes
<1>7. CASE job.pc = "commitMark"
  <2>1. /\ rec.body = core.image /\ core.image \in Images /\ app' = app
        /\ ImageValid(app, core.image)
    BY <1>7 DEF IInv, JobInv, SessionImage, StateInv
  <2>2. PICK m \in {rec.mark, Torn, Commit} : rec' = [rec EXCEPT !.mark = m]
    BY <1>7
  <2>3. rec' \in Records /\ rec'.body = core.image
    BY <1>1, <2>1, <2>2 DEF Records
  <2>4. QED
    BY <1>1, <2>1, <2>3 DEF RecordVouches
<1>8. QED
  BY <1>2, <1>3, <1>4, <1>5, <1>6, <1>7

\* A flash error ends the job in ERROR_STATE and keeps the invariant.
LEMMA FlashFailsInv ==
    ASSUME IInv, FlashFails
    PROVE  IInv'
<1>1. job.req \in Requests /\ ~core.activatePending /\ core \in CoreSet
  BY JobNotPending DEF FlashFails, IInv, TypeOK
<1>2. /\ core' \in CoreSet /\ reply' \in ReplySet
      /\ core'.state = "ERROR_STATE"
      /\ core'.activatePending = core.activatePending
  BY <1>1, FailStep DEF FlashFails, Results
<1>3. app' \in [Dwords -> Cells] /\ rec' \in Records /\ RecordVouches'
  BY InterruptedFlash DEF FlashFails
<1>4. TypeOK' /\ JobInv'
  BY <1>2, <1>3, IdleType DEF FlashFails, TypeOK, JobInv
<1>5. SessionImage' /\ StateInv' /\ PendingMeansCommitted'
  BY <1>1, <1>2 DEF SessionImage, StateInv, PendingMeansCommitted
<1>6. QED
  BY <1>3, <1>4, <1>5 DEF IInv

\* A reset at any point of any job keeps the invariant.
LEMMA PowerLossInv ==
    ASSUME IInv, PowerLoss
    PROVE  IInv'
<1>1. app' \in [Dwords -> Cells] /\ rec' \in Records /\ RecordVouches'
  BY InterruptedFlash DEF PowerLoss
<1>2. TypeOK' /\ JobInv'
  BY <1>1, IdleType, InitCoreType DEF PowerLoss, TypeOK, JobInv
<1>3. SessionImage' /\ StateInv' /\ PendingMeansCommitted'
  BY DEF PowerLoss, InitCore, SessionImage, StateInv, PendingMeansCommitted
<1>4. QED
  BY <1>1, <1>2, <1>3 DEF IInv

\* The session timeout keeps the invariant.
LEMMA TickInv ==
    ASSUME IInv, Tick
    PROVE  IInv'
<1>1. job = Idle /\ UNCHANGED <<app, rec, job>> /\ core' = InitCore /\ reply' = reply
  BY DEF Tick
<1>2. core' \in CoreSet /\ reply' \in ReplySet \cup {NoReply}
  BY <1>1, InitCoreType DEF IInv, TypeOK
<1>3. SessionImage' /\ StateInv' /\ PendingMeansCommitted'
  BY <1>1 DEF InitCore, SessionImage, StateInv, PendingMeansCommitted
<1>4. QED
  BY <1>1, <1>2, <1>3, RamStep

\* Handing the reply to the link keeps the invariant.
LEMMA DeliverInv ==
    ASSUME IInv, Deliver
    PROVE  IInv'
  BY DEF Deliver, IInv, TypeOK, SessionImage, StateInv, JobInv,
         RecordVouches, PendingMeansCommitted

-----------------------------------------------------------------------------
(* The theorems.                                                           *)

\* The invariant is inductive.
LEMMA NextInv == IInv /\ [Next]_vars => IInv'
<1> SUFFICES ASSUME IInv, [Next]_vars PROVE IInv'
  OBVIOUS
<1>1. ASSUME NEW r \in Requests, Request(r) PROVE IInv'
  BY <1>1, RequestInv
<1>2. CASE FlashStep
  BY <1>2, EraseRecordDoneInv, EraseAppPageInv, ProgramDwordInv, CommitBodyInv,
     CommitMarkInv DEF FlashStep
<1>3. CASE FlashFails
  BY <1>3, FlashFailsInv
<1>4. CASE PowerLoss
  BY <1>4, PowerLossInv
<1>5. CASE Tick
  BY <1>5, TickInv
<1>6. CASE Deliver
  BY <1>6, DeliverInv
<1>7. CASE UNCHANGED vars
  BY <1>7 DEF vars, IInv, TypeOK, SessionImage, StateInv, JobInv,
              RecordVouches, PendingMeansCommitted
<1>8. QED
  BY <1>1, <1>2, <1>3, <1>4, <1>5, <1>6, <1>7 DEF Next

\* The conjunction the safety theorems below are parts of is invariant.
THEOREM Invariance == Spec => []IInv
  BY InitInv, NextInv, PTL DEF Spec

\* Every variable stays in the range its C type and its protocol give it.
THEOREM TypeCorrect == Spec => []TypeOK
<1>1. IInv => TypeOK
  BY DEF IInv
<1>2. QED
  BY <1>1, Invariance, PTL

(* No cut supply, flash error, repeated or stray request ever leaves a     *)
(* record that decodes over an APP area that is not the image it names.    *)
THEOREM RecordAlwaysVouches == Spec => []RecordVouches
<1>1. IInv => RecordVouches
  BY DEF IInv
<1>2. QED
  BY <1>1, Invariance, PTL

\* The Loader may leave for the APP only with this session's image committed.
THEOREM PendingAlwaysCommitted == Spec => []PendingMeansCommitted
<1>1. IInv => PendingMeansCommitted
  BY DEF IInv
<1>2. QED
  BY <1>1, Invariance, PTL

-----------------------------------------------------------------------------
(* No mutation is executed twice.                                          *)

\* What Accept leaves in the fields SessionMonotone compares.
LEMMA AcceptFields ==
    ASSUME NEW r, NEW c \in CoreSet, NEW v, Accept(r, c, v)
    PROVE  /\ core'.offset = c.offset /\ core'.seq = r.seq
           /\ core'.session = c.session
  BY DEF Accept, CoreSet

\* A request leaves offset and number alone or accepts a higher number.
LEMMA RequestMonotone ==
    ASSUME IInv, NEW r \in Requests, Request(r),
           core.session # NoSession, core'.session = core.session
    PROVE  /\ core'.offset >= core.offset /\ core'.seq >= core.seq
           /\ core'.cache # core.cache => core'.seq > core.seq
<1>1. /\ core \in CoreSet /\ core.offset \in Nat /\ core.seq \in Nat
      /\ core.offset >= core.offset /\ core.seq >= core.seq
  BY RequestAssumption, CapacityAssumption DEF IInv, TypeOK, CoreSet, Seqs
<1>2. CASE UNCHANGED core
  BY <1>1, <1>2
<1>3. CASE Refused(r) \/ \E res : Fail(r, res)
  <2>1. /\ core'.offset = core.offset /\ core'.seq = core.seq
        /\ core'.cache = core.cache
    BY <1>1, <1>3 DEF Refused, Reject, Fail, CoreSet
  <2>2. QED
    BY <1>1, <2>1
<1>4. CASE Refusal(r) = "OK" /\ (ProgramAgain(r) \/ Verify(r))
  <2>1. r.seq > core.seq /\ r.seq \in Nat
    BY <1>4, NotRefused, RequestFields, RequestAssumption
    DEF ProgramAgain, Verify, SessionOps, Seqs
  <2>2. CASE \E v : \E c \in {core, [core EXCEPT !.state = "VERIFIED"]} :
                      Accept(r, c, v)
    <3>0. PICK v : \E c \in {core, [core EXCEPT !.state = "VERIFIED"]} :
                      Accept(r, c, v)
      BY <2>2
    <3>1. PICK c \in {core, [core EXCEPT !.state = "VERIFIED"]} : Accept(r, c, v)
      BY <3>0
    <3>2. c \in CoreSet /\ c.offset = core.offset
      BY <1>1 DEF CoreSet, States
    <3>3. core'.offset = core.offset /\ core'.seq = r.seq
      BY <3>1, <3>2, AcceptFields
    <3>4. QED
      BY <1>1, <2>1, <3>3
  <2>3. QED
    BY <1>3, <1>4, <2>2 DEF ProgramAgain, Verify
<1>5. CASE Begin(r) /\ Refusal(r) = "OK"
  <2>1. core.session = NoSession
    BY <1>5 DEF Begin, Refusal, BeginRefusal, Queries, SessionOps
  <2>2. QED
    BY <2>1
<1>6. CASE Abort(r)
  <2> DEFINE c == [core EXCEPT !.state = "IDLE", !.session = NoSession,
                               !.offset = 0, !.activatePending = FALSE]
  <2>1. core' = [c EXCEPT !.lastError = "OK", !.seq = r.seq,
                 !.cache = [req |-> r, reply |-> Answer(r, "OK", NoValue)]]
    BY <1>6 DEF Abort, Accept
  <2>2. core'.session = NoSession
    BY <1>1, <2>1 DEF CoreSet
  <2>3. QED
    BY <2>2
<1>7. CASE Replay(r) \/ Query(r) \/ Erase(r)
  BY <1>2, <1>7 DEF Replay, Query, Erase
<1>8. CASE Program(r) \/ Activate(r)
  BY <1>2, <1>3, <1>8 DEF Program, Activate
<1>9. QED
  BY <1>3, <1>4, <1>5, <1>6, <1>7, <1>8 DEF Request, Process

\* A flash step leaves offset and number alone or accepts its job's number.
LEMMA FlashMonotone ==
    ASSUME IInv, FlashStep \/ FlashFails
    PROVE  /\ core'.offset >= core.offset /\ core'.seq >= core.seq
           /\ core'.cache # core.cache => core'.seq > core.seq
<1>1. /\ core \in CoreSet /\ core.offset \in Nat /\ core.seq \in Nat
      /\ core.offset >= core.offset /\ core.seq >= core.seq
  BY RequestAssumption, CapacityAssumption DEF IInv, TypeOK, CoreSet, Seqs
<1>2. job # Idle
  BY IdleType DEF FlashStep, FlashFails, EraseRecordDone, EraseAppPage,
     ProgramDword, CommitBody, CommitMark
<1>3. job.req \in Requests /\ job.req.seq > core.seq /\ job.req.seq \in Nat
  BY <1>2, JobNotPending, RequestFields, RequestAssumption DEF Seqs
<1>4. CASE UNCHANGED core
  BY <1>1, <1>4
<1>5. CASE FlashFails
  <2>1. /\ core'.offset = core.offset /\ core'.seq = core.seq
        /\ core'.cache = core.cache
    BY <1>1, <1>5 DEF FlashFails, Fail, CoreSet
  <2>2. QED
    BY <1>1, <2>1
<1>6. CASE \E c \in {[core EXCEPT !.state = "RECEIVING"],
                     [core EXCEPT !.activatePending = TRUE]} :
             Accept(job.req, c, NoValue)
  <2>1. PICK c \in {[core EXCEPT !.state = "RECEIVING"],
                    [core EXCEPT !.activatePending = TRUE]} :
               Accept(job.req, c, NoValue)
    BY <1>6
  <2>2. c \in CoreSet /\ c.offset = core.offset
    BY <1>1 DEF CoreSet, States
  <2>3. core'.offset = core.offset /\ core'.seq = job.req.seq
    BY <2>1, <2>2, AcceptFields
  <2>4. QED
    BY <1>1, <1>3, <2>3
<1>7. CASE /\ job.pc = "program"
           /\ Accept(job.req, [core EXCEPT !.offset = @ + Len(job.req.data)],
                     core.offset + Len(job.req.data))
  <2> DEFINE n == Len(job.req.data)
             c == [core EXCEPT !.offset = @ + n]
  <2>1. n \in Nat /\ core.offset + n <= Capacity
    BY <1>7, JobDword, CapacityAssumption
  <2>2. c \in CoreSet /\ c.offset = core.offset + n
    <3> HIDE DEF n
    <3>1. core.offset + n \in 0 .. Capacity
      BY <1>1, <2>1, CapacityAssumption
    <3>2. QED
      BY <1>1, <3>1 DEF CoreSet
  <2>3. core'.offset = core.offset + n /\ core'.seq = job.req.seq
    BY <1>7, <2>2, AcceptFields
  <2> HIDE DEF n
  <2>4. QED
    BY <1>1, <1>3, <2>1, <2>3
<1>8. CASE EraseAppPage
  BY <1>4, <1>6, <1>8 DEF EraseAppPage
<1>9. CASE ProgramDword
  BY <1>4, <1>7, <1>9 DEF ProgramDword
<1>10. CASE CommitMark
  BY <1>6, <1>10 DEF CommitMark
<1>11. CASE EraseRecordDone \/ CommitBody
  BY <1>4, <1>11 DEF EraseRecordDone, CommitBody
<1>12. QED
  BY <1>5, <1>8, <1>9, <1>10, <1>11 DEF FlashStep

(* Inside a session offset and sequence number only grow, and a mutation   *)
(* is accepted only under a new number: a retry is never executed twice.   *)
THEOREM NeverTwice == Spec => SessionMonotone
<1> DEFINE Mono == core.session # NoSession /\ core'.session = core.session =>
                      /\ core'.offset >= core.offset
                      /\ core'.seq >= core.seq
                      /\ core'.cache # core.cache => core'.seq > core.seq
<1>1. IInv /\ [Next]_vars => [Mono]_vars
  <2> SUFFICES ASSUME IInv, Next, core.session # NoSession,
                      core'.session = core.session
               PROVE  /\ core'.offset >= core.offset
                      /\ core'.seq >= core.seq
                      /\ core'.cache # core.cache => core'.seq > core.seq
    OBVIOUS
  <2>1. CASE \E r \in Requests : Request(r)
    BY <2>1, RequestMonotone
  <2>2. CASE FlashStep \/ FlashFails
    BY <2>2, FlashMonotone
  <2>3. CASE PowerLoss \/ Tick
    BY <2>3 DEF PowerLoss, Tick, InitCore
  <2>4. CASE Deliver
    <3>1. /\ core'  = core
          /\ core.offset \in Nat /\ core.seq \in Nat
      BY <2>4, RequestAssumption, CapacityAssumption
      DEF Deliver, IInv, TypeOK, CoreSet, Seqs
    <3>2. QED
      BY <3>1
  <2>5. QED
    BY <2>1, <2>2, <2>3, <2>4 DEF Next
<1>2. QED
  BY <1>1, Invariance, PTL DEF Spec, SessionMonotone

-----------------------------------------------------------------------------
(* The Loader implements BootUpdate.                                       *)

Target == IF core.session = NoSession THEN NoImage ELSE core.image

\* Flash left alone boots the same image.
LEMMA SameFlash ==
    ASSUME UNCHANGED <<app, rec>>
    PROVE  BootedImage' = BootedImage
  BY DEF BootedImage, BootValid, RecordDecodes, ImageValid, VectorsValid, CrcMatches

\* A record that is not that of an image boots nothing.
LEMMA NothingBoots ==
    ASSUME ~RecordDecodes(rec)
    PROVE  BootedImage = NoImage
  BY DEF BootedImage, BootValid

\* Nor after a step that leaves such a record.
LEMMA NothingBootsNext ==
    ASSUME ~RecordDecodes(rec)'
    PROVE  BootedImage' = NoImage
  BY DEF BootedImage, BootValid

\* A job runs for a session whose image is legal.
LEMMA JobTarget ==
    ASSUME IInv, job # Idle
    PROVE  Target = core.image /\ core.image \in Images /\ Target # NoImage
<1>1. core.state \in {"PREPARED", "RECEIVING", "VERIFIED"}
  BY JobNotPending DEF IInv, JobInv, TypeOK, PCs
<1>2. QED
  BY <1>1, ImageAssumption DEF IInv, SessionImage, Target

\* The record ERASE's first call, a program or a commit may leave behind
\* decodes only if it is the one that was there or the one being committed.
LEMMA InterruptedBoots ==
    ASSUME IInv, Interrupted, job # Idle
    PROVE  \/ BootedImage' = BootedImage
           \/ BootedImage' = NoImage
           \/ BootedImage = NoImage /\ BootedImage' = core.image
<1> USE DEF Interrupted
<1>1. job.pc # "idle" /\ rec \in Records /\ job.pc \in PCs
  BY JobNotPending DEF IInv, TypeOK
<1>2. CASE job.pc = "eraseRecord"
  <2>1. /\ rec' \in [body : {rec.body, Blank, Torn}, mark : {rec.mark, Blank, Torn}]
        /\ app' = app
    BY <1>2
  <2>2. CASE RecordDecodes(rec)'
    <3>1. rec'.mark = Commit /\ rec'.body \in Images
      BY <2>2 DEF RecordDecodes
    <3>2. rec'.mark = rec.mark /\ rec'.body = rec.body
      BY <2>1, <3>1, CellAssumption, ImageAssumption
    <3>3. rec' = rec
      BY <1>1, <2>1, <3>2 DEF Records
    <3>4. QED
      BY <2>1, <3>3, SameFlash
  <2>3. QED
    BY <2>2, NothingBootsNext
<1>3. CASE job.pc \in {"eraseApp", "program"}
  <2>1. rec' = rec /\ rec = BlankRecord
    BY <1>3, JobRecord
  <2>2. ~RecordDecodes(rec)'
    BY <2>1, BlankDoesNotDecode DEF RecordDecodes
  <2>3. QED
    BY <2>2, NothingBootsNext
<1>4. CASE job.pc = "commitBody"
  <2>1. PICK b \in {rec.body, Torn, core.image} : rec' = [rec EXCEPT !.body = b]
    BY <1>4
  <2>2. rec = BlankRecord
    BY <1>4, JobRecord
  <2>3. rec'.mark = Blank
    BY <2>1, <2>2 DEF BlankRecord
  <2>4. ~RecordDecodes(rec)'
    BY <2>3, CellAssumption DEF RecordDecodes
  <2>5. QED
    BY <2>4, NothingBootsNext
<1>5. CASE job.pc = "commitMark"
  <2>1. rec.mark = Blank /\ rec.body = core.image
    BY <1>5 DEF IInv, JobInv
  <2>2. BootedImage = NoImage
    <3>1. ~RecordDecodes(rec)
      BY <2>1, CellAssumption DEF RecordDecodes
    <3>2. QED
      BY <3>1, NothingBoots
  <2>3. PICK m \in {rec.mark, Torn, Commit} : rec' = [rec EXCEPT !.mark = m]
    BY <1>5
  <2>4. rec'.body = core.image
    BY <1>1, <2>1, <2>3 DEF Records
  <2>5. BootedImage' \in {core.image, NoImage}
    BY <2>4 DEF BootedImage
  <2>6. QED
    BY <2>2, <2>5
<1>6. QED
  BY <1>1, <1>2, <1>3, <1>4, <1>5 DEF PCs

\* A flash step that succeeds boots what an interrupted one may boot.
LEMMA FlashBoots ==
    ASSUME IInv, FlashStep
    PROVE  /\ job # Idle
           /\ \/ BootedImage' = BootedImage
              \/ BootedImage' = NoImage
              \/ BootedImage = NoImage /\ BootedImage' = core.image
<1>1. job # Idle
  BY IdleType DEF FlashStep, EraseRecordDone, EraseAppPage, ProgramDword,
     CommitBody, CommitMark
<1>2. CASE EraseRecordDone
  <2>1. ~RecordDecodes(rec)'
    BY <1>2, BlankDoesNotDecode DEF EraseRecordDone, RecordDecodes
  <2>2. QED
    BY <1>1, <2>1, NothingBootsNext
<1>3. CASE EraseAppPage \/ ProgramDword
  <2>1. rec' = rec /\ rec = BlankRecord
    BY <1>3, JobRecord DEF EraseAppPage, ProgramDword
  <2>2. ~RecordDecodes(rec)'
    BY <2>1, BlankDoesNotDecode DEF RecordDecodes
  <2>3. QED
    BY <1>1, <2>2, NothingBootsNext
<1>4. CASE CommitBody
  <2>1. rec'.mark = Blank
    BY <1>4, JobRecord DEF CommitBody, BlankRecord
  <2>2. ~RecordDecodes(rec)'
    BY <2>1, CellAssumption DEF RecordDecodes
  <2>3. QED
    BY <1>1, <2>2, NothingBootsNext
<1>5. CASE CommitMark
  <2>1. rec.mark = Blank /\ rec.body = core.image /\ rec \in Records
    BY <1>5 DEF CommitMark, IInv, JobInv, TypeOK
  <2>2. ~RecordDecodes(rec)
    BY <2>1, CellAssumption DEF RecordDecodes
  <2>3. rec'.body = core.image
    BY <1>5, <2>1 DEF CommitMark, Records
  <2>4. BootedImage' \in {core.image, NoImage}
    BY <2>3 DEF BootedImage
  <2>5. QED
    BY <1>1, <2>2, <2>4, NothingBoots
<1>6. QED
  BY <1>2, <1>3, <1>4, <1>5 DEF FlashStep

\* A flash step or failure keeps the session and its image.
LEMMA FlashKeepsTarget ==
    ASSUME IInv, FlashStep \/ FlashFails
    PROVE  Target' = Target
<1>1. core \in CoreSet
  BY DEF IInv, TypeOK
<1>2. CASE UNCHANGED core
  BY <1>2 DEF Target
<1>3. ASSUME NEW c \in CoreSet, NEW v, Accept(job.req, c, v),
             c.session = core.session, c.image = core.image
      PROVE  Target' = Target
  BY <1>3 DEF Accept, CoreSet, Target
<1>4. CASE FlashFails
  BY <1>1, <1>4 DEF FlashFails, Fail, CoreSet, Target
<1>5. CASE EraseAppPage
  <2> DEFINE c == [core EXCEPT !.state = "RECEIVING"]
  <2>1. c \in CoreSet /\ c.session = core.session /\ c.image = core.image
    BY <1>1 DEF CoreSet, States
  <2>2. QED
    BY <1>2, <1>3, <1>5, <2>1 DEF EraseAppPage
<1>6. CASE ProgramDword
  <2> DEFINE n == Len(job.req.data)
             c == [core EXCEPT !.offset = @ + n]
  <2>1. core.offset + n \in 0 .. Capacity
    <3>1. n \in Nat /\ core.offset \in Nat /\ core.offset + n <= Capacity
      BY <1>6, JobDword, CapacityAssumption DEF ProgramDword
    <3> HIDE DEF n
    <3>2. QED
      BY <3>1, CapacityAssumption
  <2>2. c \in CoreSet /\ c.session = core.session /\ c.image = core.image
    <3> HIDE DEF n
    <3>1. QED
      BY <1>1, <2>1 DEF CoreSet
  <2>3. QED
    BY <1>2, <1>3, <1>6, <2>2 DEF ProgramDword
<1>7. CASE CommitMark
  <2> DEFINE c == [core EXCEPT !.activatePending = TRUE]
  <2>1. c \in CoreSet /\ c.session = core.session /\ c.image = core.image
    BY <1>1 DEF CoreSet
  <2>2. QED
    BY <1>3, <1>7, <2>1 DEF CommitMark
<1>8. CASE EraseRecordDone \/ CommitBody
  BY <1>2, <1>8 DEF EraseRecordDone, CommitBody
<1>9. QED
  BY <1>4, <1>5, <1>6, <1>7, <1>8 DEF FlashStep

\* A request opens a session, ends it, or leaves session and image alone.
LEMMA RequestTarget ==
    ASSUME IInv, NEW r \in Requests, Request(r)
    PROVE  /\ UNCHANGED <<app, rec>>
           /\ \/ Target' \in {Target, NoImage}
              \/ Target = NoImage /\ Target' \in Images
<1>1. core \in CoreSet
  BY DEF IInv, TypeOK
<1>2. UNCHANGED <<app, rec>>
  BY DEF Request, Replay, Process, Refused, Query, Begin, Erase, ProgramAgain,
         Program, Verify, Activate, Abort
<1>3. CASE Replay(r) \/ Query(r) \/ Erase(r) \/ Refused(r) \/ Program(r) \/ Activate(r)
  BY <1>1, <1>3 DEF Replay, Query, Erase, Refused, Program, Activate, Reject, Fail,
                    CoreSet, Target
<1>4. CASE ProgramAgain(r) \/ Verify(r)
  BY <1>1, <1>4 DEF ProgramAgain, Verify, Accept, Fail, CoreSet, Target
<1>5. CASE Begin(r) /\ Refusal(r) = "OK"
  <2>1. core.session = NoSession /\ r.op = "BEGIN"
    BY <1>5 DEF Begin, Refusal, BeginRefusal, Queries, SessionOps
  <2>2. core'.image = r.img
    BY <1>1, <1>5 DEF Begin, Accept, CoreSet
  <2>3. QED
    BY <1>2, <2>1, <2>2, RequestFields DEF Target
<1>6. CASE Abort(r)
  BY <1>1, <1>6 DEF Abort, Accept, CoreSet, Target
<1>7. QED
  BY <1>2, <1>3, <1>4, <1>5, <1>6 DEF Request, Process

\* One step of the Loader is one step of an update, or none.
LEMMA StepRefines ==
    ASSUME IInv, [Next]_vars
    PROVE  [Update!Next]_(Update!vars)
<1> SUFFICES \/ Update!Next
             \/ BootedImage' = BootedImage /\ Target' = Target
  BY DEF Update!vars, Target
<1>1. ASSUME Target' \in {Target, NoImage},
             \/ BootedImage' = BootedImage
             \/ Target # NoImage /\ BootedImage' = NoImage
             \/ Target # NoImage /\ BootedImage = NoImage /\ BootedImage' = Target
      PROVE  Update!Next
  BY <1>1 DEF Update!Next, Update!Proceed, Update!Invalidate, Update!Install, Target
<1>2. ASSUME NEW r \in Requests, Request(r) PROVE Update!Next
  <2>1. BootedImage' = BootedImage
    BY <1>2, RequestTarget, SameFlash
  <2>2. CASE Target' \in {Target, NoImage}
    BY <1>1, <2>1, <2>2
  <2>3. CASE Target = NoImage /\ Target' \in Images
    BY <2>1, <2>3 DEF Update!Next, Update!Open, Target
  <2>4. QED
    BY <1>2, <2>2, <2>3, RequestTarget
<1>3. CASE FlashStep
  BY <1>1, <1>3, FlashBoots, FlashKeepsTarget, JobTarget
<1>4. CASE FlashFails
  BY <1>1, <1>4, InterruptedBoots, FlashKeepsTarget, JobTarget DEF FlashFails
<1>5. CASE PowerLoss
  <2>1. Target' = NoImage
    BY <1>5 DEF PowerLoss, InitCore, Target
  <2>2. CASE job = Idle
    <3>1. UNCHANGED <<app, rec>>
      BY <1>5, <2>2, IdleType DEF PowerLoss, Interrupted
    <3>2. QED
      BY <1>1, <2>1, <3>1, SameFlash
  <2>3. CASE job # Idle
    BY <1>1, <1>5, <2>1, <2>3, InterruptedBoots, JobTarget DEF PowerLoss
  <2>4. QED
    BY <2>2, <2>3
<1>6. CASE Tick
  <2>1. Target' = NoImage /\ BootedImage' = BootedImage
    BY <1>6, SameFlash DEF Tick, InitCore, Target
  <2>2. QED
    BY <1>1, <2>1
<1>7. CASE Deliver \/ UNCHANGED vars
  <2>1. BootedImage' = BootedImage /\ Target' = Target
    BY <1>7, SameFlash DEF Deliver, vars, Target
  <2>2. QED
    BY <2>1
<1>8. QED
  BY <1>2, <1>3, <1>4, <1>5, <1>6, <1>7 DEF Next

(* The Loader implements BootUpdate: whatever fails, the bootable image    *)
(* goes from the old one to none in a session and from none to the image   *)
(* that session announced, and never changes otherwise.                    *)
THEOREM Refinement == Spec => ImplementsBootUpdate
<1>1. Init => Update!Init
  <2> SUFFICES ASSUME Init PROVE BootedImage \in Images \cup {NoImage} /\ Target = NoImage
    BY DEF Update!Init, Target
  <2>1. Target = NoImage
    BY DEF Init, InitCore, Target
  <2>2. QED
    BY <2>1 DEF BootedImage, BootValid, RecordDecodes
<1>2. IInv /\ [Next]_vars => [Update!Next]_(Update!vars)
  BY StepRefines
<1>3. QED
  BY <1>1, <1>2, Invariance, PTL DEF Spec, ImplementsBootUpdate, Update!Spec

-----------------------------------------------------------------------------
(* What the APP flash and the cached answer are worth during a download.   *)

(* The last accepted mutation fits the state the session is in, and a      *)
(* cached chunk lies below the offset, where nothing is programmed again.  *)
CacheFits ==
    LET q == core.cache.req IN
    core.cache # NoCache =>
        /\ core.state = "PREPARED" => q.op = "BEGIN"
        /\ core.state = "RECEIVING" => q.op \in {"ERASE", "PROGRAM"}
        /\ core.state = "VERIFIED" => q.op \in {"VERIFY", "ACTIVATE"}
        /\ core.session = q.session /\ q.op = "PROGRAM" =>
              q.offset + Len(q.data) <= core.offset

\* A job is its request's, and what it has done so far is in flash.
JobFits ==
    /\ job.pc \in {"eraseRecord", "eraseApp"} => job.req.op = "ERASE"
    /\ job.pc \in {"commitBody", "commitMark"} => job.req.op = "ACTIVATE"
    /\ job.pc = "eraseApp" =>
         \A d \in Dwords : PageOf[d] < job.k => app[d] = Blank
    /\ job.pc = "program" =>
         \A j \in 1 .. job.k : app[core.offset + j - 1] = job.req.data[j]

ContentInv == TailBlank /\ ReplayTruthful /\ CacheFits /\ JobFits

\* Without a cached answer and a download there is nothing to fit.
LEMMA FreshContent ==
    ASSUME core' = InitCore, job' = Idle
    PROVE  ContentInv'
  BY DEF InitCore, Idle, ContentInv, TailBlank, ReplayTruthful, CacheFits, JobFits

\* What an idle foreground leaves alone stays true when only lastError and
\* perhaps the state, to ERROR_STATE, change.
LEMMA SameContent ==
    ASSUME ContentInv, job = Idle, UNCHANGED <<app, rec, job>>,
           core'.state \in {core.state, "ERROR_STATE"},
           core'.session = core.session, core'.image = core.image,
           core'.offset = core.offset, core'.cache = core.cache
    PROVE  ContentInv'
<1>1. TailBlank'
  BY DEF ContentInv, TailBlank, Idle
<1>2. ReplayTruthful'
  BY DEF ContentInv, ReplayTruthful, ImageValid, VectorsValid, CrcMatches, RecordEncode
<1>3. CacheFits' /\ JobFits'
  BY DEF ContentInv, CacheFits, JobFits, Idle
<1>4. QED
  BY <1>1, <1>2, <1>3 DEF ContentInv

\* What is left of a core in the cache and the fields beside it.
LEMMA AcceptCache ==
    ASSUME NEW r \in Requests, NEW c \in CoreSet, NEW v, Accept(r, c, v)
    PROVE  /\ core'.cache.req = r /\ core'.cache.reply.value = v
           /\ core'.state = c.state /\ core'.session = c.session
           /\ core'.image = c.image /\ core'.offset = c.offset
  BY DEF Accept, CoreSet, Answer

\* A failure or a refusal leaves the cache as it is.
LEMMA RefusedContent ==
    ASSUME IInv, ContentInv, job = Idle, UNCHANGED <<app, rec, job>>, NEW r,
           \E res : Reject(r, res) \/ Fail(r, res)
    PROVE  ContentInv'
<1>1. core \in CoreSet
  BY DEF IInv, TypeOK
<1>2. /\ core'.state \in {core.state, "ERROR_STATE"}
      /\ core'.session = core.session /\ core'.image = core.image
      /\ core'.offset = core.offset /\ core'.cache = core.cache
  BY <1>1 DEF Reject, Fail, CoreSet
<1>3. QED
  BY <1>2, SameContent

\* A request that is not acknowledged at once and starts no job.
LEMMA QuietContent ==
    ASSUME IInv, ContentInv, job = Idle, UNCHANGED <<app, rec, core, job>>
    PROVE  ContentInv'
  BY SameContent

\* A mutation accepted from the foreground, with the flash as it was.
LEMMA BeginContent ==
    ASSUME IInv, ContentInv, job = Idle, NEW r \in Requests, Begin(r) \/ Abort(r)
    PROVE  ContentInv'
<1>1. core \in CoreSet
  BY DEF IInv, TypeOK
<1>2. /\ core'.cache.req = r /\ core'.state \in {"PREPARED", "IDLE"}
      /\ core'.state = "PREPARED" => r.op = "BEGIN"
      /\ r.op \in {"BEGIN", "ABORT"}
  <2>1. CASE Begin(r)
    <3> DEFINE c == [core EXCEPT !.image = r.img, !.session = r.session,
                                 !.state = "PREPARED", !.offset = 0,
                                 !.activatePending = FALSE]
    <3>1. c.state = "PREPARED" /\ DOMAIN c = DOMAIN core
      BY <1>1 DEF CoreSet
    <3>2. Accept(r, c, 0) /\ r.op = "BEGIN"
      BY <2>1 DEF Begin
    <3> HIDE DEF c
    <3>3. QED
      BY <1>1, <3>1, <3>2 DEF Accept, CoreSet
  <2>2. CASE Abort(r)
    <3> DEFINE c == [core EXCEPT !.state = "IDLE", !.session = NoSession,
                                 !.offset = 0, !.activatePending = FALSE]
    <3>1. c.state = "IDLE" /\ DOMAIN c = DOMAIN core
      BY <1>1 DEF CoreSet
    <3>2. Accept(r, c, NoValue) /\ r.op = "ABORT"
      BY <2>2 DEF Abort
    <3> HIDE DEF c
    <3>3. QED
      BY <1>1, <3>1, <3>2 DEF Accept, CoreSet
  <2>3. QED
    BY <2>1, <2>2
<1>3. TailBlank' /\ CacheFits'
  BY <1>2 DEF TailBlank, CacheFits
<1>4. ReplayTruthful'
  BY <1>2 DEF ReplayTruthful
<1>5. JobFits'
  BY DEF Begin, Abort, JobFits, Idle
<1>6. QED
  BY <1>3, <1>4, <1>5 DEF ContentInv

\* A repeated chunk lies below the offset and is in flash.
LEMMA ProgramAgainContent ==
    ASSUME IInv, ContentInv, job = Idle, NEW r \in Requests, ProgramAgain(r),
           Refusal(r) = "OK"
    PROVE  ContentInv'
<1>1. core \in CoreSet /\ r.op = "PROGRAM" /\ r.offset < core.offset
  BY DEF IInv, TypeOK, ProgramAgain
<1>2. ProgramRefusal(r) = "OK"
  BY <1>1, NotRefused DEF StateRefusal, SessionOps
<1>3. core.state = "RECEIVING" /\ AlreadyProgrammed(r)
  BY <1>1, <1>2 DEF ProgramRefusal
<1>4. /\ core'.cache.req = r /\ core'.cache.reply.value = core.offset
      /\ core'.state = core.state /\ core'.session = core.session
      /\ core'.image = core.image /\ core'.offset = core.offset
  BY <1>1, AcceptCache DEF ProgramAgain
<1>5. app' = app /\ job' = job
  BY DEF ProgramAgain
<1>6. TailBlank'
  BY <1>4, <1>5 DEF ContentInv, TailBlank, Idle
<1>7. CacheFits'
  BY <1>1, <1>3, <1>4 DEF CacheFits, AlreadyProgrammed
<1>8. ReplayTruthful'
  BY <1>1, <1>3, <1>4, <1>5 DEF ReplayTruthful, AlreadyProgrammed
<1>9. JobFits'
  BY <1>5 DEF JobFits, Idle
<1>10. QED
  BY <1>6, <1>7, <1>8, <1>9 DEF ContentInv

\* VERIFY is accepted only over a valid image.
LEMMA VerifyContent ==
    ASSUME IInv, ContentInv, job = Idle, NEW r \in Requests, Verify(r)
    PROVE  ContentInv'
<1>1. CASE Fail(r, "VERIFY_FAIL")
  BY <1>1, RefusedContent DEF Verify
<1>2. CASE /\ ImageValid(app, core.image)
           /\ Accept(r, [core EXCEPT !.state = "VERIFIED"], core.image)
  <2>1. core \in CoreSet
    BY DEF IInv, TypeOK
  <2>2. /\ core'.cache.req = r /\ core'.state = "VERIFIED" /\ core'.image = core.image
        /\ r.op = "VERIFY"
    BY <1>2, <2>1 DEF Verify, Accept, CoreSet
  <2>3. app' = app /\ job' = Idle
    BY DEF Verify
  <2>4. TailBlank' /\ CacheFits' /\ JobFits'
    BY <2>2, <2>3 DEF TailBlank, CacheFits, JobFits, Idle
  <2>5. ReplayTruthful'
    BY <1>2, <2>2, <2>3 DEF ReplayTruthful, ImageValid, VectorsValid, CrcMatches
  <2>6. QED
    BY <2>4, <2>5 DEF ContentInv
<1>3. QED
  BY <1>1, <1>2 DEF Verify

\* A job that is started finds the flash as the cache has it.
LEMMA StartContent ==
    ASSUME IInv, ContentInv, job = Idle, NEW r \in Requests,
           Erase(r) \/ Program(r) \/ Activate(r), UNCHANGED core
    PROVE  ContentInv'
<1>1. UNCHANGED <<app, rec>>
  BY DEF Erase, Program, Activate
<1>2. CASE job' = Idle
  BY <1>1, <1>2, SameContent
<1>3. CASE \/ r.op = "ERASE" /\ job' = Job("eraseRecord", r)
           \/ r.op = "ACTIVATE" /\ job' = Job("commitBody", r)
           \/ r.op = "PROGRAM" /\ job' = Job("program", r)
  <2>1. /\ job'.req = r /\ job'.k = 0
        /\ \/ job'.pc = "eraseRecord" /\ r.op = "ERASE"
           \/ job'.pc = "commitBody" /\ r.op = "ACTIVATE"
           \/ job'.pc = "program" /\ r.op = "PROGRAM"
    BY <1>3 DEF Job
  <2>2. core.offset \in Nat
    BY DEF IInv, TypeOK, CoreSet
  <2>3. TailBlank'
    BY <1>1, <2>1, <2>2 DEF ContentInv, TailBlank, Idle, Dwords
  <2>4. CacheFits' /\ JobFits'
    BY <1>1, <2>1 DEF ContentInv, CacheFits, JobFits
  <2>5. ReplayTruthful'
    BY <1>1 DEF ContentInv, ReplayTruthful, ImageValid, VectorsValid, CrcMatches,
                RecordEncode
  <2>6. QED
    BY <2>3, <2>4, <2>5 DEF ContentInv
<1>4. job' = Idle \/ (\/ r.op = "ERASE" /\ job' = Job("eraseRecord", r)
                      \/ r.op = "ACTIVATE" /\ job' = Job("commitBody", r)
                      \/ r.op = "PROGRAM" /\ job' = Job("program", r))
  BY DEF Erase, Program, Activate
<1>5. QED
  BY <1>2, <1>3, <1>4

\* Whatever a request is answered, flash, cache and job fit each other.
LEMMA RequestContent ==
    ASSUME IInv, ContentInv, NEW r \in Requests, Request(r)
    PROVE  ContentInv'
<1>1. job = Idle /\ reply = NoReply
  BY DEF Request
<1>2. CASE Replay(r) \/ Query(r)
  BY <1>1, <1>2, QuietContent DEF Replay, Query
<1>3. CASE Refused(r)
  BY <1>1, <1>3, RefusedContent DEF Refused
<1>4. CASE Begin(r) \/ Abort(r)
  BY <1>1, <1>4, BeginContent
<1>5. CASE ProgramAgain(r) /\ Refusal(r) = "OK"
  BY <1>1, <1>5, ProgramAgainContent
<1>6. CASE Verify(r)
  BY <1>1, <1>6, VerifyContent
<1>7. CASE Erase(r) \/ Program(r) \/ Activate(r)
  <2>1. CASE UNCHANGED core
    BY <1>1, <1>7, <2>1, StartContent
  <2>2. CASE UNCHANGED <<app, rec, job>> /\ \E res : Fail(r, res)
    BY <1>1, <2>2, RefusedContent
  <2>3. QED
    BY <1>7, <2>1, <2>2 DEF Erase, Program, Activate
<1>8. QED
  BY <1>2, <1>3, <1>4, <1>5, <1>6, <1>7 DEF Request, Process

\* ERASE goes over the cached BEGIN, which promises nothing of the flash, and
\* ends with every page blank.
LEMMA EraseContent ==
    ASSUME IInv, ContentInv, EraseRecordDone \/ EraseAppPage
    PROVE  ContentInv'
<1>1. /\ job # Idle /\ job.pc \in {"eraseRecord", "eraseApp"} /\ job.k \in Nat
      /\ core \in CoreSet
  BY IdleType DEF EraseRecordDone, EraseAppPage, IInv, TypeOK
<1>2. job.req \in Requests /\ core.state = "PREPARED" /\ job.req.op = "ERASE"
      /\ core.offset = 0
  BY <1>1, JobNotPending DEF IInv, JobInv, StateInv, ContentInv, JobFits
<1>3. core.cache # NoCache => core.cache.req.op = "BEGIN"
  BY <1>2 DEF ContentInv, CacheFits
<1>4. CASE UNCHANGED core /\ job'.pc = "eraseApp" /\ job'.req = job.req
           /\ \A d \in Dwords : PageOf[d] < job'.k => app'[d] = Blank
  <2>1. TailBlank' /\ ReplayTruthful' /\ CacheFits'
    BY <1>2, <1>3, <1>4 DEF TailBlank, ReplayTruthful, ContentInv, CacheFits
  <2>2. JobFits'
    BY <1>2, <1>4 DEF JobFits
  <2>3. QED
    BY <2>1, <2>2 DEF ContentInv
<1>5. CASE EraseRecordDone
  <2>1. UNCHANGED <<app, core>> /\ job'.pc = "eraseApp" /\ job'.req = job.req
        /\ job'.k = 0
    BY <1>5 DEF EraseRecordDone, Job
  <2>2. \A d \in Dwords : ~(PageOf[d] < job'.k)
    BY <2>1, PageAssumption
  <2>3. QED
    BY <1>4, <2>1, <2>2
<1>6. CASE EraseAppPage
  <2>1. /\ job.pc = "eraseApp"
        /\ \A d \in Dwords : PageOf[d] < job.k => app[d] = Blank
        /\ app' = [d \in Dwords |-> IF PageOf[d] = job.k THEN Blank ELSE app[d]]
    BY <1>6 DEF EraseAppPage, ContentInv, JobFits
  <2>2. \A d \in Dwords : PageOf[d] <= job.k => app'[d] = Blank
    BY <1>1, <2>1, PageAssumption
  <2>3. CASE job' = [job EXCEPT !.k = @ + 1] /\ UNCHANGED core
    <3>1. job'.pc = "eraseApp" /\ job'.req = job.req /\ job'.k = job.k + 1
      BY <2>1, <2>3 DEF IInv, TypeOK
    <3>2. \A d \in Dwords : PageOf[d] < job'.k => app'[d] = Blank
      BY <1>1, <2>2, <3>1, PageAssumption
    <3>3. QED
      BY <1>4, <2>3, <3>1, <3>2
  <2>4. CASE /\ ~(job.k < LastPage) /\ job' = Idle
             /\ Accept(job.req, [core EXCEPT !.state = "RECEIVING"], NoValue)
    <3>1. /\ core'.cache.req = job.req /\ core'.state = "RECEIVING"
      BY <1>1, <2>4 DEF Accept, CoreSet
    <3>2. \A d \in Dwords : app'[d] = Blank
      BY <1>1, <2>2, <2>4, PageAssumption
    <3>3. TailBlank' /\ CacheFits' /\ JobFits'
      BY <1>2, <2>4, <3>1, <3>2 DEF TailBlank, CacheFits, JobFits, Idle
    <3>4. ReplayTruthful'
      BY <1>2, <3>1 DEF ReplayTruthful
    <3>5. QED
      BY <3>3, <3>4 DEF ContentInv
  <2>5. QED
    BY <1>6, <2>3, <2>4 DEF EraseAppPage
<1>7. QED
  BY <1>5, <1>6

\* A cached chunk below the offset does not notice what is programmed at it.
LEMMA BelowOffset ==
    ASSUME IInv, ContentInv, job.pc = "program",
           NEW c, app' = [app EXCEPT ![job.req.offset + job.k] = c],
           core.cache # NoCache, core.session = core.cache.req.session,
           core.cache.req.op = "PROGRAM"
    PROVE  \A k \in 1 .. Len(core.cache.req.data) :
              app'[core.cache.req.offset + k - 1] = core.cache.req.data[k]
<1> DEFINE q == core.cache.req
<1>1. core.offset \in Nat /\ job.req.offset = core.offset /\ job.k \in Nat
      /\ job.req.offset + job.k \in Dwords
  BY JobDword
<1>2. q \in Requests /\ q.offset \in Nat /\ q.data \in Seq(Data)
  BY RequestFields DEF IInv, TypeOK, CoreSet
<1>3. /\ q.offset + Len(q.data) <= core.offset
      /\ \A k \in 1 .. Len(q.data) : app[q.offset + k - 1] = q.data[k]
  BY DEF ContentInv, CacheFits, ReplayTruthful
<1>4. \A d \in Dwords : d < core.offset => app'[d] = app[d]
  BY <1>1 DEF IInv, TypeOK
<1>5. core.offset <= Capacity
  BY CapacityAssumption DEF IInv, TypeOK, CoreSet
<1> DEFINE n == Len(q.data)
<1>6. n \in Nat
  BY <1>2
<1>7. ASSUME NEW k \in 1 .. n
      PROVE  q.offset + k - 1 \in Dwords /\ q.offset + k - 1 < core.offset
  <2>1. q.offset + n <= core.offset
    BY <1>3
  <2> HIDE DEF n, q
  <2>2. QED
    BY <1>1, <1>2, <1>5, <1>6, <1>7, <2>1, CapacityAssumption DEF Dwords
<1>8. QED
  BY <1>3, <1>4, <1>7

\* PROGRAM writes a blank double word at the offset, and the last one makes the
\* chunk acknowledged.
LEMMA ProgramContent ==
    ASSUME IInv, ContentInv, ProgramDword
    PROVE  ContentInv'
<1> DEFINE r == job.req
           d == r.offset + job.k
           v == r.data[job.k + 1]
           n == Len(r.data)
<1>1. /\ job.pc = "program" /\ job # Idle
      /\ v = Blank \/ app[d] = Blank
      /\ app' = IF v = Blank THEN app ELSE [app EXCEPT ![d] = v]
  BY IdleType DEF ProgramDword
<1>2. /\ d \in Dwords /\ job.k \in Nat /\ n \in Nat /\ job.k < n
      /\ core.offset \in Nat /\ r.offset = core.offset
      /\ core.offset + n <= Size[core.image]
      /\ Size[core.image] \in Nat /\ Size[core.image] <= Capacity
  BY <1>1, JobDword
<1>3. /\ core \in CoreSet /\ app \in [Dwords -> Cells] /\ core.state = "RECEIVING"
      /\ r \in Requests /\ r.op = "PROGRAM" /\ rec' = rec
  BY <1>1, JobNotPending DEF IInv, TypeOK, JobInv, ProgramDword
<1>4. /\ \A e \in Dwords : e >= core.offset + job.k => app[e] = Blank
      /\ \A j \in 1 .. job.k : app[core.offset + j - 1] = r.data[j]
  BY <1>1, <1>3 DEF ContentInv, TailBlank, JobFits
<1>5. app' = [app EXCEPT ![d] = v]
  <2>1. CASE v = Blank
    <3>1. app[d] = v
      BY <1>2, <1>4, <2>1
    <3>2. QED
      BY <1>1, <1>2, <1>3, <2>1, <3>1
  <2>2. QED
    BY <1>1, <2>1
<1>6. app'[d] = v /\ (\A e \in Dwords : e # d => app'[e] = app[e])
  BY <1>2, <1>3, <1>5
<1>7. \A e \in Dwords : e >= core.offset + (job.k + 1) => app'[e] = Blank
  <2> HIDE DEF n, v, r
  <2>1. QED
    BY <1>2, <1>4, <1>6 DEF Dwords, d
<1>8. \A j \in 1 .. job.k + 1 : app'[core.offset + j - 1] = r.data[j]
  <2> SUFFICES ASSUME NEW j \in 1 .. job.k + 1
               PROVE  app'[core.offset + j - 1] = r.data[j]
    OBVIOUS
  <2>1. CASE j = job.k + 1
    <3>1. core.offset + j - 1 = d
      BY <1>2, <2>1
    <3>2. QED
      BY <1>6, <2>1, <3>1
  <2>2. CASE j # job.k + 1
    <3>1. j \in 1 .. job.k /\ core.offset + j - 1 # d /\ core.offset + j - 1 \in Dwords
      <4>1. core.offset + n <= Capacity
        <5> HIDE DEF n
        <5>1. QED
          BY <1>2, CapacityAssumption
      <4> HIDE DEF n, v, r
      <4>2. QED
        BY <1>2, <2>2, <4>1, CapacityAssumption DEF Dwords, d
    <3>2. QED
      BY <1>4, <1>6, <3>1
  <2>3. QED
    BY <2>1, <2>2
<1>9. CASE job' = [job EXCEPT !.k = @ + 1] /\ UNCHANGED core
  <2>1. job'.pc = "program" /\ job'.req = r /\ job'.k = job.k + 1
    BY <1>1, <1>9 DEF IInv, TypeOK
  <2>2. TailBlank' /\ JobFits'
    BY <1>7, <1>8, <1>9, <2>1 DEF TailBlank, JobFits
  <2>3. CacheFits'
    BY <1>9 DEF ContentInv, CacheFits
  <2>4. core.cache # NoCache => core.cache.req.op \in {"ERASE", "PROGRAM"}
    BY <1>3 DEF ContentInv, CacheFits
  <2>5. ReplayTruthful'
    <3>1. core.cache # NoCache /\ core.session = core.cache.req.session
          /\ core.cache.req.op = "PROGRAM" =>
              /\ core.cache.reply.value = core.offset
              /\ \A k \in 1 .. Len(core.cache.req.data) :
                   app'[core.cache.req.offset + k - 1] = core.cache.req.data[k]
      BY <1>1, <1>5, BelowOffset DEF ContentInv, ReplayTruthful
    <3>2. QED
      BY <1>9, <2>4, <3>1 DEF ReplayTruthful
  <2>6. QED
    BY <2>2, <2>3, <2>5 DEF ContentInv
<1>10. CASE /\ ~(job.k + 1 < n) /\ job' = Idle
            /\ Accept(r, [core EXCEPT !.offset = @ + n], core.offset + n)
  <2>1. job.k + 1 = n /\ core.offset + n \in 0 .. Capacity
    <3> HIDE DEF n
    <3>1. QED
      BY <1>2, <1>10, CapacityAssumption
  <2>2. /\ core'.cache.req = r /\ core'.cache.reply.value = core.offset + n
        /\ core'.state = "RECEIVING" /\ core'.offset = core.offset + n
    <3> HIDE DEF n
    <3>1. [core EXCEPT !.offset = @ + n] \in CoreSet
      BY <1>3, <2>1 DEF CoreSet
    <3>2. QED
      BY <1>3, <1>10, <3>1, AcceptCache DEF CoreSet
  <2>3. TailBlank' /\ JobFits'
    BY <1>7, <1>10, <2>1, <2>2 DEF TailBlank, JobFits, Idle
  <2>4. CacheFits'
    BY <1>2, <1>3, <2>2 DEF CacheFits
  <2>5. ReplayTruthful'
    BY <1>2, <1>3, <1>8, <2>1, <2>2 DEF ReplayTruthful
  <2>6. QED
    BY <2>3, <2>4, <2>5 DEF ContentInv
<1>11. QED
  BY <1>9, <1>10 DEF ProgramDword

\* A commit runs only while ACTIVATE is not yet the cached request; its end
\* leaves the record the answer promises.
LEMMA CommitContent ==
    ASSUME IInv, ContentInv, CommitBody \/ CommitMark
    PROVE  ContentInv'
<1>1. /\ job # Idle /\ job.pc \in {"commitBody", "commitMark"} /\ app' = app
      /\ core \in CoreSet /\ rec \in Records
  BY IdleType DEF CommitBody, CommitMark, IInv, TypeOK
<1>2. core.state = "VERIFIED" /\ job.req.op = "ACTIVATE" /\ job.req \in Requests
  BY <1>1, JobNotPending DEF IInv, JobInv, ContentInv, JobFits
<1>3. rec # RecordEncode(core.image)
  BY <1>1, BlankIsNoRecord, CellAssumption DEF IInv, JobInv, RecordEncode
<1>4. CASE CommitBody
  <2>1. job'.pc = "commitMark" /\ job'.req = job.req /\ UNCHANGED core
    BY <1>4 DEF CommitBody, Job
  <2>2. TailBlank' /\ CacheFits' /\ JobFits'
    BY <1>2, <2>1 DEF TailBlank, ContentInv, CacheFits, JobFits
  <2>3. core.cache # NoCache => core.cache.req.op \in {"VERIFY", "ACTIVATE"}
    BY <1>2 DEF ContentInv, CacheFits
  <2>4. ReplayTruthful'
    BY <1>1, <1>3, <2>1, <2>3
    DEF ContentInv, ReplayTruthful, ImageValid, VectorsValid, CrcMatches
  <2>5. QED
    BY <2>2, <2>4 DEF ContentInv
<1>5. CASE CommitMark
  <2>1. /\ core'.cache.req = job.req /\ core'.state = "VERIFIED"
        /\ core'.image = core.image
    BY <1>1, <1>2, <1>5 DEF CommitMark, Accept, CoreSet
  <2>2. rec' = RecordEncode(core.image) /\ job' = Idle
    BY <1>1, <1>5 DEF CommitMark, RecordEncode, IInv, JobInv, Records
  <2>3. TailBlank' /\ CacheFits' /\ JobFits'
    BY <1>2, <2>1, <2>2 DEF TailBlank, CacheFits, JobFits, Idle
  <2>4. ReplayTruthful'
    BY <1>2, <2>1, <2>2 DEF ReplayTruthful, RecordEncode
  <2>5. QED
    BY <2>3, <2>4 DEF ContentInv
<1>6. QED
  BY <1>4, <1>5

\* A flash error ends the download, and leaves what a replay would promise.
LEMMA FailsContent ==
    ASSUME IInv, ContentInv, FlashFails
    PROVE  ContentInv'
<1>1. /\ core \in CoreSet /\ job # Idle /\ job.pc # "idle" /\ job.pc \in PCs
      /\ Interrupted /\ job' = Idle
  BY JobNotPending DEF FlashFails, IInv, TypeOK
<1>2. /\ core'.state = "ERROR_STATE" /\ core'.session = core.session
      /\ core'.image = core.image /\ core'.offset = core.offset
      /\ core'.cache = core.cache
  BY <1>1 DEF FlashFails, Fail, CoreSet
<1>3. TailBlank' /\ CacheFits' /\ JobFits'
  BY <1>1, <1>2 DEF TailBlank, ContentInv, CacheFits, JobFits, Idle
<1>4. ReplayTruthful'
  <2>1. CASE job.pc \in {"eraseRecord", "eraseApp"}
    <3>1. core.cache # NoCache => core.cache.req.op = "BEGIN"
      BY <2>1 DEF IInv, JobInv, ContentInv, CacheFits
    <3>2. QED
      BY <1>2, <3>1 DEF ReplayTruthful
  <2>2. CASE job.pc = "program"
    <3>1. core.cache # NoCache => core.cache.req.op \in {"ERASE", "PROGRAM"}
      BY <2>2 DEF IInv, JobInv, ContentInv, CacheFits
    <3>2. PICK c : app' = [app EXCEPT ![job.req.offset + job.k] = c]
      BY <1>1, <2>2, Zenon DEF Interrupted
    <3>3. core.cache # NoCache /\ core.session = core.cache.req.session
          /\ core.cache.req.op = "PROGRAM" =>
              /\ core.cache.reply.value = core.offset
              /\ \A k \in 1 .. Len(core.cache.req.data) :
                   app'[core.cache.req.offset + k - 1] = core.cache.req.data[k]
      BY <2>2, <3>2, BelowOffset DEF ContentInv, ReplayTruthful
    <3>4. QED
      BY <1>2, <3>1, <3>3 DEF ReplayTruthful
  <2>3. CASE job.pc \in {"commitBody", "commitMark"}
    <3>1. core.cache # NoCache => core.cache.req.op \in {"VERIFY", "ACTIVATE"}
      BY <2>3 DEF IInv, JobInv, ContentInv, CacheFits
    <3>2. rec # RecordEncode(core.image) /\ app' = app
      BY <1>1, <2>3, BlankIsNoRecord, CellAssumption
      DEF Interrupted, IInv, JobInv, RecordEncode
    <3>3. QED
      BY <1>2, <3>1, <3>2
      DEF ContentInv, ReplayTruthful, ImageValid, VectorsValid, CrcMatches
  <2>4. QED
    BY <1>1, <2>1, <2>2, <2>3 DEF PCs
<1>5. QED
  BY <1>3, <1>4 DEF ContentInv

\* Every step of the core keeps flash, cache and job in step with each other.
LEMMA NextContent == IInv /\ ContentInv /\ [Next]_vars => ContentInv'
<1> SUFFICES ASSUME IInv, ContentInv, [Next]_vars PROVE ContentInv'
  OBVIOUS
<1>1. ASSUME NEW r \in Requests, Request(r) PROVE ContentInv'
  BY <1>1, RequestContent
<1>2. CASE FlashStep
  BY <1>2, EraseContent, ProgramContent, CommitContent DEF FlashStep
<1>3. CASE FlashFails
  BY <1>3, FailsContent
<1>4. CASE PowerLoss \/ Tick
  BY <1>4, FreshContent DEF PowerLoss, Tick
<1>5. CASE UNCHANGED <<app, rec, core, job>>
  BY <1>5 DEF ContentInv, TailBlank, ReplayTruthful, CacheFits, JobFits,
              ImageValid, VectorsValid, CrcMatches, RecordEncode
<1>6. QED
  BY <1>1, <1>2, <1>3, <1>4, <1>5 DEF Next, Deliver, vars

(* While a download runs everything past the acknowledged offset is blank, *)
(* but for the chunk being written (ERASE, PROGRAM of loader_core.c).      *)
THEOREM TailStaysBlank == Spec => []TailBlank
<1>1. Init => ContentInv
  BY DEF Init, InitCore, Idle, ContentInv, TailBlank, ReplayTruthful, CacheFits, JobFits
<1>2. ContentInv => TailBlank
  BY DEF ContentInv
<1>3. QED
  BY <1>1, <1>2, Invariance, NextContent, PTL DEF Spec

(* What the cached answer to a retried mutation says is still true of the  *)
(* flash and the record, in every state of the session.                    *)
THEOREM ReplaysAreTruthful == Spec => []ReplayTruthful
<1>1. Init => ContentInv
  BY DEF Init, InitCore, Idle, ContentInv, TailBlank, ReplayTruthful, CacheFits, JobFits
<1>2. ContentInv => ReplayTruthful
  BY DEF ContentInv
<1>3. QED
  BY <1>1, <1>2, Invariance, NextContent, PTL DEF Spec
=============================================================================
