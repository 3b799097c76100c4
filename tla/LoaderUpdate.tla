---------------------------- MODULE LoaderUpdate ----------------------------
(***************************************************************************)
(* One update as the host runs it: Client of loader/tools/loader_updater.py *)
(* talking to the Loader over a bus that may lose a frame on either side.  *)
(* The client is stop-and-wait: one request at a time, the same bytes sent *)
(* again after a timeout, at most Retries times; a timeout may be as early *)
(* or as late as it likes, so copies of a request pile up in the part and  *)
(* answers arrive after the client has moved on.                           *)
(***************************************************************************)
EXTENDS LoaderMain

CONSTANTS
    Retries,        \* sends per request (retries=10)
    Offered,        \* images the user may choose; validate_image let them pass
    Observer,       \* requests other tools on the bus may send (queries)
    MaxForeign      \* bound: how many of them reach the part

\* Operation and number of the client's own queries.
ClientQueries == {<<"INFO", 1>>, <<"UID", 2>>}

(* What the client relies on: a tool beside it asks nothing its own answer *)
(* could be taken for, and an update has fewer requests than a u16 counts. *)
ASSUME HostAssumption ==
    /\ Retries \in Nat \ {0}
    /\ MaxForeign \in Nat
    /\ MaxChunk # 0
    /\ Observer \subseteq Requests
    /\ \A r \in Observer : r.op \in Queries /\ <<r.op, r.seq>> \notin ClientQueries
    /\ Offered \subseteq Images
    /\ \A i \in Offered : VectorsValid(Content[i], Size[i]) /\ Size[i] + 6 <= MaxSeq

VARIABLES
    host,           \* the client: step, seq, sends so far, session, image,
                    \* offset; and foreign, the other tools' requests so far
    disturbed       \* history: a reset, a session timeout or a flash error

updateVars == <<allVars, host, disturbed>>

Asking == {"INFO", "UID", "BEGIN", "ERASE", "PROGRAM", "VERIFY", "ACTIVATE"}
Ended  == {"acknowledged", "unacknowledged", "refused", "mismatch", "timeout"}

UpdateInit ==
    /\ MainInit
    /\ \E i \in Offered, s \in Sessions :
          host = [step |-> "INFO", seq |-> 1, sends |-> 0, session |-> s,
                  img |-> i, offset |-> 0, foreign |-> 0]
    /\ disturbed = FALSE

\* min(40, remaining, 2048 - offset % 2048), in double words.
ChunkLength(i, offset) ==
    CHOOSE n \in 1 .. MaxChunk :
        /\ offset + n <= Size[i]
        /\ PageOf[offset + n - 1] = PageOf[offset]
        /\ \/ n = MaxChunk
           \/ offset + n = Size[i]
           \/ PageOf[offset + n] # PageOf[offset]

Chunk(i, offset) ==
    [k \in 1 .. ChunkLength(i, offset) |-> Content[i][offset + k - 1]]

\* The bytes of one request; a retry sends the same.
ClientRequest(op, seq, session, i, offset) ==
    CASE op = "BEGIN" ->
           [op |-> op, seq |-> seq, framed |-> TRUE, session |-> session,
            img |-> i, identity |-> "ours"]
      [] op = "PROGRAM" ->
           [op |-> op, seq |-> seq, framed |-> TRUE, session |-> session,
            offset |-> offset, data |-> Chunk(i, offset)]
      [] OTHER ->
           [op |-> op, seq |-> seq, framed |-> TRUE,
            session |-> IF op \in Queries THEN NoSession ELSE session]

\* The numbers an operation may carry: a chunk is at least one double word.
ClientNumbers(op, i, offset) ==
    CASE op = "INFO"     -> {1}
      [] op = "UID"      -> {2}
      [] op = "BEGIN"    -> {3}
      [] op = "ERASE"    -> {4}
      [] op = "PROGRAM"  -> 5 .. 5 + offset
      [] op = "VERIFY"   -> 6 .. 5 + Size[i]
      [] op = "ACTIVATE" -> 7 .. 6 + Size[i]

ASSUME ClientAssumption ==
    \A i \in Offered, s \in Sessions, op \in Asking :
        \A offset \in 0 .. Size[i] - 1 : \A q \in ClientNumbers(op, i, offset) :
            ClientRequest(op, q, s, i, offset) \in Requests

HostRequest == ClientRequest(host.step, host.seq, host.session, host.img, host.offset)

HostChunk == ChunkLength(host.img, host.offset)

\* What the client compares the payload of a good answer with.
Expected ==
    CASE host.step = "BEGIN"   -> 0
      [] host.step = "PROGRAM" -> host.offset + HostChunk
      [] host.step = "VERIFY"  -> host.img
      [] OTHER                 -> NoValue

After(step, offset) ==
    CASE step = "INFO"     -> "UID"
      [] step = "UID"      -> "BEGIN"
      [] step = "BEGIN"    -> "ERASE"
      [] step = "ERASE"    -> "PROGRAM"
      [] step = "PROGRAM"  -> IF offset < Size[host.img] THEN "PROGRAM" ELSE "VERIFY"
      [] step = "VERIFY"   -> "ACTIVATE"
      [] step = "ACTIVATE" -> "acknowledged"

\* The client reads an answer; one that is not to its current request is skipped.
Hear(a) ==
    LET offset == IF host.step = "PROGRAM" THEN host.offset + HostChunk
                  ELSE host.offset
    IN  IF host.step \notin Asking
           \/ <<a.op, a.seq, a.session>> #
                <<HostRequest.op, HostRequest.seq, HostRequest.session>>
        THEN host
        ELSE IF a.result # "OK" THEN [host EXCEPT !.step = "refused"]
        ELSE IF a.value # Expected THEN [host EXCEPT !.step = "mismatch"]
        ELSE [host EXCEPT !.step = After(host.step, offset), !.offset = offset,
                          !.seq = @ + 1, !.sends = 0]

-----------------------------------------------------------------------------
(* Send for the first time or, after a timeout, once more.                 *)
HostSend ==
    /\ host.step \in Asking
    /\ host.sends < Retries
    /\ host' = [host EXCEPT !.sends = @ + 1]
    /\ Arrive(HostRequest) \/ UNCHANGED allVars
    /\ UNCHANGED disturbed

\* Ten sends without an answer; only an unanswered ACTIVATE is tolerated.
HostGivesUp ==
    /\ host.step \in Asking
    /\ host.sends = Retries
    /\ host' = [host EXCEPT !.step = IF @ = "ACTIVATE" THEN "unacknowledged"
                                     ELSE "timeout"]
    /\ UNCHANGED <<allVars, disturbed>>

\* A reply leaves the part and reaches the client, or its adapter loses it.
HostHears ==
    /\ Transmit
    /\ host' \in {host, Hear(tx.reply)}
    /\ UNCHANGED disturbed

\* Another tool asks something; its answer matches nothing the client awaits.
Observe ==
    /\ host.foreign < MaxForeign
    /\ \E r \in Observer : Arrive(r)
    /\ host' = [host EXCEPT !.foreign = @ + 1]
    /\ UNCHANGED disturbed

Part ==
    /\ Running \/ Resets
    /\ disturbed' = \/ disturbed
                    \/ core'.lastError = "FLASH_ERROR"
                    \/ core.session # NoSession /\ core'.session = NoSession
                    \/ where = "app" /\ where' # "app"
    /\ UNCHANGED host

UpdateNext ==
    \/ HostSend
    \/ HostGivesUp
    \/ HostHears
    \/ Observe
    \/ Part

UpdateSpec == UpdateInit /\ [][UpdateNext]_updateVars

(* For the liveness properties the part is not reset: resets without end   *)
(* keep anything from happening.  The loop, the interrupt and the clock    *)
(* never stop; the bus and the client may.                                 *)
CalmNext ==
    \/ HostSend
    \/ HostGivesUp
    \/ HostHears
    \/ Observe
    \/ Part /\ Running

FairUpdate ==
    /\ UpdateInit /\ [][CalmNext]_updateVars
    /\ WF_updateVars(Part /\ Loop)
    /\ WF_updateVars(Part /\ RxInterrupt)
    /\ WF_updateVars(Part /\ Millisecond)

-----------------------------------------------------------------------------

\* The client's own variables stay in range.
UpdateTypeOK ==
    /\ MainTypeOK
    /\ host.step \in Asking \cup Ended
    /\ host.seq \in 1 .. MaxSeq + 1
    /\ host.sends \in 0 .. Retries
    /\ host.offset \in 0 .. Size[host.img]

(* An update reported as acknowledged is in the part: the record is        *)
(* committed and vouches for the client's image, whatever was lost,        *)
(* repeated, reset or timed out on the way, and for good.                  *)
AcknowledgedIsInstalled ==
    host.step = "acknowledged" =>
        rec = RecordEncode(host.img) /\ BootValid(app, rec)

(* The client never runs ahead of the part: in its own session every chunk *)
(* it holds an answer for is behind the part's offset and in flash.        *)
ClientNeverAhead ==
    core.session = host.session /\ host.step # "BEGIN" =>
        /\ host.offset <= core.offset
        /\ core.state \in {"RECEIVING", "VERIFIED"} =>
             \A d \in 0 .. host.offset - 1 : app[d] = Content[host.img][d]

(* Retries are transparent: without a reset, a session timeout or a flash  *)
(* error the client is never refused and never handed a wrong answer,      *)
(* however its frames and the answers were lost, repeated or delayed.      *)
RetriesAreTransparent ==
    host.step \in {"refused", "mismatch"} => disturbed
=============================================================================
