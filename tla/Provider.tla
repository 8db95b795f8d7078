------------------------------ MODULE Provider ------------------------------
(***************************************************************************)
(* The provider (provider.rs): the accept loop `run', one task per         *)
(* connection (`handle_connection'), one task per stream                   *)
(* (`handle_stream', `transfer_collection', `send_blob') and the events    *)
(* they broadcast.  Every task is sequential; tasks interleave at the      *)
(* await points, which are the boundaries of the actions below.            *)
(*                                                                         *)
(* The database is immutable once the provider runs.  The files behind it  *)
(* are not: `file' says what became of each since it was added.            *)
(***************************************************************************)
EXTENDS Quic, SequencesExt

CONSTANTS
    Pool,       \* threads of tokio's blocking pool
    FileEvents  \* bound: what may happen to a file while it is served

ASSUME ProviderAssumption ==
    /\ Pool \in Nat \ {0}
    /\ FileEvents \subseteq {"modified", "truncated", "missing"}

VARIABLES
    run,        \* where the accept loop is
    cancelled,  \* the cancel_token
    conn,       \* conn[c]: where handle_connection is
    hs,         \* hs[s]: where handle_stream is
    bi,         \* bi[s]: blobs of the collection already sent
    ci,         \* ci[s]: items of the current encoding already sent
    log,        \* log[s]: the events about a stream, in order
    file        \* file[h]: what happened to the file of a blob

tasks == <<run, cancelled, conn>>
streams == <<hs, bi, ci, log>>
providerVars == <<run, cancelled, conn, hs, bi, ci, log, file>>
pvars == <<quicVars, providerVars>>

Name(s) == up[s][2].name
BlobsOf(s) == Blobs[Name(s)]

ClientConnected   == "ClientConnected"
RequestReceived   == "RequestReceived"
TransferCompleted == "TransferCompleted"
TransferAborted   == "TransferAborted"       \* request_id: Some(id)
EarlyAborted      == "TransferAborted(None)" \* request_id: None
Events == {ClientConnected, RequestReceived, TransferCompleted,
           TransferAborted, EarlyAborted}

Reading  == {"handshake", "request", "extra"}
Awaiting == {"nfFinish", "bnfFinish", "finish"}
Writing  == {"nfWrite", "found", "coll", "blob", "copy", "bnf"}
HandlerStates == {"none", "open", "done", "panicked"}
                 \cup Reading \cup Writing \cup Awaiting

ProviderTypeOK ==
    /\ run \in {"select", "accept", "parked", "deaf", "done"}
    /\ cancelled \in BOOLEAN
    /\ conn \in [Conns -> {"none", "connecting", "serving", "ended"}]
    /\ hs \in [Streams -> HandlerStates]
    /\ bi \in [Streams -> Nat]
    /\ ci \in [Streams -> Nat]
    /\ log \in [Streams -> Seq(Events)]
    /\ file \in [Hash -> {"intact", "modified", "truncated", "missing"}]

ProviderInit ==
    /\ run = "select"
    /\ cancelled = FALSE
    /\ conn = [c \in Conns |-> "none"]
    /\ hs = [s \in Streams |-> "none"]
    /\ bi = [s \in Streams |-> 0]
    /\ ci = [s \in Streams |-> 0]
    /\ log = [s \in Streams |-> <<>>]
    /\ file = [h \in Hash |-> "intact"]

(***************************************************************************)
(* Provider::shutdown and the accept loop.  The select is biased: the      *)
(* cancel token is polled first, then accept, then the task parks until    *)
(* one of them wakes it.                                                   *)
(***************************************************************************)
Shutdown ==
    /\ ~cancelled
    /\ cancelled' = TRUE
    /\ UNCHANGED <<quicVars, run, conn, streams, file>>

PollCancelled ==
    /\ run = "select" /\ ~cancelled
    /\ run' = "accept"
    /\ UNCHANGED <<quicVars, cancelled, conn, streams, file>>

\* Mutant of RunEnds: the loop ends without closing the endpoint.
RunEndsUnclosed ==
    /\ run \in {"select", "deaf"} /\ cancelled
    /\ run' = "done"
    /\ listening' = FALSE
    /\ UNCHANGED <<pside, cside, wire, cancelled, conn, streams, file>>

\* server.close: every connection of the endpoint is closed at once.
RunEnds ==
    /\ run \in {"select", "deaf"} /\ cancelled
    /\ run' = "done"
    /\ listening' = FALSE
    /\ pside' = [c \in Conns |-> IF pside[c] = "open" THEN "down" ELSE pside[c]]
    /\ UNCHANGED <<cside, wire, cancelled, conn, streams, file>>

Incoming == {c \in Conns : pside[c] \in {"open", "down"} /\ conn[c] = "none"}

RunAccept(c) ==
    /\ run = "accept" /\ c \in Incoming
    /\ run' = "select"
    /\ conn' = [conn EXCEPT ![c] = "connecting"]
    /\ UNCHANGED <<quicVars, cancelled, streams, file>>

RunPark ==
    /\ run = "accept" /\ Incoming = {}
    /\ run' = "parked"
    /\ UNCHANGED <<quicVars, cancelled, conn, streams, file>>

\* Mutant of RunWake: the parked loop is not woken by the cancel token.
RunWakeDeaf ==
    /\ run = "parked" /\ Incoming # {}
    /\ run' = "select"
    /\ UNCHANGED <<quicVars, cancelled, conn, streams, file>>

RunWake ==
    /\ run = "parked" /\ (cancelled \/ Incoming # {})
    /\ run' = "select"
    /\ UNCHANGED <<quicVars, cancelled, conn, streams, file>>

\* The endpoint's driver is lost: accept() yields None, which disables its
\* branch, and the loop is left waiting for the cancel token alone.
EndpointLost ==
    /\ Lossy /\ listening
    /\ run \in {"accept", "parked"}
    /\ run' = "deaf"
    /\ listening' = FALSE
    /\ pside' = [c \in Conns |-> IF pside[c] = "open" THEN "down" ELSE pside[c]]
    /\ UNCHANGED <<cside, wire, cancelled, conn, streams, file>>

(***************************************************************************)
(* handle_connection                                                       *)
(***************************************************************************)
Connected(c) ==
    /\ conn[c] = "connecting" /\ pside[c] = "open" /\ cside[c] = "open"
    /\ conn' = [conn EXCEPT ![c] = "serving"]
    /\ UNCHANGED <<quicVars, run, cancelled, streams, file>>

\* connecting.await fails, or accept_bi does.
ConnectionEnds(c) ==
    /\ conn[c] \in {"connecting", "serving"} /\ pside[c] = "down"
    /\ conn' = [conn EXCEPT ![c] = "ended"]
    /\ UNCHANGED <<quicVars, run, cancelled, streams, file>>

\* A stream is known to the provider once its first frame arrives.
AcceptBi(s) ==
    /\ conn[ConnOf[s]] = "serving" /\ hs[s] = "none" /\ up[s] # <<>>
    /\ hs' = [hs EXCEPT ![s] = "handshake"]
    /\ log' = [log EXCEPT ![s] = Append(@, ClientConnected)]
    /\ UNCHANGED <<quicVars, tasks, bi, ci, file>>

(***************************************************************************)
(* handle_stream: the ways a handler ends.                                 *)
(***************************************************************************)
Goto(s, pc) == hs' = [hs EXCEPT ![s] = pc]
Emit(s, e)  == log' = [log EXCEPT ![s] = Append(@, e)]

\* Dropping a reader that has not read to the end stops the stream.
DropReader(s) ==
    stopped' = [stopped EXCEPT ![s] =
                  IF Ended(up[s]) /\ upRd'[s] = Len(up[s]) THEN @ ELSE @ \cup {"up"}]

\* The reading part fails: event without request id, both halves dropped.
ReadingFails(s) ==
    /\ Goto(s, "done") /\ Emit(s, EarlyAborted)
    /\ DropWriter(s) /\ DropReader(s)
    /\ UNCHANGED <<conns, up, downRd, acked, tasks, bi, ci, file>>

\* A message cut short by the end of the stream: the slice of the buffer is
\* out of bounds and the task unwinds, without an event.
Panics(s) ==
    /\ Goto(s, "panicked")
    /\ DropWriter(s)
    /\ UNCHANGED <<conns, up, downRd, acked, stopped, tasks, bi, ci, log, file>>

\* Mutant of TransferFails: the writer is kept, the stream stays open.
TransferFailsLeaking(s) ==
    /\ Goto(s, "done") /\ Emit(s, TransferAborted)
    /\ UNCHANGED <<quicVars, tasks, bi, ci, file>>

\* Sending fails after the request was received.
TransferFails(s) ==
    /\ Goto(s, "done") /\ Emit(s, TransferAborted)
    /\ DropWriter(s)
    /\ UNCHANGED <<conns, up, upRd, downRd, acked, stopped, tasks, bi, ci, file>>

(***************************************************************************)
(* Reading the handshake and the request.                                  *)
(***************************************************************************)
ReadFrame(s) == CanReadUp(s) /\ upRd' = [upRd EXCEPT ![s] = @ + 1]
OnlyRead(s) == UNCHANGED <<conns, up, down, downRd, acked, stopped, tasks, bi, ci, file>>

ReadHandshake(s) ==
    /\ hs[s] = "handshake" /\ ReadFrame(s)
    /\ \/ /\ ValidHandshake(NextFrame(s))
          /\ Goto(s, "request") /\ OnlyRead(s) /\ UNCHANGED log
       \/ NextFrame(s) = Short /\ Panics(s)
       \/ ~ValidHandshake(NextFrame(s)) /\ NextFrame(s) # Short /\ ReadingFails(s)

ReadRequest(s) ==
    /\ hs[s] = "request" /\ ReadFrame(s)
    /\ \/ /\ NextFrame(s).t = "request"
          /\ Goto(s, "extra") /\ OnlyRead(s) /\ UNCHANGED log
       \/ NextFrame(s) = Short /\ Panics(s)
       \/ NextFrame(s).t # "request" /\ NextFrame(s) # Short /\ ReadingFails(s)

\* Nothing may follow the request.  The request is then announced and
\* looked up; what is not a collection is reported aborted before the
\* answer is written.
ReadExtra(s) ==
    /\ hs[s] = "extra" /\ ReadFrame(s)
    /\ \/ /\ NextFrame(s) = Fin /\ Stored[Name(s)] = "collection"
          /\ Goto(s, "found") /\ Emit(s, RequestReceived) /\ OnlyRead(s)
       \/ /\ NextFrame(s) = Fin /\ Stored[Name(s)] # "collection"
          /\ Goto(s, "nfWrite") /\ OnlyRead(s)
          /\ log' = [log EXCEPT ![s] = @ \o <<RequestReceived, TransferAborted>>]
       \/ NextFrame(s) # Fin /\ ReadingFails(s)

ReadError(s) ==
    /\ hs[s] \in Reading /\ ReadUpFails(s)
    /\ UNCHANGED upRd /\ ReadingFails(s)

(***************************************************************************)
(* Answering.  A write waits for flow control credit.                      *)
(***************************************************************************)
OnlySend(s) == UNCHANGED <<conns, up, upRd, downRd, acked, stopped, tasks, file>>

WriteNotFound(s) ==
    /\ hs[s] = "nfWrite" /\ CanSendDown(s)
    /\ SendDown(s, <<NotFound, Fin>>) /\ Goto(s, "nfFinish")
    /\ OnlySend(s) /\ UNCHANGED <<bi, ci, log>>

\* Mutant of NotFoundFails: the abort is reported a second time.
NotFoundFailsTwice(s) ==
    /\ \/ hs[s] = "nfWrite" /\ SendDownFails(s)
       \/ hs[s] = "nfFinish" /\ SendDownFails(s) /\ "down" \notin acked[s]
    /\ TransferFails(s)

\* The write or the finish of the NotFound answer fails: no further event.
NotFoundFails(s) ==
    /\ \/ hs[s] = "nfWrite" /\ SendDownFails(s)
       \/ hs[s] = "nfFinish" /\ SendDownFails(s) /\ "down" \notin acked[s]
    /\ Goto(s, "done") /\ DropWriter(s)
    /\ UNCHANGED <<conns, up, upRd, downRd, acked, stopped, tasks, bi, ci, log, file>>

WriteFoundCollection(s) ==
    /\ hs[s] = "found" /\ CanSendDown(s)
    /\ SendDown(s, <<FoundCollection(TotalBlobsSize[Name(s)])>>) /\ Goto(s, "coll")
    /\ OnlySend(s) /\ UNCHANGED <<bi, ci, log>>

\* One `write_buf' call writes what the flow control window has room for
\* and the handler goes on, whether or not that was all of the encoding.
WriteCollection(s) ==
    /\ hs[s] = "coll" /\ CanSendDown(s)
    /\ LET enc == Enc(Name(s))
           k   == IF Len(enc) <= Credit(s) THEN Len(enc) ELSE Credit(s)
       IN  SendDown(s, SubSeq(enc, 1, k))
    /\ Goto(s, "blob")
    /\ OnlySend(s) /\ UNCHANGED <<bi, ci, log>>

HasBlob(s) == bi[s] < Len(BlobsOf(s))
Blob(s) == BlobsOf(s)[bi[s] + 1]

\* The database is asked for the next blob only when its turn comes.
WriteFound(s) ==
    /\ hs[s] = "blob" /\ HasBlob(s) /\ Stored[Blob(s)] = "blob"
    /\ CanSendDown(s)
    /\ SendDown(s, <<Found>>) /\ Goto(s, "open")
    /\ OnlySend(s) /\ UNCHANGED <<bi, ci, log>>

WriteBlobNotFound(s) ==
    /\ hs[s] = "blob" /\ HasBlob(s) /\ Stored[Blob(s)] # "blob"
    /\ CanSendDown(s)
    /\ SendDown(s, <<NotFound>>) /\ Goto(s, "bnf")
    /\ OnlySend(s) /\ UNCHANGED <<bi, ci, log>>

\* transfer_collection repeats the answer of send_blob, then finishes.
RepeatNotFound(s) ==
    /\ hs[s] = "bnf" /\ CanSendDown(s)
    /\ SendDown(s, <<NotFound, Fin>>) /\ Goto(s, "bnfFinish")
    /\ OnlySend(s) /\ UNCHANGED <<bi, ci, log>>

(***************************************************************************)
(* The copy runs on a thread of the blocking pool and holds it until the   *)
(* whole blob is written.                                                  *)
(***************************************************************************)
Busy == {s \in Streams : hs[s] = "copy"}

\* Mutant of OpenFile: the position is not reset for the next blob.
OpenFileStale(s) ==
    /\ hs[s] = "open" /\ Cardinality(Busy) < Pool
    /\ file[Blob(s)] # "missing"
    /\ Goto(s, "copy")
    /\ UNCHANGED <<quicVars, tasks, bi, ci, log, file>>

OpenFile(s) ==
    /\ hs[s] = "open" /\ Cardinality(Busy) < Pool
    /\ file[Blob(s)] # "missing"
    /\ Goto(s, "copy") /\ ci' = [ci EXCEPT ![s] = 0]
    /\ UNCHANGED <<quicVars, tasks, bi, log, file>>

OpenFileFails(s) ==
    /\ hs[s] = "open" /\ Cardinality(Busy) < Pool
    /\ file[Blob(s)] = "missing"
    /\ TransferFails(s)

\* The extractor has no hash to check: it sends what it finds in the file.
\* The header comes from the outboard.  A file deleted while open is read on.
ItemRead(s) ==
    IF ci[s] > 0 /\ file[Blob(s)] = "modified" THEN Corrupt ELSE Enc(Blob(s))[ci[s] + 1]

\* Mutant of CopyItem: the last segment is left out.
CopyItemShort(s) ==
    /\ hs[s] = "copy" /\ CanSendDown(s)
    /\ ci[s] > 0 => file[Blob(s)] # "truncated"
    /\ SendDown(s, <<ItemRead(s)>>)
    /\ IF ci[s] + 1 < Segments[Blob(s)]
       THEN ci' = [ci EXCEPT ![s] = @ + 1] /\ UNCHANGED <<hs, bi>>
       ELSE Goto(s, "blob") /\ bi' = [bi EXCEPT ![s] = @ + 1] /\ UNCHANGED ci
    /\ OnlySend(s) /\ UNCHANGED log

CopyItem(s) ==
    /\ hs[s] = "copy" /\ CanSendDown(s)
    /\ ci[s] > 0 => file[Blob(s)] # "truncated"
    /\ SendDown(s, <<ItemRead(s)>>)
    /\ IF ci[s] < Segments[Blob(s)]
       THEN ci' = [ci EXCEPT ![s] = @ + 1] /\ UNCHANGED <<hs, bi>>
       ELSE Goto(s, "blob") /\ bi' = [bi EXCEPT ![s] = @ + 1] /\ UNCHANGED ci
    /\ OnlySend(s) /\ UNCHANGED log

CopyFails(s) ==
    /\ hs[s] = "copy" /\ ci[s] > 0 /\ file[Blob(s)] = "truncated"
    /\ TransferFails(s)

(***************************************************************************)
(* The end of the transfer: finish() waits until the client's transport    *)
(* has acknowledged everything.                                            *)
(***************************************************************************)
Finish(s) ==
    /\ hs[s] = "blob" /\ ~HasBlob(s)
    /\ DropWriter(s) /\ Goto(s, "finish")
    /\ OnlySend(s) /\ UNCHANGED <<bi, ci, log>>

\* Mutants of FinishDone: finish() is not awaited; the outcomes are swapped.
FinishDoneEarly(s) ==
    /\ hs[s] \in Awaiting
    /\ Goto(s, "done")
    /\ CASE hs[s] = "finish"    -> Emit(s, TransferCompleted)
         [] hs[s] = "bnfFinish" -> Emit(s, TransferAborted)
         [] hs[s] = "nfFinish"  -> UNCHANGED log
    /\ UNCHANGED <<quicVars, tasks, bi, ci, file>>

FinishDoneSwapped(s) ==
    /\ hs[s] \in Awaiting /\ "down" \in acked[s]
    /\ Goto(s, "done")
    /\ CASE hs[s] = "finish"    -> Emit(s, TransferAborted)
         [] hs[s] = "bnfFinish" -> Emit(s, TransferCompleted)
         [] hs[s] = "nfFinish"  -> UNCHANGED log
    /\ UNCHANGED <<quicVars, tasks, bi, ci, file>>

FinishDone(s) ==
    /\ hs[s] \in Awaiting /\ "down" \in acked[s]
    /\ Goto(s, "done")
    /\ CASE hs[s] = "finish"    -> Emit(s, TransferCompleted)
         [] hs[s] = "bnfFinish" -> Emit(s, TransferAborted)
         [] hs[s] = "nfFinish"  -> UNCHANGED log
    /\ UNCHANGED <<quicVars, tasks, bi, ci, file>>

\* Mutant of WriteFails: the blocking copy does not see the error.
WriteFailsNotInCopy(s) ==
    /\ \/ hs[s] \in Writing \ {"nfWrite", "copy"} /\ SendDownFails(s)
       \/ hs[s] \in {"bnfFinish", "finish"} /\ SendDownFails(s)
          /\ "down" \notin acked[s]
    /\ hs[s] = "blob" => HasBlob(s)
    /\ TransferFails(s)

WriteFails(s) ==
    /\ \/ hs[s] \in Writing \ {"nfWrite"} /\ SendDownFails(s)
       \/ hs[s] \in {"bnfFinish", "finish"} /\ SendDownFails(s)
          /\ "down" \notin acked[s]
    /\ hs[s] = "blob" => HasBlob(s)
    /\ TransferFails(s)

(***************************************************************************)
(* The file system changes under the provider.                             *)
(***************************************************************************)
ChangeFile(h) ==
    /\ file[h] = "intact" /\ Stored[h] = "blob"
    /\ \E e \in FileEvents : file' = [file EXCEPT ![h] = e]
    /\ UNCHANGED <<quicVars, tasks, streams>>

HandlerStep(s) ==
    \/ ReadHandshake(s) \/ ReadRequest(s) \/ ReadExtra(s) \/ ReadError(s)
    \/ WriteNotFound(s) \/ NotFoundFails(s)
    \/ WriteFoundCollection(s) \/ WriteCollection(s)
    \/ WriteFound(s) \/ WriteBlobNotFound(s) \/ RepeatNotFound(s)
    \/ OpenFile(s) \/ OpenFileFails(s) \/ CopyItem(s) \/ CopyFails(s)
    \/ Finish(s) \/ FinishDone(s) \/ WriteFails(s)

ConnectionStep(c) == Connected(c) \/ ConnectionEnds(c)

RunStep ==
    \/ PollCancelled \/ RunEnds \/ RunPark \/ RunWake
    \/ \E c \in Conns : RunAccept(c)

ProviderNext ==
    \/ Shutdown \/ RunStep \/ EndpointLost
    \/ \E c \in Conns : ConnectionStep(c)
    \/ \E s \in Streams : AcceptBi(s) \/ HandlerStep(s)
    \/ \E h \in Hash : ChangeFile(h)

(***************************************************************************)
(* The runtime polls every task that can make progress.  Nothing forces a  *)
(* shutdown, the loss of the endpoint or a change of a file.               *)
(***************************************************************************)
ProviderFairness ==
    /\ WF_pvars(RunStep)
    /\ \A c \in Conns : WF_pvars(ConnectionStep(c))
    /\ \A s \in Streams : WF_pvars(AcceptBi(s)) /\ WF_pvars(HandlerStep(s))

(***************************************************************************)
(* Safety.                                                                 *)
(***************************************************************************)
\* The indices a handler works with stay within the collection and within
\* the encoding of the current blob, and the pool is not overcommitted.
InRange ==
    /\ QuicTypeOK /\ ProviderTypeOK
    /\ Cardinality(Busy) <= Pool
    /\ \A s \in Streams :
        /\ hs[s] \in {"open", "copy"} => HasBlob(s)
        /\ hs[s] = "copy" => ci[s] <= Segments[Blob(s)]

CC == <<ClientConnected>>
RR == <<ClientConnected, RequestReceived>>

\* Events about a stream that handle_stream may have emitted while it runs
\* (pc not done) and when it has returned.
LegalLog(pc) ==
    CASE pc = "none" -> {<<>>}
      [] pc \in Reading \cup {"panicked"} -> {CC}
      [] pc \in {"nfWrite", "nfFinish"} -> {Append(RR, TransferAborted)}
      [] pc = "done" -> {Append(CC, EarlyAborted), Append(RR, TransferAborted),
                         Append(RR, TransferCompleted)}
      [] OTHER -> {RR}

\* Every stream's events follow the protocol of the Event enum: a handler
\* that returns has reported exactly one outcome, a request is reported
\* completed or aborted once and only after it was received, and an abort
\* without a request id is never followed by a request.
EventProtocol == \A s \in Streams : log[s] \in LegalLog(hs[s])

Reported(s, e) == e \in Range(log[s])

\* What is sent for the first n blobs of bs, for each n.
BlobStreams(bs) ==
    LET sent[n \in 0..Len(bs)] ==
          IF n = 0 THEN <<>> ELSE sent[n - 1] \o (<<Found>> \o Enc(bs[n]))
    IN  sent

\* The whole answer to a request for collection h whose blobs are stored.
BlobStream(bs) == BlobStreams(bs)[Len(bs)]

Answer(h) ==
    <<FoundCollection(TotalBlobsSize[h])>> \o Enc(h) \o BlobStream(Blobs[h]) \o <<Fin>>

Servable(h) ==
    /\ Stored[h] = "collection"
    /\ \A i \in DOMAIN Blobs[h] : Stored[Blobs[h][i]] = "blob"

FilesIntact == \A h \in Hash : file[h] = "intact"

\* Nothing but the end of the stream is ever sent before the client has
\* presented the right version and token and exactly one request, and the
\* only content sent is the requested collection and its blobs.
AuthBeforeData ==
    \A s \in Streams : \A k \in DOMAIN down[s] : down[s][k] # Fin =>
        /\ Len(up[s]) >= 3
        /\ up[s][1] = Handshake(VERSION, AuthToken)
        /\ up[s][2].t = "request" /\ up[s][3] = Fin
        /\ down[s][k].t = "data" =>
             \/ down[s][k].h = Name(s)
             \/ down[s][k].h \in Range(BlobsOf(s))

\* While the files are as they were added, the answer to a request that can
\* be served is sent in order, without gap or repetition.
AnswerInOrder ==
    \A s \in Streams :
        FilesIntact /\ Reported(s, RequestReceived) /\ Servable(Name(s))
          => IsPrefix(down[s], Answer(Name(s)))

\* TransferCompleted: "A request was completed and the data was sent to the
\* client" - all of the answer, and the client's end has acknowledged it.
CompletedSendsAll ==
    \A s \in Streams :
        FilesIntact /\ Reported(s, TransferCompleted)
          => /\ down[s] = Answer(Name(s))
             /\ "down" \in acked[s]

\* TransferAborted: "A request was aborted because the client disconnected".
\* A request that can be served is aborted only if the connection ended or
\* the client stopped reading.
AbortHasCause ==
    \A s \in Streams :
        FilesIntact /\ Reported(s, TransferAborted) /\ Servable(Name(s))
          => pside[ConnOf[s]] = "down" \/ "down" \in stopped[s]

\* read_handshake: "Will fail if there is an error while reading, [...] or no
\* valid handshake was received", and a failed handshake is reported: no
\* handler ends without an outcome.
HandlersReport ==
    \A s \in Streams : hs[s] \in {"done", "panicked"} =>
        \E e \in {TransferCompleted, TransferAborted, EarlyAborted} : Reported(s, e)

\* Once run has closed the endpoint nothing more is sent on any stream, not
\* even by a connection that was being set up when the provider shut down.
NothingSentAfterClose == [][run = "done" => UNCHANGED down]_pvars

(***************************************************************************)
(* Liveness.                                                               *)
(***************************************************************************)
Settled == \A s \in Streams : hs[s] \in {"none", "done", "panicked"}

\* A shutdown ends the accept loop, and with it the Provider future, even if
\* the endpoint was lost before.
ShutdownEnds == cancelled ~> run = "done"

\* After the endpoint is closed every handler returns, including those
\* waiting for a blocking thread or for flow control.
HandlersSettle == (run = "done") ~> []Settled
=============================================================================
