--------------------------- MODULE ProviderProofs ---------------------------
(***************************************************************************)
(* What every step of the provider keeps, for every database, every number *)
(* of connections, streams and pool threads and every size of the flow     *)
(* control window: the events it reports, the types and the bounds of its  *)
(* indices and of the pool, to whom and when it sends what, and why it     *)
(* aborts a request.                                                       *)
(*                                                                         *)
(* Whoever is at the other end appears as one action, Outside, that says   *)
(* what the provider relies on.  OpenProofs shows that arbitrary   *)
(* clients keep to it, TransferProofs that the getters do.                 *)
(***************************************************************************)
EXTENDS Provider, SequenceTheorems, FiniteSetTheorems, TLAPS

ServerTypeOK == QuicTypeOK /\ ProviderTypeOK

(***************************************************************************)
(* The steps of the environment.                                           *)
(***************************************************************************)
\* What the client has sent on s stays, more may follow.
Grown(s) ==
    /\ Len(up'[s]) >= Len(up[s])
    /\ \A k \in 1..Len(up[s]) : up'[s][k] = up[s][k]

\* A client that has sent something has had its end up.
ClientAt(s) == up[s] # <<>> => cside[ConnOf[s]] \in {"open", "down"}

\* A connection exists at the provider only once its client connects.
Unconnected == \A c \in Conns : cside[c] = "none" => pside[c] = "none"

\* What the clients and the transport may do between two steps of the
\* provider: what was sent, stopped or acknowledged stays so, only an ended
\* stream is acknowledged, a connection is not reopened and none is opened
\* by a closed endpoint.
Outside ==
    /\ UNCHANGED <<providerVars, listening, upRd, down>>
    /\ QuicTypeOK'
    /\ \A s \in Streams :
         /\ Grown(s)
         /\ stopped[s] \subseteq stopped'[s] /\ acked[s] \subseteq acked'[s]
         /\ "down" \in acked'[s] => "down" \in acked[s] \/ Ended(down[s])
         /\ ClientAt(s) =>
              /\ ClientAt(s)'
              /\ cside'[ConnOf[s]] = "open" => cside[ConnOf[s]] = "open" \/ up[s] = <<>>
    /\ Unconnected => Unconnected'
    /\ \A c \in Conns :
         /\ pside[c] = "down" /\ Unconnected => pside'[c] = "down"
         /\ pside'[c] = "open" => pside[c] = "open" \/ listening

ServerStep == ProviderNext \/ Outside

(***************************************************************************)
(* The events.                                                             *)
(***************************************************************************)

\* The program counters and the logs have their types, and every log is one
\* that LegalLog allows: with the types EventProtocol is inductive.
EventInv ==
    /\ hs \in [Streams -> HandlerStates]
    /\ log \in [Streams -> Seq(Events)]
    /\ EventProtocol

\* What the handler appends to a log leads from one legal log to another.
LEMMA LogFacts ==
    /\ Append(<<>>, ClientConnected) = CC
    /\ Append(CC, RequestReceived) = RR
    /\ CC \o <<RequestReceived, TransferAborted>> = Append(RR, TransferAborted)
<1>1. Append(<<>>, ClientConnected) = CC
  BY DEF CC
<1>2. Append(CC, RequestReceived) = RR
  <2> DEFINE p == Append(CC, RequestReceived)
  <2>1. CC \in Seq(Events) /\ RR \in Seq(Events) /\ RequestReceived \in Events
    BY DEF CC, RR, Events
  <2>2. p \in Seq(Events) /\ Len(p) = 2
    BY <2>1 DEF CC
  <2>3. p[1] = RR[1] /\ p[2] = RR[2] /\ Len(RR) = 2
    BY <2>1 DEF CC, RR
  <2>4. \A i \in 1..Len(p) : p[i] = RR[i]
    BY <2>2, <2>3
  <2> HIDE DEF p
  <2>5. p = RR
    BY <2>1, <2>2, <2>3, <2>4, SeqEqual
  <2>6. QED  BY <2>5 DEF p
<1>3. CC \o <<RequestReceived, TransferAborted>> = Append(RR, TransferAborted)
  BY DEF CC, RR
<1>4. QED  BY <1>1, <1>2, <1>3

\* A legal log is a sequence of events.
LEMMA LegalLogType ==
    ASSUME NEW pc PROVE LegalLog(pc) \subseteq Seq(Events)
<1>1. <<>> \in Seq(Events) /\ CC \in Seq(Events) /\ RR \in Seq(Events)
  BY DEF CC, RR, Events
<1>2. /\ Append(CC, EarlyAborted) \in Seq(Events)
      /\ Append(RR, TransferAborted) \in Seq(Events)
      /\ Append(RR, TransferCompleted) \in Seq(Events)
  BY <1>1 DEF Events
<1>3. QED  BY <1>1, <1>2 DEF LegalLog

\* A step that moves one handler to pc with a log that is legal there keeps
\* the invariant.
LEMMA Moves ==
    ASSUME EventInv, NEW s \in Streams, NEW pc \in HandlerStates,
           NEW l \in LegalLog(pc),
           hs' = [hs EXCEPT ![s] = pc], log' = [log EXCEPT ![s] = l]
    PROVE  EventInv'
<1>1. hs' \in [Streams -> HandlerStates] /\ log' \in [Streams -> Seq(Events)]
  BY LegalLogType DEF EventInv
<1>2. ASSUME NEW t \in Streams PROVE log'[t] \in LegalLog(hs'[t])
  <2>1. CASE t = s  BY <2>1 DEF EventInv
  <2>2. CASE t # s  BY <2>2 DEF EventInv, EventProtocol
  <2>3. QED  BY <2>1, <2>2
<1>3. QED  BY <1>1, <1>2 DEF EventInv, EventProtocol

\* So does a step without an event to a pc with the same legal logs.
LEMMA MovesSilently ==
    ASSUME EventInv, NEW s \in Streams, NEW pc \in HandlerStates,
           LegalLog(pc) = LegalLog(hs[s]), Goto(s, pc), UNCHANGED log
    PROVE  EventInv'
<1>1. log[s] \in LegalLog(pc) /\ log' = [log EXCEPT ![s] = log[s]]
  BY DEF EventInv, EventProtocol
<1>2. QED  BY <1>1, Moves DEF Goto

\* The states with the same legal logs.
LEMMA LegalStates ==
    /\ LegalLog("none") = {<<>>}
    /\ \A pc \in Reading \cup {"panicked"} : LegalLog(pc) = {CC}
    /\ \A pc \in {"nfWrite", "nfFinish"} : LegalLog(pc) = {Append(RR, TransferAborted)}
    /\ \A pc \in {"open", "found", "coll", "blob", "copy", "bnf", "bnfFinish", "finish"} :
          LegalLog(pc) = {RR}
    /\ LegalLog("done") = {Append(CC, EarlyAborted), Append(RR, TransferAborted),
                           Append(RR, TransferCompleted)}
BY DEF LegalLog, Reading

\* The three ways a handler gives up.
LEMMA GivesUp ==
    ASSUME EventInv, NEW s \in Streams
    PROVE  /\ hs[s] \in Reading /\ ReadingFails(s) => EventInv'
           /\ hs[s] \in Reading /\ Panics(s) => EventInv'
           /\ LegalLog(hs[s]) = {RR} /\ TransferFails(s) => EventInv'
<1>1. ASSUME hs[s] \in Reading, ReadingFails(s) PROVE EventInv'
  <2>1. log[s] = CC
    BY <1>1, LegalStates DEF EventInv, EventProtocol
  <2>2. Append(log[s], EarlyAborted) \in LegalLog("done")
    BY <2>1, LegalStates
  <2>3. QED
    BY <1>1, <2>2, Moves DEF ReadingFails, Goto, Emit, HandlerStates
<1>2. ASSUME hs[s] \in Reading, Panics(s) PROVE EventInv'
  BY <1>2, LegalStates, MovesSilently DEF Panics, HandlerStates
<1>3. ASSUME LegalLog(hs[s]) = {RR}, TransferFails(s) PROVE EventInv'
  <2>1. log[s] = RR
    BY <1>3 DEF EventInv, EventProtocol
  <2>2. Append(log[s], TransferAborted) \in LegalLog("done")
    BY <2>1, LegalStates
  <2>3. QED
    BY <1>3, <2>2, Moves DEF TransferFails, Goto, Emit, HandlerStates
<1>4. QED  BY <1>1, <1>2, <1>3

\* Every step of a handler keeps the invariant, one case per action.
LEMMA HandlerKeepsEvents ==
    ASSUME EventInv, NEW s \in Streams, HandlerStep(s)
    PROVE  EventInv'
<1>1. CASE ReadHandshake(s)
  <2>1. hs[s] \in Reading /\ LegalLog(hs[s]) = LegalLog("request")
    BY <1>1, LegalStates DEF ReadHandshake, Reading
  <2>2. QED
    BY <1>1, <2>1, GivesUp, MovesSilently DEF ReadHandshake, HandlerStates, Reading
<1>2. CASE ReadRequest(s)
  <2>1. hs[s] \in Reading /\ LegalLog(hs[s]) = LegalLog("extra")
    BY <1>2, LegalStates DEF ReadRequest, Reading
  <2>2. QED
    BY <1>2, <2>1, GivesUp, MovesSilently DEF ReadRequest, HandlerStates, Reading
<1>3. CASE ReadExtra(s)
  <2>1. hs[s] \in Reading /\ log[s] = CC
    BY <1>3, LegalStates DEF ReadExtra, Reading, EventInv, EventProtocol
  <2>2. /\ Append(log[s], RequestReceived) \in LegalLog("found")
        /\ log[s] \o <<RequestReceived, TransferAborted>> \in LegalLog("nfWrite")
    BY <2>1, LogFacts, LegalStates
  <2>3. CASE ReadingFails(s)  BY <2>1, <2>3, GivesUp
  <2>4. CASE Goto(s, "found") /\ Emit(s, RequestReceived)
    BY <2>2, <2>4, Moves DEF Goto, Emit, HandlerStates, Writing
  <2>5. CASE /\ Goto(s, "nfWrite")
             /\ log' = [log EXCEPT ![s] = @ \o <<RequestReceived, TransferAborted>>]
    BY <2>2, <2>5, Moves DEF Goto, HandlerStates, Writing
  <2>6. QED  BY <1>3, <2>3, <2>4, <2>5 DEF ReadExtra
<1>4. CASE ReadError(s)
  BY <1>4, GivesUp DEF ReadError
<1>5. CASE WriteNotFound(s)
  BY <1>5, LegalStates, MovesSilently DEF WriteNotFound, HandlerStates, Awaiting
<1>6. CASE NotFoundFails(s)
  <2>1. log[s] = Append(RR, TransferAborted)
    BY <1>6, LegalStates DEF NotFoundFails, EventInv, EventProtocol
  <2>2. log[s] \in LegalLog("done") /\ log' = [log EXCEPT ![s] = log[s]]
    BY <1>6, <2>1, LegalStates DEF NotFoundFails, EventInv
  <2>3. QED  BY <1>6, <2>2, Moves DEF NotFoundFails, Goto, HandlerStates
<1>7. CASE WriteFoundCollection(s) \/ WriteCollection(s)
  BY <1>7, LegalStates, MovesSilently
     DEF WriteFoundCollection, WriteCollection, HandlerStates, Writing
<1>8. CASE WriteFound(s) \/ WriteBlobNotFound(s) \/ RepeatNotFound(s)
  BY <1>8, LegalStates, MovesSilently
     DEF WriteFound, WriteBlobNotFound, RepeatNotFound, HandlerStates, Writing, Awaiting
<1>9. CASE OpenFile(s)
  BY <1>9, LegalStates, MovesSilently DEF OpenFile, HandlerStates, Writing
<1>10. CASE OpenFileFails(s) \/ CopyFails(s) \/ WriteFails(s)
  BY <1>10, LegalStates, GivesUp DEF OpenFileFails, CopyFails, WriteFails, Writing
<1>11. CASE CopyItem(s)
  <2>1. CASE UNCHANGED <<hs, log>>
    BY <2>1 DEF EventInv, EventProtocol
  <2>2. CASE Goto(s, "blob") /\ UNCHANGED log
    BY <1>11, <2>2, LegalStates, MovesSilently DEF CopyItem, HandlerStates, Writing
  <2>3. QED  BY <1>11, <2>1, <2>2 DEF CopyItem
<1>12. CASE Finish(s)
  BY <1>12, LegalStates, MovesSilently DEF Finish, HandlerStates, Awaiting
<1>13. CASE FinishDone(s)
  <2>1. CASE hs[s] = "finish"
    <3>1. Append(log[s], TransferCompleted) \in LegalLog("done")
      BY <2>1, LegalStates DEF EventInv, EventProtocol
    <3>2. Goto(s, "done") /\ Emit(s, TransferCompleted)
      BY <1>13, <2>1 DEF FinishDone
    <3>3. QED  BY <3>1, <3>2, Moves DEF Goto, Emit, HandlerStates
  <2>2. CASE hs[s] = "bnfFinish"
    <3>1. Append(log[s], TransferAborted) \in LegalLog("done")
      BY <2>2, LegalStates DEF EventInv, EventProtocol
    <3>2. Goto(s, "done") /\ Emit(s, TransferAborted)
      BY <1>13, <2>2 DEF FinishDone
    <3>3. QED  BY <3>1, <3>2, Moves DEF Goto, Emit, HandlerStates
  <2>3. CASE hs[s] = "nfFinish"
    <3>1. Goto(s, "done") /\ UNCHANGED log
      BY <1>13, <2>3 DEF FinishDone
    <3>2. log[s] \in LegalLog("done") /\ log' = [log EXCEPT ![s] = log[s]]
      BY <2>3, <3>1, LegalStates DEF EventInv, EventProtocol
    <3>3. QED  BY <3>1, <3>2, Moves DEF Goto, HandlerStates
  <2>4. QED  BY <1>13, <2>1, <2>2, <2>3 DEF FinishDone, Awaiting
<1>14. QED
  BY <1>1, <1>2, <1>3, <1>4, <1>5, <1>6, <1>7, <1>8, <1>9, <1>10, <1>11, <1>12,
     <1>13 DEF HandlerStep

\* Every step of the system keeps the invariant.
LEMMA EventStep == EventInv /\ ServerStep => EventInv'
<1> SUFFICES ASSUME EventInv, ServerStep PROVE EventInv'  OBVIOUS
<1>1. CASE UNCHANGED <<hs, log>>
  BY <1>1 DEF EventInv, EventProtocol
<1>2. ASSUME NEW s \in Streams, AcceptBi(s) PROVE EventInv'
  <2>1. hs[s] = "none" /\ log[s] \in LegalLog("none")
    BY <1>2 DEF AcceptBi, EventInv, EventProtocol
  <2>2. log[s] = <<>>
    BY <2>1, LegalStates, Zenon
  <2>3. Append(log[s], ClientConnected) = CC
    BY <2>2, LogFacts, Zenon
  <2>4. LegalLog("handshake") = {CC}
    BY LegalStates DEF Reading
  <2>5. Append(log[s], ClientConnected) \in LegalLog("handshake")
    BY <2>3, <2>4, Zenon
  <2>6. QED  BY <1>2, <2>5, Moves DEF AcceptBi, HandlerStates, Reading
<1>3. ASSUME NEW s \in Streams, HandlerStep(s) PROVE EventInv'
  BY <1>3, HandlerKeepsEvents
<1>4. Shutdown \/ RunStep \/ EndpointLost => UNCHANGED <<hs, log>>
  <2>1. Shutdown \/ EndpointLost => UNCHANGED <<hs, log>>
    BY DEF Shutdown, EndpointLost, streams
  <2>2. PollCancelled \/ RunEnds \/ RunPark \/ RunWake => UNCHANGED <<hs, log>>
    BY DEF PollCancelled, RunEnds, RunPark, RunWake, streams
  <2>3. \A c \in Conns : RunAccept(c) => UNCHANGED <<hs, log>>
    BY DEF RunAccept, streams
  <2>4. QED  BY <2>1, <2>2, <2>3 DEF RunStep
<1>5. \A c \in Conns : ConnectionStep(c) => UNCHANGED <<hs, log>>
  BY DEF ConnectionStep, Connected, ConnectionEnds, streams
<1>6. \A h \in Hash : ChangeFile(h) => UNCHANGED <<hs, log>>
  BY DEF ChangeFile, streams
<1>7. Outside => UNCHANGED <<hs, log>>
  BY DEF Outside, providerVars
<1>8. CASE ProviderNext
  BY <1>1, <1>2, <1>3, <1>4, <1>5, <1>6, <1>8 DEF ProviderNext
<1>9. QED  BY <1>1, <1>7, <1>8 DEF ServerStep

\* The states of a handler that answers a request it has read completely.
Refusing == {"nfWrite", "nfFinish"}
Serving  == {"found", "coll", "blob", "open", "copy", "bnf", "bnfFinish", "finish"}

\* How far the client has come: what it sent cannot be taken back.
Greeted(s)   == Len(up[s]) >= 1 /\ up[s][1] = Handshake(VERSION, AuthToken)
Requested(s) == Greeted(s) /\ Len(up[s]) >= 2 /\ up[s][2].t = "request"
Asked(s)     == Requested(s) /\ Len(up[s]) >= 3 /\ up[s][3] = Fin

\* Where the handler is tells what it has read.
ReadAt(s) ==
    /\ hs[s] \in {"none", "handshake"} => upRd[s] = 0
    /\ hs[s] = "request" => upRd[s] = 1 /\ Greeted(s)
    /\ hs[s] = "extra" => upRd[s] = 2 /\ Requested(s)
    /\ hs[s] \in Refusing \cup Serving => Asked(s)
    /\ hs[s] \in Refusing => Stored[Name(s)] # "collection"
    /\ hs[s] \in Serving => Stored[Name(s)] = "collection"
    /\ hs[s] = "done" => log[s] = Append(CC, EarlyAborted) \/ Asked(s)

\* The blob it is at is one of the collection, and stored or not.
IndexAt(s) ==
    /\ hs[s] \in {"open", "copy", "bnf", "bnfFinish"} => HasBlob(s)
    /\ hs[s] \in {"bnf", "bnfFinish"} => Stored[Blob(s)] # "blob"
    /\ hs[s] = "copy" => ci[s] <= Segments[Blob(s)]

\* An item the client on s may be sent.
Permitted(s, it) ==
    it # Fin => /\ Asked(s)
                /\ it.t = "data" => it.h = Name(s) \/ it.h \in Range(BlobsOf(s))
SentAt(s) == \A k \in 1..Len(down[s]) : Permitted(s, down[s][k])

StreamAt(s) == ReadAt(s) /\ IndexAt(s) /\ SentAt(s)

PoolInv == IsFiniteSet(Busy) /\ Cardinality(Busy) <= Pool

ServeInv == ServerTypeOK /\ EventProtocol /\ \A s \in Streams : StreamAt(s)

\* Why a request that can be served was aborted.
CauseAt(s) ==
    log[s] = Append(RR, TransferAborted) /\ FilesIntact /\ Servable(Name(s))
      => pside[ConnOf[s]] = "down" \/ "down" \in stopped[s]

AbortInv == Unconnected /\ \A s \in Streams : CauseAt(s)

\* A closed endpoint has no open connection and takes no new one.
Closed == run = "done" => ~listening /\ \A c \in Conns : pside[c] # "open"

(***************************************************************************)
(* Facts about items, frames and the two ways to put items on a stream.    *)
(***************************************************************************)
\* What the provider writes are items; an encoding carries its own hash.
LEMMA ItemFacts ==
    /\ Fin \in Items /\ NotFound \in Items /\ Found \in Items /\ Corrupt \in Items
    /\ \A n \in Nat : FoundCollection(n) \in Items
    /\ \A h \in Hash :
         /\ Enc(h) \in Seq(Items) /\ Len(Enc(h)) = Segments[h] + 1
         /\ \A k \in 1..(Segments[h] + 1) :
              Enc(h)[k] \in Items /\ (Enc(h)[k].t = "data" => Enc(h)[k].h = h)
<1>1. /\ Fin \in Items /\ NotFound \in Items /\ Found \in Items /\ Corrupt \in Items
      /\ \A n \in Nat : FoundCollection(n) \in Items
  BY DEF Items, Fin, NotFound, Found, Corrupt, FoundCollection
<1>2. ASSUME NEW h \in Hash
      PROVE  /\ Enc(h) \in Seq(Items) /\ Len(Enc(h)) = Segments[h] + 1
             /\ \A k \in 1..(Segments[h] + 1) :
                  Enc(h)[k] \in Items /\ (Enc(h)[k].t = "data" => Enc(h)[k].h = h)
  <2>1. Segments[h] \in Nat
    BY HashAssumption
  <2>2. ASSUME NEW k \in 1..(Segments[h] + 1)
        PROVE  (IF k = 1 THEN Size(Segments[h]) ELSE Data(h, k - 1)) \in Items
    <3>1. CASE k = 1
      BY <2>1, <3>1 DEF Size, Items
    <3>2. CASE k # 1
      <4>1. k - 1 \in Nat
        BY <2>1, <3>2
      <4> QED
        BY <3>2, <4>1 DEF Data, Items
    <3> QED
      BY <3>1, <3>2
  <2>3. Enc(h) \in [1..(Segments[h] + 1) -> Items]
    BY <2>2 DEF Enc
  <2>4. Enc(h) \in Seq(Items) /\ Len(Enc(h)) = Segments[h] + 1
    BY <2>1, <2>3
  <2>5. ASSUME NEW k \in 1..(Segments[h] + 1)
        PROVE  Enc(h)[k].t = "data" => Enc(h)[k].h = h
    <3>1. CASE k = 1
      BY <3>1 DEF Enc, Size
    <3>2. CASE k # 1
      BY <3>2 DEF Enc, Data
    <3> QED
      BY <3>1, <3>2
  <2> QED
    BY <2>3, <2>4, <2>5
<1> QED
  BY <1>1, <1>2

\* What one SendDown does to the streams.
LEMMA SendFacts ==
    ASSUME ServerTypeOK, NEW s \in Streams, NEW q \in Seq(Items), SendDown(s, q)
    PROVE  /\ down' \in [Streams -> Seq(Items)]
           /\ \A t \in Streams \ {s} : down'[t] = down[t]
           /\ down'[s] = down[s] \/ down'[s] = down[s] \o q
<1>1. down \in [Streams -> Seq(Items)] /\ down[s] \o q \in Seq(Items)
  BY DEF ServerTypeOK, QuicTypeOK
<1> QED
  BY <1>1 DEF SendDown

\* What dropping or finishing the writer does to them.
LEMMA DropFacts ==
    ASSUME ServerTypeOK, NEW s \in Streams, DropWriter(s)
    PROVE  /\ down' \in [Streams -> Seq(Items)]
           /\ \A t \in Streams \ {s} : down'[t] = down[t]
           /\ down'[s] = down[s] \/ down'[s] = down[s] \o <<Fin>>
<1>1. down \in [Streams -> Seq(Items)] /\ Append(down[s], Fin) \in Seq(Items)
  BY ItemFacts DEF ServerTypeOK, QuicTypeOK
<1>2. Append(down[s], Fin) = down[s] \o <<Fin>>
  BY <1>1
<1> QED
  BY <1>1, <1>2 DEF DropWriter

\* Sending permitted items keeps what was sent permitted.
LEMMA SentGrows ==
    ASSUME ServerTypeOK, NEW s \in Streams, SentAt(s), UNCHANGED up,
           NEW q \in Seq(Items), down'[s] = down[s] \/ down'[s] = down[s] \o q,
           \A k \in 1..Len(q) : Permitted(s, q[k])
    PROVE  SentAt(s)'
<1>1. \A it : Permitted(s, it) => Permitted(s, it)'
  BY DEF Permitted, Asked, Requested, Greeted, Name, BlobsOf
<1>2. CASE down'[s] = down[s]
  BY <1>1, <1>2 DEF SentAt
<1>3. CASE down'[s] = down[s] \o q
  <2>1. down[s] \in Seq(Items)
    BY DEF ServerTypeOK, QuicTypeOK
  <2>2. ASSUME NEW k \in 1..Len(down'[s]) PROVE Permitted(s, down'[s][k])
    <3>1. CASE k \in 1..Len(down[s])
      <4>1. down'[s][k] = down[s][k]
        BY <1>3, <2>1, <3>1
      <4> QED
        BY <3>1, <4>1 DEF SentAt
    <3>2. CASE k \notin 1..Len(down[s])
      <4>1. k - Len(down[s]) \in 1..Len(q) /\ down'[s][k] = q[k - Len(down[s])]
        BY <1>3, <2>1, <2>2, <3>2
      <4> QED
        BY <4>1
    <3> QED
      BY <3>1, <3>2
  <2> QED
    BY <1>1, <2>2 DEF SentAt
<1> QED
  BY <1>2, <1>3

(***************************************************************************)
(* The steps of a handler.                                                 *)
(***************************************************************************)
\* What a step of the handler of s leaves alone, and the types it keeps.
Frame(s) ==
    /\ UNCHANGED <<listening, pside, cside, up, downRd, acked, run, cancelled, conn, file>>
    /\ \A t \in Streams \ {s} :
         UNCHANGED <<upRd[t], down[t], stopped[t], hs[t], bi[t], ci[t], log[t]>>
    /\ upRd' \in [Streams -> Nat]
    /\ down' \in [Streams -> Seq(Items)]
    /\ stopped' \in [Streams -> SUBSET Directions]
    /\ stopped[s] \subseteq stopped'[s]
    /\ bi' \in [Streams -> Nat]
    /\ ci' \in [Streams -> Nat]

\* A handler that answers knows the collection it was asked for.
LEMMA ServedName ==
    ASSUME ServerTypeOK, NEW s \in Streams, ReadAt(s), hs[s] \in Serving
    PROVE  /\ Name(s) \in Collections /\ Name(s) \in Hash
           /\ BlobsOf(s) \in Seq(Hash) /\ TotalBlobsSize[Name(s)] \in Nat
           /\ bi[s] \in Nat
           /\ HasBlob(s) => Blob(s) \in Hash /\ Blob(s) \in Range(BlobsOf(s))
<1>1. Asked(s) /\ Stored[Name(s)] = "collection"
  BY DEF ReadAt
<1>2. up[s] \in Seq(Frames) /\ 2 \in 1..Len(up[s])
  BY <1>1 DEF ServerTypeOK, QuicTypeOK, Asked, Requested
<1>3. up[s][2] \in Frames /\ up[s][2].t = "request"
  BY <1>1, <1>2 DEF Asked, Requested
<1>4. Name(s) \in Hash
  BY <1>3 DEF Name, Frames
<1>5. Name(s) \in Collections
  BY <1>1, <1>4, HashAssumption
<1>6. BlobsOf(s) \in Seq(Hash) /\ TotalBlobsSize[Name(s)] \in Nat
  BY <1>5, HashAssumption DEF BlobsOf
<1>7. bi[s] \in Nat
  BY DEF ServerTypeOK, ProviderTypeOK
<1>8. ASSUME HasBlob(s) PROVE Blob(s) \in Hash /\ Blob(s) \in Range(BlobsOf(s))
  <2>1. bi[s] + 1 \in 1..Len(BlobsOf(s))
    BY <1>6, <1>7, <1>8 DEF HasBlob
  <2>2. bi[s] + 1 \in DOMAIN BlobsOf(s)
    BY <1>6, <2>1
  <2> QED
    BY <1>6, <2>1, <2>2 DEF Blob, Range
<1> QED
  BY <1>4, <1>5, <1>6, <1>7, <1>8

\* Moving on among the states of one kind of answer keeps what was read.
LEMMA ReadKept ==
    ASSUME NEW s \in Streams, ReadAt(s), UNCHANGED up,
           \/ hs[s] \in Serving /\ hs'[s] \in Serving
           \/ hs[s] \in Refusing /\ hs'[s] \in Refusing
           \/ hs[s] \in Serving \cup Refusing /\ hs'[s] = "done"
           \/ hs'[s] = "done" /\ log'[s] = Append(CC, EarlyAborted)
           \/ hs'[s] = "panicked"
    PROVE  ReadAt(s)'
BY DEF ReadAt, Serving, Refusing, Asked, Requested, Greeted, Name

\* A handler that is not at a blob has no index to keep.
LEMMA IndexFree ==
    ASSUME NEW s \in Streams, hs'[s] \notin {"open", "copy", "bnf", "bnfFinish"}
    PROVE  IndexAt(s)'
BY DEF IndexAt

\* A handler gives up while reading.
LEMMA ReadingEnds ==
    ASSUME ServeInv, NEW s \in Streams, hs[s] \in Reading,
           upRd' \in [Streams -> Nat], \A t \in Streams \ {s} : upRd'[t] = upRd[t],
           ReadingFails(s) \/ Panics(s)
    PROVE  Frame(s) /\ StreamAt(s)'
<1>1. ServerTypeOK /\ StreamAt(s) /\ log[s] = CC
  BY LegalStates DEF ServeInv, EventProtocol
<1>2. DropWriter(s)
  BY DEF ReadingFails, Panics
<1>3. /\ down' \in [Streams -> Seq(Items)]
      /\ \A t \in Streams \ {s} : down'[t] = down[t]
      /\ down'[s] = down[s] \/ down'[s] = down[s] \o <<Fin>>
  BY <1>1, <1>2, DropFacts
<1>4. <<Fin>> \in Seq(Items) /\ \A k \in 1..Len(<<Fin>>) : Permitted(s, <<Fin>>[k])
  BY ItemFacts DEF Permitted
<1>5. /\ UNCHANGED up
      /\ (hs'[s] = "done" /\ log'[s] = Append(CC, EarlyAborted)) \/ hs'[s] = "panicked"
  BY <1>1 DEF ReadingFails, Panics, Goto, Emit, ServerTypeOK, ProviderTypeOK
<1>6. /\ stopped' \in [Streams -> SUBSET Directions]
      /\ stopped[s] \subseteq stopped'[s]
      /\ \A t \in Streams \ {s} : stopped'[t] = stopped[t]
  <2>1. stopped \in [Streams -> SUBSET Directions] /\ stopped[s] \in SUBSET Directions
    BY <1>1 DEF ServerTypeOK, QuicTypeOK
  <2>2. stopped[s] \cup {"up"} \in SUBSET Directions
    BY <2>1 DEF Directions
  <2>3. stopped' = stopped \/ stopped' = [stopped EXCEPT ![s] = @ \cup {"up"}]
    BY <2>1 DEF ReadingFails, Panics, DropReader
  <2> QED
    BY <2>1, <2>2, <2>3
<1>7. Frame(s)
  <2>1. hs \in [Streams -> HandlerStates] /\ log \in [Streams -> Seq(Events)]
        /\ bi \in [Streams -> Nat] /\ ci \in [Streams -> Nat]
    BY <1>1 DEF ServerTypeOK, ProviderTypeOK
  <2>2. UNCHANGED <<listening, pside, cside, up, downRd, acked, run, cancelled, conn, file, bi, ci>>
    BY DEF ReadingFails, Panics, conns, tasks
  <2>3. \A t \in Streams \ {s} : hs'[t] = hs[t] /\ log'[t] = log[t]
    BY <2>1 DEF ReadingFails, Panics, Goto, Emit
  <2> QED
    BY <1>3, <1>6, <2>1, <2>2, <2>3 DEF Frame
<1>8. SentAt(s)'
  BY <1>1, <1>3, <1>4, <1>5, SentGrows DEF StreamAt
<1> QED
  BY <1>1, <1>5, <1>7, <1>8, ReadKept, IndexFree DEF StreamAt

\* A handler gives up while it answers.
LEMMA AnswerEnds ==
    ASSUME ServeInv, NEW s \in Streams, hs[s] \in Serving \cup Refusing,
           TransferFails(s) \/ NotFoundFails(s)
    PROVE  Frame(s) /\ StreamAt(s)'
<1>1. ServerTypeOK /\ StreamAt(s)
  BY DEF ServeInv
<1>2. DropWriter(s)
  BY DEF TransferFails, NotFoundFails
<1>3. /\ down' \in [Streams -> Seq(Items)]
      /\ \A t \in Streams \ {s} : down'[t] = down[t]
      /\ down'[s] = down[s] \/ down'[s] = down[s] \o <<Fin>>
  BY <1>1, <1>2, DropFacts
<1>4. <<Fin>> \in Seq(Items) /\ \A k \in 1..Len(<<Fin>>) : Permitted(s, <<Fin>>[k])
  BY ItemFacts DEF Permitted
<1>5. UNCHANGED up /\ hs'[s] = "done"
  BY <1>1 DEF TransferFails, NotFoundFails, Goto, ServerTypeOK, ProviderTypeOK
<1>6. Frame(s)
  <2>1. /\ hs \in [Streams -> HandlerStates] /\ log \in [Streams -> Seq(Events)]
        /\ bi \in [Streams -> Nat] /\ ci \in [Streams -> Nat]
        /\ upRd \in [Streams -> Nat] /\ stopped \in [Streams -> SUBSET Directions]
    BY <1>1 DEF ServerTypeOK, QuicTypeOK, ProviderTypeOK
  <2>2. UNCHANGED <<listening, pside, cside, up, upRd, downRd, acked, stopped, run, cancelled,
                    conn, file, bi, ci>>
    BY DEF TransferFails, NotFoundFails, conns, tasks
  <2>3. \A t \in Streams \ {s} : hs'[t] = hs[t] /\ log'[t] = log[t]
    BY <2>1 DEF TransferFails, NotFoundFails, Goto, Emit
  <2> QED
    BY <1>3, <2>1, <2>2, <2>3 DEF Frame
<1>7. SentAt(s)'
  BY <1>1, <1>3, <1>4, <1>5, SentGrows DEF StreamAt
<1> QED
  BY <1>1, <1>5, <1>6, <1>7, ReadKept, IndexFree DEF StreamAt

\* Items that belong to the answer on s.
Answers(s, q) ==
    /\ q \in Seq(Items)
    /\ \A k \in 1..Len(q) :
         q[k].t = "data" => q[k].h = Name(s) \/ q[k].h \in Range(BlobsOf(s))

\* The handler of s goes on answering.
GoesOn(s) ==
    /\ OnlySend(s) /\ UNCHANGED log
    /\ \A t \in Streams \ {s} : UNCHANGED <<hs[t], bi[t], ci[t]>>
    /\ bi' \in [Streams -> Nat] /\ ci' \in [Streams -> Nat]
    /\ \/ hs[s] \in Serving /\ hs'[s] \in Serving
       \/ hs[s] \in Refusing /\ hs'[s] \in Refusing
    /\ IndexAt(s)'

\* A single item that is no data belongs to every answer.
LEMMA PlainItem ==
    ASSUME NEW s \in Streams, NEW it \in Items, it.t # "data"
    PROVE  Answers(s, <<it>>)
BY DEF Answers

\* A handler puts items of the answer on the stream and goes on.
LEMMA AnswerGrows ==
    ASSUME ServeInv, NEW s \in Streams, NEW q, Answers(s, q), GoesOn(s),
           down' \in [Streams -> Seq(Items)], \A t \in Streams \ {s} : down'[t] = down[t],
           down'[s] = down[s] \/ down'[s] = down[s] \o q
    PROVE  Frame(s) /\ StreamAt(s)'
<1>1. ServerTypeOK /\ StreamAt(s)
  BY DEF ServeInv
<1>2. Asked(s)
  BY <1>1 DEF StreamAt, ReadAt, GoesOn
<1>3. q \in Seq(Items) /\ \A k \in 1..Len(q) : Permitted(s, q[k])
  BY <1>2 DEF Permitted, Answers
<1>4. Frame(s)
  BY <1>1 DEF Frame, GoesOn, OnlySend, ServerTypeOK, QuicTypeOK, conns, tasks
<1>5. SentAt(s)'
  BY <1>1, <1>3, SentGrows DEF StreamAt, GoesOn, OnlySend
<1>6. ReadAt(s)'
  BY <1>1, ReadKept DEF StreamAt, GoesOn, OnlySend
<1> QED
  BY <1>4, <1>5, <1>6 DEF StreamAt, GoesOn

\* A write puts items of the answer on the stream.
LEMMA AnswerSent ==
    ASSUME ServeInv, NEW s \in Streams, NEW q, Answers(s, q), SendDown(s, q), GoesOn(s)
    PROVE  Frame(s) /\ StreamAt(s)'
<1>1. ServerTypeOK /\ q \in Seq(Items)
  BY DEF ServeInv, Answers
<1> QED
  BY <1>1, SendFacts, AnswerGrows

\* finish() or a drop of the writer ends the answer.
LEMMA AnswerFinished ==
    ASSUME ServeInv, NEW s \in Streams, DropWriter(s), GoesOn(s)
    PROVE  Frame(s) /\ StreamAt(s)'
<1>1. ServerTypeOK
  BY DEF ServeInv
<1>2. Answers(s, <<Fin>>)
  BY ItemFacts, PlainItem DEF Fin
<1> QED
  BY <1>1, <1>2, DropFacts, AnswerGrows

\* Every step of the handler of s keeps StreamAt(s), one case per action.
LEMMA HandlerStream ==
    ASSUME ServeInv, NEW s \in Streams, HandlerStep(s)
    PROVE  Frame(s) /\ StreamAt(s)'
<1>a. ServerTypeOK /\ ReadAt(s) /\ IndexAt(s) /\ SentAt(s)
  BY DEF ServeInv, StreamAt
<1>b. /\ up \in [Streams -> Seq(Frames)] /\ upRd \in [Streams -> Nat]
      /\ hs \in [Streams -> HandlerStates] /\ log \in [Streams -> Seq(Events)]
      /\ bi \in [Streams -> Nat] /\ ci \in [Streams -> Nat]
      /\ stopped \in [Streams -> SUBSET Directions] /\ down \in [Streams -> Seq(Items)]
  BY <1>a DEF ServerTypeOK, QuicTypeOK, ProviderTypeOK
<1>c. ASSUME ReadFrame(s)
      PROVE  /\ upRd' \in [Streams -> Nat] /\ \A t \in Streams \ {s} : upRd'[t] = upRd[t]
             /\ upRd'[s] = upRd[s] + 1 /\ upRd[s] < Len(up[s])
  BY <1>b, <1>c DEF ReadFrame, CanReadUp
<1>d. ASSUME ReadFrame(s), OnlyRead(s),
             \A t \in Streams \ {s} : UNCHANGED <<hs[t], log[t]>>,
             hs'[s] \in {"request", "extra", "found", "nfWrite"}, ReadAt(s)'
      PROVE  Frame(s) /\ StreamAt(s)'
  <2>1. Frame(s)
    BY <1>b, <1>c, <1>d DEF Frame, OnlyRead, conns, tasks
  <2>2. UNCHANGED <<up, down>>
    BY <1>d DEF OnlyRead
  <2>3. SentAt(s)'
    BY <1>a, <2>2 DEF SentAt, Permitted, Asked, Requested, Greeted, Name, BlobsOf
  <2> QED
    BY <1>d, <2>1, <2>3, IndexFree DEF StreamAt
<1>1. CASE ReadHandshake(s)
  <2>1. ReadFrame(s) /\ hs[s] = "handshake" /\ hs[s] \in Reading
    BY <1>1 DEF ReadHandshake, Reading
  <2>2. CASE ValidHandshake(NextFrame(s)) /\ Goto(s, "request") /\ OnlyRead(s) /\ UNCHANGED log
    <3>1. upRd[s] = 0 /\ upRd'[s] = 1 /\ Len(up[s]) \in Nat /\ Len(up[s]) >= 1
      BY <1>a, <1>b, <1>c, <2>1 DEF ReadAt
    <3>2. Greeted(s)
      BY <2>2, <3>1 DEF ValidHandshake, NextFrame, Greeted
    <3>3. hs'[s] = "request" /\ UNCHANGED up
          /\ \A t \in Streams \ {s} : UNCHANGED <<hs[t], log[t]>>
      BY <1>b, <2>2 DEF Goto, OnlyRead
    <3>4. ReadAt(s)'
      BY <3>1, <3>2, <3>3 DEF ReadAt, Greeted, Refusing, Serving
    <3> QED
      BY <1>d, <2>1, <2>2, <3>3, <3>4
  <2> QED
    BY <1>1, <1>c, <2>1, <2>2, ReadingEnds DEF ReadHandshake
<1>2. CASE ReadRequest(s)
  <2>1. ReadFrame(s) /\ hs[s] = "request" /\ hs[s] \in Reading
    BY <1>2 DEF ReadRequest, Reading
  <2>2. CASE NextFrame(s).t = "request" /\ Goto(s, "extra") /\ OnlyRead(s) /\ UNCHANGED log
    <3>1. upRd[s] = 1 /\ upRd'[s] = 2 /\ Greeted(s) /\ Len(up[s]) \in Nat /\ Len(up[s]) >= 2
      BY <1>a, <1>b, <1>c, <2>1 DEF ReadAt
    <3>2. Requested(s)
      BY <2>2, <3>1 DEF NextFrame, Requested
    <3>3. hs'[s] = "extra" /\ UNCHANGED up
          /\ \A t \in Streams \ {s} : UNCHANGED <<hs[t], log[t]>>
      BY <1>b, <2>2 DEF Goto, OnlyRead
    <3>4. ReadAt(s)'
      BY <3>1, <3>2, <3>3 DEF ReadAt, Requested, Greeted, Refusing, Serving
    <3> QED
      BY <1>d, <2>1, <2>2, <3>3, <3>4
  <2> QED
    BY <1>2, <1>c, <2>1, <2>2, ReadingEnds DEF ReadRequest
<1>3. CASE ReadExtra(s)
  <2>1. ReadFrame(s) /\ hs[s] = "extra" /\ hs[s] \in Reading
    BY <1>3 DEF ReadExtra, Reading
  <2>2. CASE /\ NextFrame(s) = Fin /\ OnlyRead(s)
             /\ \/ Stored[Name(s)] = "collection" /\ Goto(s, "found")
                \/ Stored[Name(s)] # "collection" /\ Goto(s, "nfWrite")
             /\ \A t \in Streams \ {s} : UNCHANGED log[t]
    <3>1. upRd[s] = 2 /\ Requested(s) /\ Len(up[s]) \in Nat /\ Len(up[s]) >= 3
      BY <1>a, <1>b, <1>c, <2>1 DEF ReadAt
    <3>2. Asked(s)
      BY <2>2, <3>1 DEF NextFrame, Asked
    <3>3. /\ \/ hs'[s] = "found" /\ Stored[Name(s)] = "collection"
             \/ hs'[s] = "nfWrite" /\ Stored[Name(s)] # "collection"
          /\ UNCHANGED up
          /\ \A t \in Streams \ {s} : UNCHANGED <<hs[t], log[t]>>
      BY <1>b, <2>2 DEF Goto, OnlyRead
    <3>4. ReadAt(s)'
      BY <3>2, <3>3 DEF ReadAt, Asked, Requested, Greeted, Refusing, Serving, Name
    <3> QED
      BY <1>d, <2>1, <2>2, <3>3, <3>4
  <2>3. CASE ReadingFails(s)
    BY <1>c, <2>1, <2>3, ReadingEnds
  <2> QED
    BY <1>3, <1>b, <2>2, <2>3 DEF ReadExtra, Emit
<1>4. CASE ReadError(s)
  BY <1>4, <1>b, ReadingEnds DEF ReadError
<1>e. /\ Answers(s, <<NotFound>>) /\ Answers(s, <<Found>>)
      /\ Answers(s, <<NotFound, Fin>>)
  <2>1. /\ NotFound \in Items /\ NotFound.t # "data" /\ Found \in Items /\ Found.t # "data"
        /\ Fin \in Items /\ Fin.t # "data"
    BY ItemFacts DEF NotFound, Found, Fin
  <2> QED
    BY <2>1, PlainItem DEF Answers
<1>5. CASE WriteNotFound(s)
  <2>1. hs[s] = "nfWrite" /\ hs'[s] = "nfFinish"
        /\ \A t \in Streams \ {s} : hs'[t] = hs[t]
    BY <1>5, <1>b DEF WriteNotFound, Goto
  <2>2. SendDown(s, <<NotFound, Fin>>) /\ OnlySend(s) /\ UNCHANGED <<bi, ci, log>>
    BY <1>5 DEF WriteNotFound
  <2>3. GoesOn(s)
    BY <1>b, <2>1, <2>2, IndexFree DEF GoesOn, Refusing
  <2> QED
    BY <1>e, <2>2, <2>3, AnswerSent
<1>6. CASE NotFoundFails(s)
  BY <1>6, AnswerEnds DEF NotFoundFails, Refusing
<1>7. CASE WriteFoundCollection(s)
  <2> DEFINE it == FoundCollection(TotalBlobsSize[Name(s)])
  <2>1. hs[s] = "found" /\ hs[s] \in Serving /\ hs'[s] = "coll"
        /\ \A t \in Streams \ {s} : hs'[t] = hs[t]
    BY <1>7, <1>b DEF WriteFoundCollection, Goto, Serving
  <2>2. it \in Items /\ it.t # "data"
    BY <1>a, <2>1, ServedName, ItemFacts DEF FoundCollection
  <2>3. SendDown(s, <<it>>) /\ OnlySend(s) /\ UNCHANGED <<bi, ci, log>>
    BY <1>7 DEF WriteFoundCollection
  <2>4. GoesOn(s)
    BY <1>b, <2>1, <2>3, IndexFree DEF GoesOn, Serving
  <2> HIDE DEF it
  <2> QED
    BY <2>2, <2>3, <2>4, PlainItem, AnswerSent
<1>8. CASE WriteCollection(s)
  <2>1. hs[s] \in Serving /\ hs'[s] = "blob" /\ \A t \in Streams \ {s} : hs'[t] = hs[t]
    BY <1>8, <1>b DEF WriteCollection, Goto, Serving
  <2>2. Name(s) \in Hash /\ Segments[Name(s)] \in Nat
    BY <1>a, <2>1, ServedName, HashAssumption
  <2>3. PICK k \in Nat : k <= Segments[Name(s)] + 1 /\ SendDown(s, SubSeq(Enc(Name(s)), 1, k))
    <3>1. Len(Enc(Name(s))) = Segments[Name(s)] + 1
      BY <2>2, ItemFacts
    <3>2. Credit(s) \in Nat
      BY <1>a, <1>8, QuicAssumption DEF WriteCollection, CanSendDown, Credit, ServerTypeOK, QuicTypeOK
    <3> QED
      BY <1>8, <2>2, <3>1, <3>2 DEF WriteCollection
  <2> DEFINE q == SubSeq(Enc(Name(s)), 1, k)
  <2>4. Enc(Name(s)) \in Seq(Items) /\ Len(Enc(Name(s))) = Segments[Name(s)] + 1
    BY <2>2, ItemFacts
  <2>5. q \in Seq(Items) /\ Len(q) = k /\ \A i \in 1..k : q[i] = Enc(Name(s))[i]
    BY <2>2, <2>3, <2>4
  <2>6. \A i \in 1..Len(q) : q[i].t = "data" => q[i].h = Name(s)
    BY <2>2, <2>3, <2>5, ItemFacts
  <2>7. SendDown(s, q) /\ OnlySend(s) /\ UNCHANGED <<bi, ci, log>>
    BY <1>8, <2>3 DEF WriteCollection
  <2> HIDE DEF q
  <2>8. GoesOn(s)
    BY <1>b, <2>1, <2>7, IndexFree DEF GoesOn, Serving
  <2>9. Answers(s, q)
    BY <2>5, <2>6 DEF Answers
  <2> QED
    BY <2>7, <2>8, <2>9, AnswerSent
<1>9. CASE WriteFound(s) \/ WriteBlobNotFound(s)
  <2>1. /\ hs[s] = "blob" /\ OnlySend(s) /\ UNCHANGED <<bi, ci, log>> /\ HasBlob(s)
        /\ \/ SendDown(s, <<Found>>) /\ Goto(s, "open")
           \/ SendDown(s, <<NotFound>>) /\ Goto(s, "bnf") /\ Stored[Blob(s)] # "blob"
    BY <1>9 DEF WriteFound, WriteBlobNotFound
  <2>2. /\ hs'[s] = "open" \/ (hs'[s] = "bnf" /\ Stored[Blob(s)] # "blob")
        /\ \A t \in Streams \ {s} : hs'[t] = hs[t]
    <3>1. CASE Goto(s, "open")
      BY <1>b, <3>1 DEF Goto
    <3>2. CASE Goto(s, "bnf") /\ Stored[Blob(s)] # "blob"
      BY <1>b, <3>2 DEF Goto
    <3> QED
      BY <2>1, <3>1, <3>2
  <2>3. UNCHANGED up
    BY <2>1 DEF OnlySend
  <2>4. IndexAt(s)'
    BY <2>1, <2>2, <2>3 DEF IndexAt, HasBlob, Blob, BlobsOf, Name
  <2>5. GoesOn(s)
    BY <1>b, <2>1, <2>2, <2>4 DEF GoesOn, Serving
  <2> QED
    BY <1>e, <2>1, <2>5, AnswerSent
<1>10. CASE RepeatNotFound(s)
  <2>1. hs[s] = "bnf" /\ hs'[s] = "bnfFinish" /\ \A t \in Streams \ {s} : hs'[t] = hs[t]
    BY <1>10, <1>b DEF RepeatNotFound, Goto
  <2>2. SendDown(s, <<NotFound, Fin>>) /\ OnlySend(s) /\ UNCHANGED <<up, bi, ci, log>>
    BY <1>10 DEF RepeatNotFound, OnlySend
  <2>3. IndexAt(s)'
    BY <1>a, <2>1, <2>2 DEF IndexAt, HasBlob, Blob, BlobsOf, Name
  <2>4. GoesOn(s)
    BY <1>b, <2>1, <2>2, <2>3 DEF GoesOn, Serving
  <2> QED
    BY <1>e, <2>2, <2>4, AnswerSent
<1>11. CASE OpenFile(s)
  <2>1. /\ hs[s] = "open" /\ hs'[s] = "copy" /\ ci'[s] = 0
        /\ ci' \in [Streams -> Nat] /\ UNCHANGED <<bi, log>>
        /\ \A t \in Streams \ {s} : UNCHANGED <<hs[t], ci[t]>>
    BY <1>11, <1>b DEF OpenFile, Goto
  <2>2. /\ UNCHANGED <<listening, pside, cside, up, upRd, down, downRd, acked, stopped>>
        /\ UNCHANGED <<run, cancelled, conn, file>>
    BY <1>11 DEF OpenFile, quicVars, tasks
  <2>3. Frame(s)
    BY <1>b, <2>1, <2>2 DEF Frame
  <2>4. HasBlob(s) /\ Blob(s) \in Hash
    BY <1>a, <2>1, ServedName DEF IndexAt, Serving
  <2>5. 0 <= Segments[Blob(s)]
    BY <2>4, HashAssumption
  <2>6. IndexAt(s)'
    BY <2>1, <2>2, <2>4, <2>5 DEF IndexAt, HasBlob, Blob, BlobsOf, Name
  <2>7. ReadAt(s)'
    BY <1>a, <2>1, <2>2, ReadKept DEF Serving
  <2>8. SentAt(s)'
    BY <1>a, <2>2 DEF SentAt, Permitted, Asked, Requested, Greeted, Name, BlobsOf
  <2> QED
    BY <2>3, <2>6, <2>7, <2>8 DEF StreamAt
<1>12. CASE OpenFileFails(s) \/ CopyFails(s) \/ WriteFails(s)
  BY <1>12, AnswerEnds DEF OpenFileFails, CopyFails, WriteFails, Writing, Serving, Refusing
<1>13. CASE CopyItem(s)
  <2>1. hs[s] = "copy" /\ hs[s] \in Serving /\ HasBlob(s) /\ ci[s] <= Segments[Blob(s)]
    BY <1>13, <1>a DEF CopyItem, Serving, IndexAt
  <2>2. Blob(s) \in Hash /\ Blob(s) \in Range(BlobsOf(s)) /\ Segments[Blob(s)] \in Nat
        /\ ci[s] \in Nat /\ bi[s] \in Nat
    BY <1>a, <1>b, <2>1, ServedName, HashAssumption
  <2> DEFINE it == ItemRead(s)
  <2>3. it \in Items /\ (it.t = "data" => it.h \in Range(BlobsOf(s)))
    <3>1. CASE it = Corrupt
      BY <3>1, ItemFacts DEF Corrupt
    <3>2. CASE it = Enc(Blob(s))[ci[s] + 1]
      <4>1. ci[s] + 1 \in 1..(Segments[Blob(s)] + 1)
        BY <2>1, <2>2
      <4>2. it \in Items /\ (it.t = "data" => it.h = Blob(s))
        BY <2>2, <3>2, <4>1, ItemFacts
      <4> QED
        BY <2>2, <4>2
    <3> QED
      BY <3>1, <3>2 DEF ItemRead
  <2>4. SendDown(s, <<it>>) /\ OnlySend(s) /\ UNCHANGED log
    BY <1>13 DEF CopyItem
  <2>5. /\ \/ /\ hs'[s] = "copy" /\ bi'[s] = bi[s] /\ ci'[s] = ci[s] + 1
             /\ ci[s] < Segments[Blob(s)]
          \/ hs'[s] = "blob"
        /\ \A t \in Streams \ {s} : UNCHANGED <<hs[t], bi[t], ci[t]>>
        /\ bi' \in [Streams -> Nat] /\ ci' \in [Streams -> Nat]
    <3>1. CASE ci[s] < Segments[Blob(s)]
      <4>1. ci' = [ci EXCEPT ![s] = @ + 1] /\ UNCHANGED <<hs, bi>>
        BY <1>13, <3>1, Zenon DEF CopyItem
      <4> QED
        BY <1>b, <2>1, <3>1, <4>1
    <3>2. CASE ~(ci[s] < Segments[Blob(s)])
      <4>1. Goto(s, "blob") /\ bi' = [bi EXCEPT ![s] = @ + 1] /\ UNCHANGED ci
        BY <1>13, <3>2, Zenon DEF CopyItem
      <4> QED
        BY <1>b, <4>1 DEF Goto
    <3> QED
      BY <3>1, <3>2
  <2>6. IndexAt(s)'
    <3>1. CASE hs'[s] = "blob"
      BY <3>1, IndexFree
    <3>2. CASE hs'[s] # "blob"
      <4>1. ci'[s] <= Segments[Blob(s)]
        BY <2>2, <2>5, <3>2
      <4> QED
        BY <2>1, <2>4, <2>5, <3>2, <4>1 DEF IndexAt, HasBlob, Blob, BlobsOf, Name, OnlySend
    <3> QED
      BY <3>1, <3>2
  <2>7. GoesOn(s)
    BY <2>1, <2>4, <2>5, <2>6 DEF GoesOn, Serving
  <2>8. Answers(s, <<it>>)
    BY <2>3 DEF Answers
  <2> HIDE DEF it
  <2> QED
    BY <2>4, <2>7, <2>8, AnswerSent
<1>14. CASE Finish(s)
  <2>1. hs[s] = "blob" /\ hs'[s] = "finish" /\ \A t \in Streams \ {s} : hs'[t] = hs[t]
    BY <1>14, <1>b DEF Finish, Goto
  <2>2. DropWriter(s) /\ OnlySend(s) /\ UNCHANGED <<bi, ci, log>>
    BY <1>14 DEF Finish
  <2>3. GoesOn(s)
    BY <1>b, <2>1, <2>2, IndexFree DEF GoesOn, Serving
  <2> QED
    BY <2>2, <2>3, AnswerFinished
<1>15. CASE FinishDone(s)
  <2>1. /\ hs[s] \in Serving \cup Refusing /\ hs'[s] = "done"
        /\ \A t \in Streams \ {s} : UNCHANGED <<hs[t], log[t]>>
    BY <1>15, <1>b DEF FinishDone, Goto, Emit, Awaiting, Serving, Refusing
  <2>2. /\ UNCHANGED <<listening, pside, cside, up, upRd, down, downRd, acked, stopped>>
        /\ UNCHANGED <<run, cancelled, conn, file, bi, ci>>
    BY <1>15 DEF FinishDone, quicVars, tasks
  <2>3. Frame(s)
    BY <1>b, <2>1, <2>2 DEF Frame
  <2>4. ReadAt(s)' /\ IndexAt(s)'
    BY <1>a, <2>1, <2>2, ReadKept, IndexFree
  <2>5. SentAt(s)'
    BY <1>a, <2>2 DEF SentAt, Permitted, Asked, Requested, Greeted, Name, BlobsOf
  <2> QED
    BY <2>3, <2>4, <2>5 DEF StreamAt
<1> QED
  BY <1>1, <1>2, <1>3, <1>4, <1>5, <1>6, <1>7, <1>8, <1>9, <1>10, <1>11, <1>12,
     <1>13, <1>14, <1>15 DEF HandlerStep

(***************************************************************************)
(* The other steps: a stream keeps its invariant while its client sends    *)
(* more, and every step of another part leaves it alone.                   *)
(***************************************************************************)
\* A stream of which only the client's part moves keeps its invariant.
LEMMA StreamGrows ==
    ASSUME ServerTypeOK, NEW s \in Streams, StreamAt(s), Grown(s), Len(up'[s]) \in Nat,
           UNCHANGED <<hs[s], bi[s], ci[s], log[s], upRd[s], down[s]>>
    PROVE  StreamAt(s)'
<1>1. Len(up[s]) \in Nat
  BY DEF ServerTypeOK, QuicTypeOK
<1>2. Greeted(s) => Greeted(s)'
  BY <1>1 DEF Greeted, Grown
<1>3. Requested(s) => Requested(s)' /\ Name(s)' = Name(s) /\ BlobsOf(s)' = BlobsOf(s)
  BY <1>1, <1>2 DEF Requested, Grown, Name, BlobsOf
<1>4. Asked(s) => Asked(s)' /\ Name(s)' = Name(s) /\ BlobsOf(s)' = BlobsOf(s)
  BY <1>1, <1>3 DEF Asked, Grown
<1>5. ReadAt(s)'
  BY <1>2, <1>3, <1>4 DEF StreamAt, ReadAt
<1>6. IndexAt(s)'
  <2>1. CASE hs[s] \in Serving
    <3>1. BlobsOf(s)' = BlobsOf(s)
      BY <1>4, <2>1 DEF StreamAt, ReadAt
    <3> QED
      BY <3>1 DEF StreamAt, IndexAt, HasBlob, Blob
  <2>2. CASE hs[s] \notin Serving
    BY <2>2, IndexFree DEF Serving
  <2> QED
    BY <2>1, <2>2
<1>7. SentAt(s)'
  BY <1>4 DEF StreamAt, SentAt, Permitted
<1> QED
  BY <1>5, <1>6, <1>7 DEF StreamAt

\* A step of the handler of s, or of the task that starts it.
LEMMA FrameKeeps ==
    ASSUME ServeInv, EventInv', NEW s \in Streams, Frame(s), StreamAt(s)'
    PROVE  ServeInv'
<1>1. ServerTypeOK /\ \A t \in Streams : StreamAt(t)
  BY DEF ServeInv
<1>2. ServerTypeOK'
  BY <1>1 DEF ServerTypeOK, QuicTypeOK, ProviderTypeOK, Frame, EventInv
<1>3. ASSUME NEW t \in Streams \ {s} PROVE StreamAt(t)'
  <2>1. Grown(t) /\ Len(up'[t]) \in Nat
    BY <1>1 DEF Grown, Frame, ServerTypeOK, QuicTypeOK
  <2> QED
    BY <1>1, <2>1, StreamGrows DEF Frame
<1> QED
  BY <1>2, <1>3 DEF ServeInv, EventInv

\* A step that leaves the streams to their clients.
LEMMA OthersKeep ==
    ASSUME ServeInv, ServerTypeOK', UNCHANGED <<hs, bi, ci, log, upRd, down>>,
           \A s \in Streams : Grown(s)
    PROVE  ServeInv'
<1>1. ASSUME NEW s \in Streams PROVE StreamAt(s)'
  <2>1. Len(up'[s]) \in Nat
    BY DEF ServerTypeOK, QuicTypeOK
  <2> QED
    BY <2>1, StreamGrows DEF ServeInv
<1>2. EventProtocol'
  BY DEF ServeInv, EventProtocol
<1> QED
  BY <1>1, <1>2 DEF ServeInv

\* A stream is accepted.
LEMMA AcceptKeeps ==
    ASSUME ServeInv, NEW s \in Streams, AcceptBi(s)
    PROVE  Frame(s) /\ StreamAt(s)'
<1>1. ServerTypeOK /\ ReadAt(s) /\ SentAt(s)
  BY DEF ServeInv, StreamAt
<1>2. /\ hs[s] = "none" /\ hs'[s] = "handshake"
      /\ UNCHANGED <<listening, pside, cside, up, upRd, down, downRd, acked, stopped>>
      /\ UNCHANGED <<run, cancelled, conn, bi, ci, file>>
      /\ \A t \in Streams \ {s} : UNCHANGED <<hs[t], log[t]>>
  BY <1>1 DEF AcceptBi, ServerTypeOK, ProviderTypeOK, quicVars, tasks
<1>3. Frame(s)
  BY <1>1, <1>2 DEF Frame, ServerTypeOK, QuicTypeOK, ProviderTypeOK
<1>4. ReadAt(s)' /\ IndexAt(s)'
  BY <1>1, <1>2, IndexFree DEF ReadAt, Refusing, Serving
<1>5. SentAt(s)'
  BY <1>1, <1>2 DEF SentAt, Permitted, Asked, Requested, Greeted, Name, BlobsOf
<1> QED
  BY <1>3, <1>4, <1>5 DEF StreamAt

\* What the environment does.
LEMMA OutsideKeeps ==
    ASSUME ServeInv, Outside
    PROVE  ServeInv'
<1>1. ServerTypeOK'
  BY DEF ServeInv, ServerTypeOK, ProviderTypeOK, Outside, providerVars
<1> QED
  BY <1>1, OthersKeep DEF Outside, providerVars

\* The accept loop, the tasks of the connections and the file system.
LoopStep ==
    \/ Shutdown \/ RunStep \/ EndpointLost
    \/ \E c \in Conns : ConnectionStep(c)
    \/ \E h \in Hash : ChangeFile(h)

\* They leave the streams alone.
LEMMA LoopKeeps ==
    ASSUME ServerTypeOK, LoopStep
    PROVE  ServerTypeOK' /\ UNCHANGED <<hs, bi, ci, log, up, upRd, down, downRd, acked, stopped, cside>>
<1>a. QuicTypeOK /\ ProviderTypeOK
  BY DEF ServerTypeOK
<1> USE <1>a DEF ServerTypeOK, QuicTypeOK, ProviderTypeOK, quicVars, wire, tasks, streams
<1>1. CASE Shutdown
  BY <1>1 DEF Shutdown
<1>2. CASE PollCancelled \/ RunPark \/ RunWake
  BY <1>2 DEF PollCancelled, RunPark, RunWake
<1>3. CASE RunEnds \/ EndpointLost
  BY <1>3 DEF RunEnds, EndpointLost
<1>4. ASSUME NEW c \in Conns, RunAccept(c) \/ Connected(c) \/ ConnectionEnds(c)
      PROVE  ServerTypeOK' /\ UNCHANGED <<hs, bi, ci, log, up, upRd, down, downRd, acked, stopped, cside>>
  BY <1>4 DEF RunAccept, Connected, ConnectionEnds
<1>5. ASSUME NEW h \in Hash, ChangeFile(h)
      PROVE  ServerTypeOK' /\ UNCHANGED <<hs, bi, ci, log, up, upRd, down, downRd, acked, stopped, cside>>
  BY <1>5, ProviderAssumption DEF ChangeFile
<1> QED
  BY <1>1, <1>2, <1>3, <1>4, <1>5 DEF LoopStep, RunStep, ConnectionStep

\* Every step of the system is one of these.
LEMMA StepKinds ==
    ASSUME ServerStep
    PROVE  \/ \E s \in Streams : HandlerStep(s) \/ AcceptBi(s)
           \/ LoopStep
           \/ Outside
BY DEF ServerStep, ProviderNext, LoopStep

\* Every step keeps the invariant.
LEMMA ServeStep == ServeInv /\ ServerStep => ServeInv'
<1> SUFFICES ASSUME ServeInv, ServerStep PROVE ServeInv'
  OBVIOUS
<1>a. ServerTypeOK /\ EventInv
  BY DEF ServeInv, EventInv, ServerTypeOK, ProviderTypeOK
<1>b. EventInv'
  BY <1>a, EventStep
<1>1. ASSUME NEW s \in Streams, HandlerStep(s) \/ AcceptBi(s) PROVE ServeInv'
  BY <1>1, <1>b, HandlerStream, AcceptKeeps, FrameKeeps
<1>2. CASE LoopStep
  <2>1. \A s \in Streams : Grown(s)
    BY <1>2, <1>a, LoopKeeps DEF Grown, ServerTypeOK, QuicTypeOK
  <2> QED
    BY <1>2, <1>a, <2>1, LoopKeeps, OthersKeep
<1>3. CASE Outside
  BY <1>3, OutsideKeeps
<1> QED
  BY <1>1, <1>2, <1>3, StepKinds

\* The invariant holds from the start.
LEMMA ServeInit == QuicInit /\ ProviderInit => ServeInv
<1> SUFFICES ASSUME QuicInit, ProviderInit PROVE ServeInv
  OBVIOUS
<1>1. QuicTypeOK
  BY DEF QuicInit, QuicTypeOK
<1>2. ProviderTypeOK
  <2>1. hs \in [Streams -> HandlerStates]
    BY DEF ProviderInit, HandlerStates
  <2>2. <<>> \in Seq(Events)
    OBVIOUS
  <2>3. log \in [Streams -> Seq(Events)]
    BY <2>2 DEF ProviderInit
  <2> QED
    BY <2>1, <2>3 DEF ProviderInit, ProviderTypeOK
<1>3. \A s \in Streams : StreamAt(s)
  BY DEF QuicInit, ProviderInit, StreamAt, ReadAt, IndexAt, SentAt, Refusing, Serving
<1>4. EventProtocol
  BY LegalStates DEF ProviderInit, EventProtocol
<1> QED
  BY <1>1, <1>2, <1>3, <1>4 DEF ServeInv, ServerTypeOK

(***************************************************************************)
(* The blocking pool.                                                      *)
(***************************************************************************)
\* Only OpenFile takes a thread, and only if one is free.
LEMMA ThreadTaken ==
    ASSUME ServerTypeOK, NEW s \in Streams, HandlerStep(s), hs'[s] = "copy"
    PROVE  hs[s] = "copy" \/ Cardinality(Busy) < Pool
<1>a. hs \in [Streams -> HandlerStates]
  BY DEF ServerTypeOK, ProviderTypeOK
<1>b. ASSUME Goto(s, "done") \/ Goto(s, "panicked") \/ Goto(s, "request")
             \/ Goto(s, "extra") \/ Goto(s, "found") \/ Goto(s, "nfWrite")
             \/ Goto(s, "nfFinish") \/ Goto(s, "coll") \/ Goto(s, "blob")
             \/ Goto(s, "open") \/ Goto(s, "bnf") \/ Goto(s, "bnfFinish")
             \/ Goto(s, "finish")
      PROVE  FALSE
  BY <1>a, <1>b DEF Goto
<1>1. CASE OpenFile(s)
  BY <1>1 DEF OpenFile
<1>2. CASE CopyItem(s)
  BY <1>2 DEF CopyItem
<1>3. CASE ReadHandshake(s) \/ ReadRequest(s) \/ ReadExtra(s) \/ ReadError(s)
  BY <1>3, <1>b, Zenon DEF ReadHandshake, ReadRequest, ReadExtra, ReadError, ReadingFails, Panics
<1>4. CASE WriteNotFound(s) \/ NotFoundFails(s) \/ WriteFoundCollection(s)
           \/ WriteCollection(s) \/ WriteFound(s) \/ WriteBlobNotFound(s)
           \/ RepeatNotFound(s)
  BY <1>4, <1>b, Zenon DEF WriteNotFound, NotFoundFails, WriteFoundCollection, WriteCollection,
     WriteFound, WriteBlobNotFound, RepeatNotFound
<1>5. CASE OpenFileFails(s) \/ CopyFails(s) \/ WriteFails(s) \/ Finish(s) \/ FinishDone(s)
  BY <1>5, <1>b, Zenon DEF OpenFileFails, CopyFails, WriteFails, Finish, FinishDone, TransferFails
<1> QED
  BY <1>1, <1>2, <1>3, <1>4, <1>5 DEF HandlerStep

\* The pool is never overcommitted.
LEMMA PoolStep ==
    ASSUME ServeInv, PoolInv, ServerStep
    PROVE  PoolInv'
<1>a. ServerTypeOK /\ Pool \in Nat
  BY ProviderAssumption DEF ServeInv
<1>b. CASE Busy' = Busy
  BY <1>b DEF PoolInv
<1>c. CASE UNCHANGED hs
  BY <1>b, <1>c DEF Busy
<1>1. ASSUME NEW s \in Streams, HandlerStep(s) PROVE PoolInv'
  <2>1. \A t \in Streams \ {s} : hs'[t] = hs[t]
    BY <1>1, HandlerStream DEF Frame
  <2>2. CASE hs'[s] = "copy" /\ hs[s] # "copy"
    <3>1. Busy' = Busy \cup {s} /\ s \notin Busy
      BY <2>1, <2>2 DEF Busy
    <3>2. Cardinality(Busy) < Pool
      BY <1>1, <1>a, <2>2, ThreadTaken
    <3>3. IsFiniteSet(Busy')
      BY <3>1, FS_AddElement DEF PoolInv
    <3>4. Cardinality(Busy') = Cardinality(Busy) + 1 /\ Cardinality(Busy) \in Nat
      BY <3>1, FS_AddElement, FS_CardinalityType DEF PoolInv
    <3> QED
      BY <1>a, <3>2, <3>3, <3>4 DEF PoolInv
  <2>3. CASE hs'[s] # "copy" /\ hs[s] = "copy"
    <3>1. Busy' = Busy \ {s} /\ s \in Busy
      BY <2>1, <2>3 DEF Busy
    <3>2. IsFiniteSet(Busy')
      BY <3>1, FS_RemoveElement DEF PoolInv
    <3>3. Cardinality(Busy') = Cardinality(Busy) - 1 /\ Cardinality(Busy) \in Nat
      BY <3>1, FS_RemoveElement, FS_CardinalityType DEF PoolInv
    <3> QED
      BY <1>a, <3>2, <3>3 DEF PoolInv
  <2>4. CASE hs'[s] = "copy" <=> hs[s] = "copy"
    BY <1>b, <2>1, <2>4 DEF Busy
  <2> QED
    BY <2>2, <2>3, <2>4
<1>2. ASSUME NEW s \in Streams, AcceptBi(s) PROVE PoolInv'
  <2>1. hs[s] = "none" /\ hs'[s] = "handshake" /\ \A t \in Streams \ {s} : hs'[t] = hs[t]
    BY <1>2, <1>a DEF AcceptBi, ServerTypeOK, ProviderTypeOK
  <2> QED
    BY <1>b, <2>1 DEF Busy
<1>3. CASE LoopStep
  BY <1>3, <1>a, <1>c, LoopKeeps
<1>4. CASE Outside
  BY <1>4, <1>c DEF Outside, providerVars
<1> QED
  BY <1>1, <1>2, <1>3, <1>4, StepKinds

\* The pool is free at first.
LEMMA PoolInit == ProviderInit => PoolInv
<1>1. ProviderInit => Busy = {}
  BY DEF ProviderInit, Busy
<1> QED
  BY <1>1, FS_EmptySet, ProviderAssumption DEF PoolInv

(***************************************************************************)
(* After the endpoint is closed.                                           *)
(***************************************************************************)
\* Every step keeps the closed endpoint closed.
LEMMA ClosedStep ==
    ASSUME ServeInv, Closed, ServerStep
    PROVE  Closed'
<1>a. ServerTypeOK
  BY DEF ServeInv
<1>b. pside \in [Conns -> {"none", "refused", "open", "down"}]
  BY <1>a DEF ServerTypeOK, QuicTypeOK
<1>c. CASE UNCHANGED <<run, listening, pside>>
  BY <1>c DEF Closed
<1>1. ASSUME NEW s \in Streams, HandlerStep(s) \/ AcceptBi(s) PROVE Closed'
  BY <1>1, <1>c, HandlerStream, AcceptKeeps DEF Frame
<1>2. CASE LoopStep
  <2>1. CASE RunEnds \/ EndpointLost
    BY <1>b, <2>1 DEF RunEnds, EndpointLost, Closed
  <2>2. CASE Shutdown \/ PollCancelled \/ RunPark \/ RunWake
    BY <2>2 DEF Shutdown, PollCancelled, RunPark, RunWake, Closed, quicVars
  <2>3. ASSUME NEW c \in Conns, RunAccept(c) \/ ConnectionStep(c) PROVE Closed'
    BY <2>3 DEF RunAccept, ConnectionStep, Connected, ConnectionEnds, Closed, quicVars
  <2>4. ASSUME NEW h \in Hash, ChangeFile(h) PROVE Closed'
    BY <1>c, <2>4 DEF ChangeFile, quicVars, tasks
  <2> QED
    BY <1>2, <2>1, <2>2, <2>3, <2>4 DEF LoopStep, RunStep
<1>3. CASE Outside
  BY <1>3 DEF Outside, Closed, providerVars
<1> QED
  BY <1>1, <1>2, <1>3, StepKinds

\* Nothing can be sent on a connection that is not open.
LEMMA ClosedSilent ==
    ASSUME ServeInv, NEW s \in Streams, HandlerStep(s), pside[ConnOf[s]] # "open"
    PROVE  UNCHANGED down
<1>a. down \in [Streams -> Seq(Items)]
  BY DEF ServeInv, ServerTypeOK, QuicTypeOK
<1>b. ~CanSendDown(s)
  BY DEF CanSendDown
<1>c. DropWriter(s) => UNCHANGED down
  BY <1>a DEF DropWriter
<1>1. CASE ReadHandshake(s) \/ ReadRequest(s) \/ ReadExtra(s) \/ ReadError(s)
  BY <1>1, <1>c, Zenon DEF ReadHandshake, ReadRequest, ReadExtra, ReadError, ReadingFails,
     Panics, OnlyRead
<1>2. CASE WriteNotFound(s) \/ WriteFoundCollection(s) \/ WriteCollection(s)
           \/ WriteFound(s) \/ WriteBlobNotFound(s) \/ RepeatNotFound(s) \/ CopyItem(s)
  BY <1>2, <1>b DEF WriteNotFound, WriteFoundCollection, WriteCollection, WriteFound,
     WriteBlobNotFound, RepeatNotFound, CopyItem
<1>3. CASE NotFoundFails(s) \/ OpenFileFails(s) \/ CopyFails(s) \/ WriteFails(s) \/ Finish(s)
  BY <1>3, <1>c, Zenon DEF NotFoundFails, OpenFileFails, CopyFails, WriteFails, Finish,
     TransferFails
<1>4. CASE OpenFile(s) \/ FinishDone(s)
  BY <1>4 DEF OpenFile, FinishDone, quicVars
<1> QED
  BY <1>1, <1>2, <1>3, <1>4 DEF HandlerStep

\* Nothing is sent once the endpoint is closed.
LEMMA SilentStep ==
    ASSUME ServeInv, Closed, ServerStep, run = "done"
    PROVE  UNCHANGED down
<1>1. ASSUME NEW s \in Streams, HandlerStep(s) PROVE UNCHANGED down
  <2>1. pside[ConnOf[s]] # "open"
    BY QuicAssumption DEF Closed
  <2> QED
    BY <1>1, <2>1, ClosedSilent
<1>2. ASSUME NEW s \in Streams, AcceptBi(s) PROVE UNCHANGED down
  BY <1>2 DEF AcceptBi, quicVars
<1>3. CASE LoopStep
  BY <1>3, LoopKeeps DEF ServeInv
<1>4. CASE Outside
  BY <1>4 DEF Outside
<1> QED
  BY <1>1, <1>2, <1>3, <1>4, StepKinds

(***************************************************************************)
(* Aborted requests.                                                       *)
(***************************************************************************)
\* The logs that end in an abort with a request id differ from all others.
LEMMA AbortDiffers ==
    /\ Append(RR, TransferAborted) \notin {<<>>, CC, RR, Append(CC, EarlyAborted)}
    /\ Append(RR, TransferAborted) # Append(RR, TransferCompleted)
    /\ TransferAborted \notin Range(<<>>) /\ TransferAborted \notin Range(CC)
    /\ TransferAborted \notin Range(RR)
    /\ TransferAborted \notin Range(Append(CC, EarlyAborted))
    /\ TransferAborted \notin Range(Append(RR, TransferCompleted))
<1>a. TransferAborted \notin {ClientConnected, RequestReceived, TransferCompleted, EarlyAborted}
  BY DEF ClientConnected, RequestReceived, TransferCompleted, TransferAborted, EarlyAborted
<1>1. /\ CC \in Seq(Events) /\ Len(CC) = 1 /\ CC[1] = ClientConnected
      /\ RR \in Seq(Events) /\ Len(RR) = 2 /\ RR[1] = ClientConnected /\ RR[2] = RequestReceived
  BY DEF CC, RR, Events
<1>2. TransferAborted \in Events /\ TransferCompleted \in Events /\ EarlyAborted \in Events
  BY DEF Events
<1> DEFINE A == Append(RR, TransferAborted)
           C == Append(RR, TransferCompleted)
           E == Append(CC, EarlyAborted)
<1>b. \A q \in Seq(Events) : \A e \in Events :
        /\ Append(q, e) \in Seq(Events) /\ Len(Append(q, e)) = Len(q) + 1
        /\ Append(q, e)[Len(q) + 1] = e
        /\ \A k \in 1..Len(q) : Append(q, e)[k] = q[k]
  OBVIOUS
<1>x. A \in Seq(Events) /\ Len(A) = Len(RR) + 1 /\ A[Len(RR) + 1] = TransferAborted
  BY <1>1, <1>2, <1>b
<1>y. /\ C \in Seq(Events) /\ Len(C) = Len(RR) + 1 /\ C[Len(RR) + 1] = TransferCompleted
      /\ \A k \in 1..Len(RR) : C[k] = RR[k]
  BY <1>1, <1>2, <1>b
<1>z. /\ E \in Seq(Events) /\ Len(E) = Len(CC) + 1 /\ E[Len(CC) + 1] = EarlyAborted
      /\ \A k \in 1..Len(CC) : E[k] = CC[k]
  BY <1>1, <1>2, <1>b
<1> HIDE DEF A, C, E
<1>3. /\ A \in Seq(Events) /\ Len(A) = 3 /\ A[3] = TransferAborted
      /\ C \in Seq(Events) /\ Len(C) = 3 /\ C[1] = ClientConnected /\ C[2] = RequestReceived
      /\ C[3] = TransferCompleted
      /\ E \in Seq(Events) /\ Len(E) = 2 /\ E[1] = ClientConnected /\ E[2] = EarlyAborted
  BY <1>1, <1>x, <1>y, <1>z
<1>4. A \notin {<<>>, CC, RR, E} /\ A # C
  <2>1. A # C
    BY <1>3, <1>a
  <2>2. Len(A) # Len(CC) /\ Len(A) # Len(RR) /\ Len(A) # Len(E)
    BY <1>1, <1>3
  <2>3. A # CC /\ A # RR /\ A # E
    BY <2>2, Zenon
  <2>4. A # <<>>
    BY <1>3
  <2> QED
    BY <2>1, <2>3, <2>4
<1>5. ASSUME NEW q \in Seq(Events), \A k \in 1..Len(q) : q[k] # TransferAborted
      PROVE  TransferAborted \notin Range(q)
  BY <1>5 DEF Range
<1>6. /\ TransferAborted \notin Range(<<>>) /\ TransferAborted \notin Range(CC)
      /\ TransferAborted \notin Range(RR)
      /\ TransferAborted \notin Range(E) /\ TransferAborted \notin Range(C)
  <2>1. \A k \in 1..Len(CC) : CC[k] # TransferAborted
    BY <1>1, <1>a
  <2>2. \A k \in 1..Len(RR) : RR[k] # TransferAborted
    BY <1>1, <1>a
  <2>3. \A k \in 1..Len(E) : E[k] # TransferAborted
    BY <1>3, <1>a
  <2>4. \A k \in 1..Len(C) : C[k] # TransferAborted
    BY <1>3, <1>a
  <2>5. TransferAborted \notin Range(<<>>)
    BY DEF Range
  <2> QED
    BY <1>1, <1>3, <1>5, <2>1, <2>2, <2>3, <2>4, <2>5
<1> QED
  BY <1>4, <1>6 DEF A, C, E

\* A request reported aborted is one that was refused or whose handler has
\* returned, and that was read completely.
LEMMA AbortLogged ==
    ASSUME ServeInv, NEW s \in Streams
    PROVE  /\ log[s] = Append(RR, TransferAborted) => hs[s] \in Refusing \cup {"done"} /\ Asked(s)
           /\ Reported(s, TransferAborted) => log[s] = Append(RR, TransferAborted)
<1>1. log[s] \in LegalLog(hs[s]) /\ hs[s] \in HandlerStates /\ ReadAt(s)
  BY DEF ServeInv, EventProtocol, ServerTypeOK, ProviderTypeOK, StreamAt
<1>2. ASSUME hs[s] \notin Refusing \cup {"done"}
      PROVE  log[s] \in {<<>>, CC, RR}
  BY <1>1, <1>2, LegalStates
  DEF HandlerStates, Reading, Writing, Awaiting, Refusing
<1>3. ASSUME hs[s] \in Refusing \cup {"done"}
      PROVE  log[s] \in {Append(CC, EarlyAborted), Append(RR, TransferAborted),
                         Append(RR, TransferCompleted)}
  BY <1>1, <1>3, LegalStates DEF Refusing
<1>4. ASSUME log[s] = Append(RR, TransferAborted)
      PROVE  hs[s] \in Refusing \cup {"done"} /\ Asked(s)
  <2>1. hs[s] \in Refusing \cup {"done"}
    BY <1>2, <1>4, AbortDiffers, Zenon
  <2>2. log[s] # Append(CC, EarlyAborted)
    BY <1>4, AbortDiffers, Zenon
  <2> QED
    BY <1>1, <2>1, <2>2 DEF ReadAt
<1>5. Reported(s, TransferAborted) => log[s] = Append(RR, TransferAborted)
  <2>1. log[s] \in {<<>>, CC, RR, Append(CC, EarlyAborted), Append(RR, TransferAborted),
                    Append(RR, TransferCompleted)}
    BY <1>2, <1>3, Zenon
  <2> QED
    BY <2>1, AbortDiffers, Zenon DEF Reported
<1> QED
  BY <1>4, <1>5

\* A stream about which nothing new is reported keeps its cause: what caused
\* an abort cannot be undone.
LEMMA CauseKept ==
    ASSUME ServeInv, NEW s \in Streams, CauseAt(s), UNCHANGED log[s], Grown(s),
           FilesIntact' => FilesIntact, stopped[s] \subseteq stopped'[s],
           pside[ConnOf[s]] = "down" => pside'[ConnOf[s]] = "down"
    PROVE  CauseAt(s)'
<1>1. CASE log[s] = Append(RR, TransferAborted)
  <2>1. Asked(s)
    BY <1>1, AbortLogged
  <2>2. 2 \in 1..Len(up[s])
    BY <2>1 DEF Asked, Requested, ServeInv, ServerTypeOK, QuicTypeOK
  <2>3. Name(s)' = Name(s)
    BY <2>2 DEF Grown, Name
  <2> QED
    BY <1>1, <2>3 DEF CauseAt, Servable
<1>2. CASE log[s] # Append(RR, TransferAborted)
  BY <1>2 DEF CauseAt
<1> QED
  BY <1>1, <1>2

\* The handler itself reports an abort of a request that can be served only
\* with a cause.
LEMMA CauseHandler ==
    ASSUME ServeInv, ServeInv', NEW s \in Streams, CauseAt(s), HandlerStep(s)
    PROVE  CauseAt(s)'
<1>a. ServerTypeOK /\ ReadAt(s) /\ IndexAt(s) /\ Frame(s) /\ EventProtocol
  BY HandlerStream DEF ServeInv, StreamAt
<1>b. UNCHANGED <<up, pside, file>> /\ stopped[s] \subseteq stopped'[s]
  BY <1>a DEF Frame
<1>c. CASE UNCHANGED log
  <2>1. Grown(s)
    BY <1>a, <1>b DEF Grown, ServerTypeOK, QuicTypeOK
  <2> QED
    BY <1>b, <1>c, <2>1, CauseKept DEF FilesIntact
<1>d. CASE ~(FilesIntact /\ Servable(Name(s)))
  BY <1>b, <1>d DEF CauseAt, FilesIntact, Servable, Name
<1>e. CASE SendDownFails(s)
  BY <1>b, <1>e DEF SendDownFails, CauseAt
<1>f. CASE hs'[s] \notin Refusing \cup {"done"}
  <2>1. log'[s] \in LegalLog(hs'[s]) /\ hs'[s] \in HandlerStates
    BY DEF ServeInv, EventProtocol, ServerTypeOK, ProviderTypeOK
  <2>2. log'[s] \in {<<>>, CC, RR}
    BY <1>f, <2>1, LegalStates DEF HandlerStates, Reading, Writing, Awaiting, Refusing
  <2>3. log'[s] # Append(RR, TransferAborted)
    BY <2>2, AbortDiffers, Zenon
  <2> QED
    BY <2>3 DEF CauseAt
<1>g. hs \in [Streams -> HandlerStates] /\ log \in [Streams -> Seq(Events)]
  BY <1>a DEF ServerTypeOK, ProviderTypeOK
<1>h. ASSUME ReadingFails(s), hs[s] \in Reading PROVE CauseAt(s)'
  <2>1. log'[s] = Append(CC, EarlyAborted)
    BY <1>a, <1>g, <1>h, LegalStates DEF ReadingFails, Emit, EventProtocol
  <2> QED
    BY <2>1, AbortDiffers DEF CauseAt
<1>1. CASE ReadHandshake(s) \/ ReadRequest(s)
  <2>1. hs[s] \in Reading
    BY <1>1 DEF ReadHandshake, ReadRequest, Reading
  <2> QED
    BY <1>1, <1>c, <1>h, <2>1 DEF ReadHandshake, ReadRequest, Panics
<1>2. CASE ReadExtra(s)
  <2>1. hs[s] \in Reading
    BY <1>2 DEF ReadExtra, Reading
  <2>2. CASE Goto(s, "found")
    BY <1>f, <1>g, <2>2 DEF Goto, Refusing
  <2>3. CASE Stored[Name(s)] # "collection"
    BY <1>d, <2>3 DEF Servable
  <2> QED
    BY <1>2, <1>h, <2>1, <2>2, <2>3 DEF ReadExtra
<1>3. CASE ReadError(s)
  BY <1>3, <1>h DEF ReadError
<1>4. CASE WriteNotFound(s) \/ NotFoundFails(s) \/ WriteFoundCollection(s)
           \/ WriteCollection(s) \/ WriteFound(s) \/ WriteBlobNotFound(s)
           \/ RepeatNotFound(s) \/ OpenFile(s) \/ CopyItem(s) \/ Finish(s)
  BY <1>4, <1>c DEF WriteNotFound, NotFoundFails, WriteFoundCollection, WriteCollection,
     WriteFound, WriteBlobNotFound, RepeatNotFound, OpenFile, CopyItem, Finish
<1>5. CASE OpenFileFails(s) \/ CopyFails(s)
  <2>1. hs[s] \in {"open", "copy"} /\ file[Blob(s)] # "intact"
    BY <1>5 DEF OpenFileFails, CopyFails
  <2>2. Blob(s) \in Hash
    BY <1>a, <2>1, ServedName DEF IndexAt, Serving
  <2> QED
    BY <1>d, <2>1, <2>2 DEF FilesIntact
<1>6. CASE WriteFails(s)
  BY <1>6, <1>e DEF WriteFails
<1>7. CASE FinishDone(s)
  <2>1. CASE hs[s] = "finish"
    <3>1. log[s] = RR
      BY <1>a, <2>1, LegalStates DEF EventProtocol
    <3>2. log'[s] = Append(RR, TransferCompleted)
      BY <1>7, <1>g, <2>1, <3>1 DEF FinishDone, Emit
    <3> QED
      BY <3>2, AbortDiffers DEF CauseAt
  <2>2. CASE hs[s] = "bnfFinish"
    <3>1. HasBlob(s) /\ Stored[Blob(s)] # "blob" /\ BlobsOf(s) \in Seq(Hash) /\ bi[s] \in Nat
      BY <1>a, <2>2, ServedName DEF IndexAt, Serving
    <3>2. bi[s] + 1 \in DOMAIN BlobsOf(s)
      BY <3>1 DEF HasBlob
    <3>3. ~Servable(Name(s))
      BY <3>1, <3>2 DEF Servable, Blob, BlobsOf
    <3> QED
      BY <1>d, <3>3
  <2>3. CASE hs[s] = "nfFinish"
    BY <1>7, <1>c, <2>3 DEF FinishDone
  <2> QED
    BY <1>7, <2>1, <2>2, <2>3 DEF FinishDone, Awaiting
<1> QED
  BY <1>1, <1>2, <1>3, <1>4, <1>5, <1>6, <1>7 DEF HandlerStep

\* What the rest of the system leaves of a connection: an end that is down
\* stays down, and no file becomes intact again.
LEMMA CauseOutside ==
    ASSUME ServerTypeOK, Unconnected, LoopStep \/ Outside
    PROVE  /\ Unconnected'
           /\ FilesIntact' => FilesIntact
           /\ \A c \in Conns : pside[c] = "down" => pside'[c] = "down"
           /\ \A s \in Streams : stopped[s] \subseteq stopped'[s]
<1>a. /\ pside \in [Conns -> {"none", "refused", "open", "down"}]
      /\ cside \in [Conns -> {"none", "connecting", "open", "down"}]
      /\ stopped \in [Streams -> SUBSET Directions]
      /\ file \in [Hash -> {"intact", "modified", "truncated", "missing"}]
  BY DEF ServerTypeOK, QuicTypeOK, ProviderTypeOK
<1> DEFINE Kept == /\ Unconnected'
                   /\ FilesIntact' => FilesIntact
                   /\ \A c \in Conns : pside[c] = "down" => pside'[c] = "down"
                   /\ \A s \in Streams : stopped[s] \subseteq stopped'[s]
<1> SUFFICES Kept
  OBVIOUS
<1>b. CASE UNCHANGED <<pside, cside, stopped, file>>
  BY <1>b DEF Unconnected, FilesIntact
<1>1. CASE LoopStep
  <2>1. CASE RunEnds \/ EndpointLost
    BY <1>a, <2>1 DEF RunEnds, EndpointLost, Unconnected, FilesIntact, wire
  <2>2. CASE Shutdown \/ PollCancelled \/ RunPark \/ RunWake
    BY <1>b, <2>2 DEF Shutdown, PollCancelled, RunPark, RunWake, quicVars
  <2>3. ASSUME NEW c \in Conns, RunAccept(c) \/ ConnectionStep(c) PROVE Kept
    BY <1>b, <2>3 DEF RunAccept, ConnectionStep, Connected, ConnectionEnds, quicVars
  <2>4. ASSUME NEW h \in Hash, ChangeFile(h) PROVE Kept
    <3>1. UNCHANGED <<pside, cside, stopped>>
      BY <2>4 DEF ChangeFile, quicVars
    <3>2. file[h] = "intact" /\ \A g \in Hash \ {h} : file'[g] = file[g]
      BY <1>a, <2>4 DEF ChangeFile
    <3>3. FilesIntact' => FilesIntact
      BY <3>2 DEF FilesIntact
    <3> QED
      BY <3>1, <3>3 DEF Unconnected
  <2> QED
    BY <1>1, <2>1, <2>2, <2>3, <2>4 DEF LoopStep, RunStep
<1>2. CASE Outside
  BY <1>2 DEF Outside, providerVars, FilesIntact
<1> QED
  BY <1>1, <1>2

\* What clients have sent stays, in every step.
LEMMA AlwaysGrown ==
    ASSUME ServerTypeOK, LoopStep \/ Outside, NEW s \in Streams
    PROVE  Grown(s)
<1>1. CASE LoopStep
  BY <1>1, LoopKeeps DEF Grown, ServerTypeOK, QuicTypeOK
<1>2. CASE Outside
  BY <1>2 DEF Outside
<1> QED
  BY <1>1, <1>2

\* Every step keeps the causes.
LEMMA AbortStep ==
    ASSUME ServeInv, ServeInv', AbortInv, ServerStep
    PROVE  AbortInv'
<1>a. ServerTypeOK /\ Unconnected /\ \A s \in Streams : CauseAt(s)
  BY DEF ServeInv, AbortInv
<1>1. ASSUME NEW s \in Streams, HandlerStep(s) \/ AcceptBi(s) PROVE AbortInv'
  <2>1. Frame(s)
    BY <1>1, HandlerStream, AcceptKeeps
  <2>2. Unconnected'
    BY <1>a, <2>1 DEF Unconnected, Frame
  <2>3. \A t \in Streams : Grown(t)
    BY <1>a, <2>1 DEF Frame, Grown, ServerTypeOK, QuicTypeOK
  <2>4. ASSUME NEW t \in Streams \ {s} PROVE CauseAt(t)'
    BY <1>a, <2>1, <2>3, CauseKept DEF Frame, FilesIntact
  <2>5. CauseAt(s)'
    <3>1. CASE HandlerStep(s)
      BY <1>a, <3>1, CauseHandler
    <3>2. CASE AcceptBi(s)
      <4>1. log[s] \in LegalLog("none") /\ log' = [log EXCEPT ![s] = Append(@, ClientConnected)]
        BY <3>2 DEF ServeInv, AcceptBi, EventProtocol
      <4>2. log[s] = <<>> /\ log'[s] = Append(log[s], ClientConnected)
        BY <1>a, <4>1, LegalStates DEF ServerTypeOK, ProviderTypeOK
      <4>3. log'[s] = CC
        BY <4>2, LogFacts
      <4> QED
        BY <4>3, AbortDiffers DEF CauseAt
    <3> QED
      BY <1>1, <3>1, <3>2
  <2> QED
    BY <2>2, <2>4, <2>5 DEF AbortInv
<1>2. CASE LoopStep \/ Outside
  <2>1. UNCHANGED log
    BY <1>2, <1>a, LoopKeeps DEF Outside, providerVars
  <2>2. ASSUME NEW s \in Streams PROVE CauseAt(s)'
    BY <1>2, <1>a, <2>1, CauseOutside, AlwaysGrown, CauseKept, QuicAssumption
  <2> QED
    BY <1>2, <1>a, <2>2, CauseOutside DEF AbortInv
<1> QED
  BY <1>1, <1>2, StepKinds

\* At first there is nothing to be caused.
LEMMA AbortInit == QuicInit /\ ProviderInit => AbortInv
<1>1. QuicInit => Unconnected
  BY DEF QuicInit, Unconnected
<1>2. ProviderInit => \A s \in Streams : log[s] = <<>>
  BY DEF ProviderInit
<1> QED
  BY <1>1, <1>2, AbortDiffers DEF AbortInv, CauseAt

(***************************************************************************)
(* Who keeps to Outside.                                                   *)
(***************************************************************************)
\* Nothing happens.
LEMMA StutterOutside ==
    ASSUME ServerTypeOK, UNCHANGED pvars
    PROVE  Outside
BY DEF Outside, ServerTypeOK, QuicTypeOK, Grown, ClientAt, Unconnected, pvars, quicVars, providerVars

\* A client acts on its end of a connection or of a stream.
LEMMA ClientOutside ==
    ASSUME ServerTypeOK, UNCHANGED <<providerVars, listening, pside, upRd, down, acked>>, QuicTypeOK',
           \A s \in Streams :
             /\ Grown(s) /\ stopped[s] \subseteq stopped'[s]
             /\ up'[s] = up[s] \/ (cside[ConnOf[s]] = "open" /\ UNCHANGED cside),
           \A c \in Conns :
             \/ cside'[c] = cside[c] \/ cside'[c] = "down"
             \/ cside[c] = "connecting" /\ cside'[c] = "open"
    PROVE  Outside
<1>a. /\ cside \in [Conns -> {"none", "connecting", "open", "down"}]
      /\ cside' \in [Conns -> {"none", "connecting", "open", "down"}]
  BY DEF ServerTypeOK, QuicTypeOK
<1>1. ASSUME NEW s \in Streams, ClientAt(s)
      PROVE  /\ ClientAt(s)'
             /\ cside'[ConnOf[s]] = "open" => cside[ConnOf[s]] = "open" \/ up[s] = <<>>
  <2>1. ConnOf[s] \in Conns
    BY QuicAssumption
  <2> QED
    BY <1>1, <1>a, <2>1 DEF ClientAt
<1>2. Unconnected => Unconnected'
  BY <1>a DEF Unconnected
<1> QED
  BY <1>1, <1>2 DEF Outside

\* A client connects.
LEMMA ConnectOutside ==
    ASSUME ServerTypeOK, UNCHANGED providerVars, NEW c \in Conns, Connect(c)
    PROVE  Outside
<1>a. /\ pside \in [Conns -> {"none", "refused", "open", "down"}]
      /\ cside \in [Conns -> {"none", "connecting", "open", "down"}]
  BY DEF ServerTypeOK, QuicTypeOK
<1>1. UNCHANGED <<listening, up, upRd, down, downRd, acked, stopped>>
  BY DEF Connect, wire
<1>2. QuicTypeOK'
  BY <1>1 DEF ServerTypeOK, QuicTypeOK, Connect
<1>3. \A s \in Streams : Grown(s)
  BY <1>1 DEF Grown, ServerTypeOK, QuicTypeOK
<1>4. ASSUME NEW s \in Streams, ClientAt(s)
      PROVE  /\ ClientAt(s)'
             /\ cside'[ConnOf[s]] = "open" => cside[ConnOf[s]] = "open" \/ up[s] = <<>>
  <2>1. ConnOf[s] \in Conns
    BY QuicAssumption
  <2>2. cside[c] = "none" /\ cside' = [cside EXCEPT ![c] = "connecting"]
    BY DEF Connect
  <2> QED
    BY <1>1, <1>4, <1>a, <2>1, <2>2 DEF ClientAt
<1>5. Unconnected => Unconnected'
  BY <1>a DEF Unconnected, Connect
<1>6. \A d \in Conns : /\ pside[d] = "down" /\ Unconnected => pside'[d] = "down"
                       /\ pside'[d] = "open" => pside[d] = "open" \/ listening
  BY <1>a DEF Unconnected, Connect
<1> QED
  BY <1>1, <1>2, <1>3, <1>4, <1>5, <1>6 DEF Outside

\* The transport does its part.
LEMMA QuicOutside ==
    ASSUME ServerTypeOK, UNCHANGED providerVars, QuicNext
    PROVE  Outside
<1>a. /\ pside \in [Conns -> {"none", "refused", "open", "down"}]
      /\ cside \in [Conns -> {"none", "connecting", "open", "down"}]
      /\ acked \in [Streams -> SUBSET Directions]
  BY DEF ServerTypeOK, QuicTypeOK
<1>b. ASSUME NEW c \in Conns, cside' = [cside EXCEPT ![c] = "down"],
             UNCHANGED <<listening, pside, up, upRd, down, downRd, acked, stopped>>
      PROVE  Outside
  <2>1. QuicTypeOK'
    BY <1>b DEF ServerTypeOK, QuicTypeOK
  <2>2. \A s \in Streams : Grown(s) /\ stopped[s] \subseteq stopped'[s] /\ up'[s] = up[s]
    BY <1>b DEF ServerTypeOK, QuicTypeOK, Grown
  <2>3. \A d \in Conns : cside'[d] = cside[d] \/ cside'[d] = "down"
    BY <1>a, <1>b
  <2> QED
    BY <1>b, <2>1, <2>2, <2>3, ClientOutside
<1>1. ASSUME NEW s \in Streams, NEW d \in Directions, Ack(s, d) PROVE Outside
  <2>1. UNCHANGED <<listening, pside, cside, up, upRd, down, downRd, stopped>>
    BY <1>1 DEF Ack, conns
  <2>2. acked' \in [Streams -> SUBSET Directions]
    BY <1>1, <1>a DEF Ack
  <2>3. QuicTypeOK'
    BY <2>1, <2>2 DEF ServerTypeOK, QuicTypeOK
  <2>4. ASSUME NEW t \in Streams
        PROVE  /\ acked[t] \subseteq acked'[t]
               /\ "down" \in acked'[t] => "down" \in acked[t] \/ Ended(down[t])
    BY <1>1, <1>a DEF Ack, Directions
  <2>5. \A t \in Streams : Grown(t) /\ (ClientAt(t) => ClientAt(t)')
    BY <2>1 DEF Grown, ServerTypeOK, QuicTypeOK, ClientAt
  <2> QED
    BY <2>1, <2>3, <2>4, <2>5 DEF Outside, Unconnected
<1>2. ASSUME NEW c \in Conns, CloseReachesClient(c) PROVE Outside
  <2>1. /\ UNCHANGED <<listening, pside, up, upRd, down, downRd, acked, stopped>>
        /\ cside' = [cside EXCEPT ![c] = "down"]
    BY <1>2 DEF CloseReachesClient, wire
  <2> QED
    BY <1>b, <2>1
<1>3. ASSUME NEW c \in Conns, pside[c] = "open", pside' = [pside EXCEPT ![c] = "down"],
             UNCHANGED <<listening, cside, up, upRd, down, downRd, acked, stopped>>,
             cside[c] # "none"
      PROVE  Outside
  <2>1. QuicTypeOK' /\ \A s \in Streams : Grown(s) /\ (ClientAt(s) => ClientAt(s)')
    BY <1>3 DEF ServerTypeOK, QuicTypeOK, Grown, ClientAt
  <2>2. /\ Unconnected => Unconnected'
        /\ \A d \in Conns : /\ pside[d] = "down" => pside'[d] = "down"
                            /\ pside'[d] = "open" => pside[d] = "open"
    BY <1>3, <1>a DEF Unconnected
  <2> QED
    BY <1>3, <2>1, <2>2 DEF Outside
<1>4. ASSUME NEW c \in Conns, CloseReachesProvider(c) PROVE Outside
  BY <1>3, <1>4 DEF CloseReachesProvider, wire
<1>5. ASSUME NEW c \in Conns, NetworkFails(c) PROVE Outside
  <2>1. CASE pside' = [pside EXCEPT ![c] = "down"] /\ UNCHANGED cside
    BY <1>3, <1>5, <2>1 DEF NetworkFails, wire
  <2>2. CASE cside' = [cside EXCEPT ![c] = "down"] /\ UNCHANGED pside
    <3>1. UNCHANGED <<listening, pside, up, upRd, down, downRd, acked, stopped>>
      BY <1>5, <2>2 DEF NetworkFails, wire
    <3> QED
      BY <1>b, <2>2, <3>1
  <2> QED
    BY <1>5, <2>1, <2>2 DEF NetworkFails
<1> QED
  BY <1>1, <1>2, <1>4, <1>5 DEF QuicNext, Deliver


(***************************************************************************)
(* The order in which the provider sends an answer, whoever is at the      *)
(* other end: what is on a stream is always the beginning of the answer to *)
(* the request, without gap or repetition, and a transfer is reported      *)
(* completed only when all of it was sent and acknowledged.                *)
(*                                                                         *)
(* The collection is written with a single call that writes what the flow  *)
(* control window has room for, so all of this needs collections that fit  *)
(* into the window (CollectionsFit).                                       *)
(***************************************************************************)
\* Every collection is small enough to be written at once, after the
\* response that announces it.
CollectionsFit == \A h \in Collections : Segments[h] + 2 <= Window

Part(p, q) == \E r \in Seq(Items) : q = p \o r

\* The states in which the handler has not ended the stream, those in which
\* it has sent nothing, and those in which it sends the answer.
Unsent   == {"none", "nfWrite", "found"} \cup Reading
Sending  == {"found", "coll", "blob", "open", "copy"}
Unended  == Unsent \cup Sending \cup {"bnf"}

\* The request on s has been announced.
Announced(s) == log[s] \in {RR, Append(RR, TransferAborted), Append(RR, TransferCompleted)}

\* What the handler has sent of the answer, where it is.
Opening(h) == <<FoundCollection(TotalBlobsSize[h])>>
Leading(h) == Opening(h) \o Enc(h)
BlobsSent(s) == Leading(Name(s)) \o BlobStreams(BlobsOf(s))[bi[s]]
Sent(s) ==
    CASE hs[s] = "found" -> <<>>
      [] hs[s] = "coll"  -> Opening(Name(s))
      [] hs[s] = "blob"  -> BlobsSent(s)
      [] hs[s] = "open"  -> BlobsSent(s) \o <<Found>>
      [] hs[s] = "copy"  -> (BlobsSent(s) \o <<Found>>) \o SubSeq(Enc(Blob(s)), 1, ci[s])

\* The blobs already sent, and the one being sent, are stored.
StoredAt(s) ==
    /\ hs[s] \in {"none", "found", "coll"} \cup Reading => bi[s] = 0
    /\ hs[s] \in Serving => /\ bi[s] <= Len(BlobsOf(s))
                            /\ \A i \in 1..bi[s] : Stored[BlobsOf(s)[i]] = "blob"
    /\ hs[s] \in {"open", "copy"} => Stored[Blob(s)] = "blob"
    /\ hs[s] = "finish" => bi[s] = Len(BlobsOf(s))

\* The end of the stream is sent last, and acknowledged only once sent.
EndAt(s) ==
    /\ hs[s] \in Unsent => down[s] = <<>>
    /\ hs[s] \in Unended => \A k \in 1..Len(down[s]) : down[s][k] # Fin
    /\ "down" \in acked[s] => Ended(down[s])

\* While both ends are up exactly the answer so far is on the stream; when
\* the client's end goes down what is there stays a part of the answer.
SentSoFar(s) ==
    hs[s] \in Sending /\ FilesIntact /\ cside[ConnOf[s]] = "open" => down[s] = Sent(s)
PartAt(s) ==
    Announced(s) /\ FilesIntact /\ Servable(Name(s)) => Part(down[s], Answer(Name(s)))
WholeAt(s) ==
    /\ hs[s] = "finish" /\ FilesIntact /\ Ended(down[s]) => down[s] = Answer(Name(s))
    /\ log[s] = Append(RR, TransferCompleted) =>
         "down" \in acked[s] /\ (FilesIntact => down[s] = Answer(Name(s)))

OrderAt(s) ==
    StoredAt(s) /\ EndAt(s) /\ ClientAt(s) /\ SentSoFar(s) /\ PartAt(s) /\ WholeAt(s)
OrderInv == \A s \in Streams : OrderAt(s)

(***************************************************************************)
(* Induction over the number of blobs.                                     *)
(***************************************************************************)
\* Every non-empty set of numbers has a least element.
LEMMA LeastNat ==
    ASSUME NEW T, T \subseteq Nat, T # {}
    PROVE  \E x \in T : \A y \in T : x <= y
<1> DEFINE R == OpToRel(<, Nat)
<1>1. IsWellFoundedOn(R, Nat)
  BY NatLessThanWellFounded, Zenon
<1>2. \A a, b \in Nat : <<a, b>> \in R <=> a < b
  BY DEF OpToRel
<1> HIDE DEF R
<1>3. PICK x \in T : \A y \in T : ~(<<y, x>> \in R)
  BY <1>1, WFMin
<1>4. \A y \in T : y \in Nat /\ x \in Nat
  OBVIOUS
<1>5. \A y \in T : ~(y < x)
  BY <1>2, <1>3, <1>4
<1> QED
  BY <1>3, <1>4, <1>5

\* A set that holds 0 and the successors of its members holds all numbers.
LEMMA SetInduction ==
    ASSUME NEW T, 0 \in T, \A n \in Nat : n \in T => n + 1 \in T
    PROVE  Nat \subseteq T
<1> DEFINE B == Nat \ T
<1> SUFFICES ASSUME B # {} PROVE FALSE
  OBVIOUS
<1>1. PICK x \in B : \A y \in B : x <= y
  BY LeastNat
<1>2. x # 0 /\ x \in Nat /\ x - 1 \in Nat
  BY <1>1
<1>3. x - 1 \in T
  BY <1>1, <1>2
<1> QED
  BY <1>1, <1>2, <1>3

\* The recursive definition of BlobStreams has the function it describes.
LEMMA BlobStreamsUnfold ==
    ASSUME NEW bs \in Seq(Hash)
    PROVE  BlobStreams(bs) =
             [n \in 0..Len(bs) |->
                IF n = 0 THEN <<>> ELSE BlobStreams(bs)[n - 1] \o (<<Found>> \o Enc(bs[n]))]
<1> DEFINE P(f, m) == f = [n \in 0..m |->
                             IF n = 0 THEN <<>> ELSE f[n - 1] \o (<<Found>> \o Enc(bs[n]))]
           T == {m \in Nat : \E f : P(f, m)}
<1>1. 0 \in T
  <2>1. P([n \in 0..0 |-> <<>>], 0)
    OBVIOUS
  <2> QED
    BY <2>1
<1>2. ASSUME NEW m \in Nat, m \in T PROVE m + 1 \in T
  <2>1. PICK f : P(f, m)
    BY <1>2
  <2> DEFINE e(n) == <<Found>> \o Enc(bs[n])
             h == [n \in 0..(m + 1) |-> IF n <= m THEN f[n] ELSE f[m] \o e(n)]
  <2>2. f = [n \in 0..m |-> IF n = 0 THEN <<>> ELSE f[n - 1] \o e(n)]
    BY <2>1
  <2> HIDE DEF e, P
  <2>3. \A n \in 0..m : f[n] = IF n = 0 THEN <<>> ELSE f[n - 1] \o e(n)
    BY <2>2
  <2>4. /\ \A n \in 0..m : h[n] = f[n]
        /\ h[m + 1] = f[m] \o e(m + 1)
    <3>1. \A n \in 0..m : n \in 0..(m + 1) /\ n <= m
      OBVIOUS
    <3>2. m + 1 \in 0..(m + 1) /\ ~(m + 1 <= m)
      OBVIOUS
    <3> QED
      BY <3>1, <3>2, Zenon
  <2>5. h = [n \in 0..(m + 1) |-> h[n]]
    OBVIOUS
  <2> HIDE DEF h
  <2>6. ASSUME NEW n \in 0..(m + 1)
        PROVE  h[n] = IF n = 0 THEN <<>> ELSE h[n - 1] \o e(n)
    <3>1. CASE n = 0
      BY <2>3, <2>4, <3>1
    <3>2. CASE n # 0 /\ n <= m
      <4>1. n \in 0..m /\ n - 1 \in 0..m
        BY <3>2
      <4> QED
        BY <2>3, <2>4, <3>2, <4>1
    <3>3. CASE n = m + 1
      <4>1. n - 1 = m /\ n # 0 /\ m \in 0..m
        BY <3>3
      <4> QED
        BY <2>4, <3>3, <4>1
    <3> QED
      BY <3>1, <3>2, <3>3
  <2>7. h = [n \in 0..(m + 1) |-> IF n = 0 THEN <<>> ELSE h[n - 1] \o e(n)]
    BY <2>5, <2>6
  <2>8. P(h, m + 1)
    BY <2>7 DEF P, e
  <2>9. \E g : P(g, m + 1)
    BY <2>8, Zenon
  <2> QED
    BY <2>9
<1>3. Nat \subseteq T
  <2> HIDE DEF T
  <2> QED
    BY <1>1, <1>2, SetInduction
<1>4. Len(bs) \in T
  <2> HIDE DEF T
  <2> QED
    BY <1>3
<1>5. PICK f : P(f, Len(bs))
  BY <1>4
<1>6. P(BlobStreams(bs), Len(bs))
  BY <1>5 DEF BlobStreams
<1> QED
  BY <1>6

(***************************************************************************)
(* Beginnings of the answer.                                               *)
(***************************************************************************)
\* Concatenation of items is associative.
LEMMA ItemsAssoc ==
    \A p, q, u \in Seq(Items) : (p \o q) \o u = p \o (q \o u)
BY ConcatAssociative, SMTT(40)

\* A beginning of a beginning is one, and so is what comes before a part.
LEMMA PartFacts ==
    ASSUME NEW p \in Seq(Items), NEW q \in Seq(Items)
    PROVE  /\ p \o q \in Seq(Items) /\ Part(p, p \o q) /\ Part(p, p) /\ Part(<<>>, p)
           /\ \A u \in Seq(Items) : Part(p, q) /\ Part(q, u) => Part(p, u)
           /\ \A u \in Seq(Items) : Part(p, q) => Part(u \o p, u \o q)
<1>1. p \o q \in Seq(Items) /\ p \o <<>> = p /\ <<>> \o p = p /\ <<>> \in Seq(Items)
  BY ConcatProperties, ConcatEmptySeq
<1>2. Part(p, p \o q) /\ Part(p, p) /\ Part(<<>>, p)
  BY <1>1 DEF Part
<1>3. ASSUME NEW u \in Seq(Items), Part(p, q), Part(q, u) PROVE Part(p, u)
  <2>1. PICK r \in Seq(Items) : q = p \o r
    BY <1>3 DEF Part
  <2>2. PICK v \in Seq(Items) : u = q \o v
    BY <1>3 DEF Part
  <2>3. (p \o r) \o v = p \o (r \o v)
    BY ItemsAssoc, ZenonT(40)
  <2>4. u = p \o (r \o v)
    BY <2>1, <2>2, <2>3, Zenon
  <2>5. r \o v \in Seq(Items)
    OBVIOUS
  <2> QED
    BY <2>4, <2>5, Zenon DEF Part
<1>4. ASSUME NEW u \in Seq(Items), Part(p, q) PROVE Part(u \o p, u \o q)
  <2>1. PICK r \in Seq(Items) : q = p \o r
    BY <1>4 DEF Part
  <2>2. (u \o p) \o r = u \o (p \o r)
    BY ItemsAssoc, Zenon
  <2> QED
    BY <2>1, <2>2, Zenon DEF Part
<1> QED
  BY <1>1, <1>2, <1>3, <1>4

\* A beginning of a beginning is one.
LEMMA PartTrans ==
    ASSUME NEW p \in Seq(Items), NEW q \in Seq(Items), NEW u \in Seq(Items),
           Part(p, q), Part(q, u)
    PROVE  Part(p, u)
BY PartFacts

\* A beginning in the sense of SequencesExt.
LEMMA PartIsPrefix ==
    ASSUME NEW p \in Seq(Items), NEW q \in Seq(Items), Part(p, q)
    PROVE  IsPrefix(p, q)
<1>1. PICK r \in Seq(Items) : q = p \o r
  BY DEF Part
<1>2. Len(p) \in Nat /\ Len(q) \in Nat /\ Len(p) <= Len(q)
  BY <1>1, ConcatProperties
<1>3. CASE Len(p) = 0
  BY <1>2, <1>3, SubSeqEmpty DEF IsPrefix
<1>4. CASE Len(p) # 0
  <2>1. 1 \in 1..Len(p) /\ Len(p) \in 1..Len(p)
    BY <1>2, <1>4
  <2>2. SubSeq(q, 1, Len(p)) = SubSeq(p, 1, Len(p))
    BY <1>1, <2>1, SubSeqOfConcat1
  <2> QED
    BY <1>2, <2>2 DEF IsPrefix
<1> QED
  BY <1>3, <1>4

\* The encodings of the first n blobs, blob by blob.
LEMMA BlobStreamFacts ==
    ASSUME NEW bs \in Seq(Hash)
    PROVE  /\ BlobStreams(bs)[0] = <<>>
           /\ \A n \in 0..Len(bs) : BlobStreams(bs)[n] \in Seq(Items)
           /\ \A n \in 0..Len(bs) : n < Len(bs) =>
                BlobStreams(bs)[n + 1] = BlobStreams(bs)[n] \o (<<Found>> \o Enc(bs[n + 1]))
           /\ \A n \in 0..Len(bs) : Part(BlobStreams(bs)[n], BlobStreams(bs)[Len(bs)])
<1> DEFINE B == BlobStreams(bs)
           e(n) == <<Found>> \o Enc(bs[n])
           N == Len(bs)
<1>0. N \in Nat /\ 0 \in 0..N
  OBVIOUS
<1>1. B = [n \in 0..N |-> IF n = 0 THEN <<>> ELSE B[n - 1] \o e(n)]
  BY BlobStreamsUnfold
<1>2. ASSUME NEW n \in 1..N PROVE e(n) \in Seq(Items)
  <2>1. bs[n] \in Hash
    BY <1>2
  <2>2. Enc(bs[n]) \in Seq(Items) /\ <<Found>> \in Seq(Items)
    BY <2>1, ItemFacts
  <2> QED
    BY <2>2, ConcatProperties
<1> HIDE DEF B, e
<1>3. B[0] = <<>>
  BY <1>0, <1>1
<1>4. ASSUME NEW n \in 0..N, n < N PROVE B[n + 1] = B[n] \o e(n + 1)
  <2>1. n + 1 \in 0..N /\ n + 1 # 0 /\ (n + 1) - 1 = n
    BY <1>0, <1>4
  <2>2. B[n + 1] = IF n + 1 = 0 THEN <<>> ELSE B[(n + 1) - 1] \o e(n + 1)
    BY <1>1, <2>1
  <2> QED
    BY <2>1, <2>2, Zenon
<1>5. \A n \in 0..N : B[n] \in Seq(Items)
  <2> DEFINE T == {n \in Nat : n <= N => B[n] \in Seq(Items)}
  <2>1. 0 \in T
    BY <1>3, EmptySeq
  <2>2. ASSUME NEW n \in Nat, n \in T PROVE n + 1 \in T
    <3>1. CASE n + 1 <= N
      <4>1. n \in 0..N /\ n < N /\ n + 1 \in 1..N
        BY <1>0, <3>1
      <4>2. B[n] \in Seq(Items) /\ e(n + 1) \in Seq(Items)
        BY <1>2, <2>2, <4>1
      <4>3. B[n + 1] \in Seq(Items)
        BY <1>4, <4>1, <4>2, ConcatProperties
      <4> QED
        BY <4>3
    <3> QED
      BY <3>1
  <2>3. Nat \subseteq T
    <3> HIDE DEF T
    <3> QED
      BY <2>1, <2>2, SetInduction
  <2> QED
    BY <1>0, <2>3
<1>6. \A n \in 0..N : Part(B[n], B[N])
  <2> DEFINE T == {d \in Nat : d <= N => Part(B[N - d], B[N])}
  <2>1. 0 \in T
    <3>1. Part(B[N], B[N])
      BY <1>0, <1>5, PartFacts
    <3> QED
      BY <1>0, <3>1
  <2>2. ASSUME NEW d \in Nat, d \in T PROVE d + 1 \in T
    <3>1. CASE d + 1 <= N
      <4> DEFINE n == N - (d + 1)
      <4>1. n \in 0..N /\ n < N /\ n + 1 \in 1..N /\ n + 1 = N - d /\ n + 1 \in 0..N /\ N \in 0..N
        BY <1>0, <3>1
      <4>2. Part(B[n + 1], B[N])
        <5>1. d <= N => Part(B[N - d], B[N])
          BY <2>2
        <5>2. d <= N
          BY <1>0, <3>1
        <5> QED
          BY <4>1, <5>1, <5>2
      <4> HIDE DEF n
      <4>3. B[n] \in Seq(Items) /\ e(n + 1) \in Seq(Items) /\ B[N] \in Seq(Items)
            /\ B[n + 1] \in Seq(Items) /\ B[n + 1] = B[n] \o e(n + 1)
        BY <1>2, <1>4, <1>5, <4>1
      <4>4. Part(B[n], B[n + 1])
        BY <4>3, PartFacts
      <4>5. Part(B[n], B[N])
        BY <4>2, <4>3, <4>4, PartTrans
      <4> QED
        BY <4>5 DEF n
    <3> QED
      BY <3>1
  <2>3. Nat \subseteq T
    <3> HIDE DEF T
    <3> QED
      BY <2>1, <2>2, SetInduction
  <2>4. ASSUME NEW n \in 0..N PROVE Part(B[n], B[N])
    <3>1. N - n \in Nat /\ N - n <= N /\ N - (N - n) = n
      BY <1>0
    <3>2. N - n \in T
      BY <2>3, <3>1
    <3> QED
      BY <3>1, <3>2
  <2> QED
    BY <2>4
<1> QED
  BY <1>3, <1>4, <1>5, <1>6 DEF B, e

\* An encoding, item by item.
LEMMA EncFacts ==
    ASSUME NEW h \in Hash, NEW k \in 0..Segments[h]
    PROVE  /\ SubSeq(Enc(h), 1, 0) = <<>>
           /\ SubSeq(Enc(h), 1, k) \in Seq(Items)
           /\ SubSeq(Enc(h), 1, k) \o <<Enc(h)[k + 1]>> = SubSeq(Enc(h), 1, k + 1)
           /\ SubSeq(Enc(h), 1, Segments[h] + 1) = Enc(h)
           /\ Part(SubSeq(Enc(h), 1, k), Enc(h))
<1>1. /\ Segments[h] \in Nat /\ Enc(h) \in Seq(Items) /\ Len(Enc(h)) = Segments[h] + 1
      /\ k \in Nat
  BY HashAssumption, ItemFacts
<1>2. SubSeq(Enc(h), 1, 0) = <<>>
  BY SubSeqEmpty
<1>3. SubSeq(Enc(h), 1, Segments[h] + 1) = Enc(h)
  BY <1>1, SubSeqFull
<1>4. SubSeq(Enc(h), 1, k) \o <<Enc(h)[k + 1]>> = SubSeq(Enc(h), 1, k + 1)
  <2>1. 1 \in 1..Len(Enc(h)) /\ k + 1 \in 1..Len(Enc(h)) /\ (k + 1) - 1 = k
    BY <1>1
  <2>2. SubSeq(Enc(h), 1, k + 1) = SubSeq(Enc(h), 1, (k + 1) - 1) \o <<Enc(h)[k + 1]>>
    BY <1>1, <2>1, SubSeqRecursiveSecond
  <2> QED
    BY <2>1, <2>2
<1>5. SubSeq(Enc(h), 1, k) \in Seq(Items)
  <2>1. \A i \in 1..k : Enc(h)[i] \in Items
    BY <1>1
  <2> QED
    BY <1>1, <2>1, SubSeqProperties
<1>6. Part(SubSeq(Enc(h), 1, k), Enc(h))
  <2> DEFINE r == SubSeq(Enc(h), k + 1, Segments[h] + 1)
  <2>1. r \in Seq(Items)
    <3>1. \A i \in (k + 1)..(Segments[h] + 1) : Enc(h)[i] \in Items
      BY <1>1
    <3> QED
      BY <1>1, <3>1, SubSeqProperties
  <2>2. SubSeq(Enc(h), 1, k) \o r = SubSeq(Enc(h), 1, Segments[h] + 1)
    <3>1. /\ 1 \in 1..(Len(Enc(h)) + 1) /\ k \in (1 - 1)..Len(Enc(h))
          /\ Segments[h] + 1 \in k..Len(Enc(h))
      BY <1>1
    <3> QED
      BY <1>1, <3>1, ConcatAdjacentSubSeq
  <2> QED
    BY <1>3, <2>1, <2>2 DEF Part
<1> QED
  BY <1>2, <1>3, <1>4, <1>5, <1>6

\* What has been sent once n blobs are sent, and while the next one is, is a
\* beginning of the answer.
LEMMA AnswerFacts ==
    ASSUME NEW h \in Collections, NEW n \in 0..Len(Blobs[h])
    PROVE  /\ Answer(h) = (Leading(h) \o BlobStreams(Blobs[h])[Len(Blobs[h])]) \o <<Fin>>
           /\ Answer(h) \in Seq(Items) /\ Opening(h) \in Seq(Items)
           /\ Part(<<>>, Answer(h)) /\ Part(Opening(h), Answer(h))
           /\ Leading(h) = Leading(h) \o BlobStreams(Blobs[h])[0]
           /\ Leading(h) \o BlobStreams(Blobs[h])[n] \in Seq(Items)
           /\ Part(Leading(h) \o BlobStreams(Blobs[h])[n], Answer(h))
<1> DEFINE B == BlobStreams(Blobs[h])
           N == Len(Blobs[h])
           L == Leading(h)
           A == Answer(h)
           O == Opening(h)
<1>1. Blobs[h] \in Seq(Hash) /\ N \in Nat /\ h \in Hash /\ TotalBlobsSize[h] \in Nat
  BY HashAssumption
<1>2. /\ B[0] = <<>> /\ B[n] \in Seq(Items) /\ B[N] \in Seq(Items) /\ Part(B[n], B[N])
      /\ 0 \in 0..N /\ N \in 0..N
  <2>1. 0 \in 0..N /\ N \in 0..N
    BY <1>1
  <2> QED
    BY <1>1, <2>1, BlobStreamFacts
<1>3. Enc(h) \in Seq(Items) /\ <<Fin>> \in Seq(Items) /\ O \in Seq(Items)
  BY <1>1, ItemFacts DEF Opening
<1>4. A = (L \o B[N]) \o <<Fin>> /\ L = O \o Enc(h)
  BY DEF Answer, BlobStream, Leading, Opening
<1> HIDE DEF B, L, A, O, N
<1>5. /\ L \in Seq(Items) /\ L \o B[n] \in Seq(Items) /\ L \o B[N] \in Seq(Items)
      /\ A \in Seq(Items) /\ L \o <<>> = L
  BY <1>2, <1>3, <1>4, ConcatProperties, ConcatEmptySeq
<1>6. Part(L \o B[N], A)
  BY <1>3, <1>4, <1>5, PartFacts
<1>7. Part(L \o B[n], L \o B[N])
  BY <1>2, <1>5, PartFacts
<1>8. Part(L \o B[n], A)
  BY <1>5, <1>6, <1>7, PartTrans
<1>9. Part(L, L \o B[N]) /\ Part(O, L)
  BY <1>2, <1>3, <1>4, <1>5, PartFacts
<1>10. Part(L, A)
  BY <1>5, <1>6, <1>9, PartTrans
<1>11. Part(O, A)
  BY <1>3, <1>5, <1>9, <1>10, PartTrans
<1>12. Part(<<>>, A)
  BY <1>5, PartFacts
<1> QED
  BY <1>2, <1>3, <1>4, <1>5, <1>8, <1>11, <1>12 DEF B, L, A, O, N

\* The same within the next blob, up to its end.
LEMMA NextBlobFacts ==
    ASSUME NEW h \in Collections, NEW n \in 0..Len(Blobs[h]), n < Len(Blobs[h]),
           NEW k \in 0..Segments[Blobs[h][n + 1]]
    PROVE  LET X == (Leading(h) \o BlobStreams(Blobs[h])[n]) \o <<Found>>
               E == Enc(Blobs[h][n + 1])
           IN  /\ X \in Seq(Items) /\ Part(X, Answer(h))
               /\ X \o SubSeq(E, 1, 0) = X
               /\ X \o SubSeq(E, 1, k) \in Seq(Items) /\ Part(X \o SubSeq(E, 1, k), Answer(h))
               /\ (X \o SubSeq(E, 1, k)) \o <<E[k + 1]>> = X \o SubSeq(E, 1, k + 1)
               /\ X \o SubSeq(E, 1, Segments[Blobs[h][n + 1]] + 1)
                    = Leading(h) \o BlobStreams(Blobs[h])[n + 1]
<1> DEFINE b == Blobs[h][n + 1]
           Y == Leading(h) \o BlobStreams(Blobs[h])[n]
           Z == Leading(h) \o BlobStreams(Blobs[h])[n + 1]
           F == <<Found>>
           X == Y \o F
           E == Enc(b)
           I == <<E[k + 1]>>
           A == Answer(h)
<1>1. /\ Blobs[h] \in Seq(Hash) /\ Len(Blobs[h]) \in Nat /\ n + 1 \in 1..Len(Blobs[h])
      /\ n + 1 \in 0..Len(Blobs[h])
  BY HashAssumption
<1>2. b \in Hash
  BY <1>1
<1>3. Y \in Seq(Items) /\ Z \in Seq(Items) /\ A \in Seq(Items) /\ Part(Z, A)
  BY <1>1, AnswerFacts
<1>4. /\ E \in Seq(Items) /\ Len(E) = Segments[b] + 1 /\ Segments[b] \in Nat
      /\ F \in Seq(Items) /\ k + 1 \in 1..Len(E) /\ I \in Seq(Items)
  <2>1. E \in Seq(Items) /\ Len(E) = Segments[b] + 1 /\ Segments[b] \in Nat
    BY <1>2, ItemFacts, HashAssumption
  <2>2. k + 1 \in 1..Len(E)
    BY <2>1
  <2>3. E[k + 1] \in Items
    <3> HIDE DEF E
    <3> QED
      BY <2>1, <2>2
  <2> QED
    BY <2>1, <2>2, <2>3, ItemFacts
<1>5. /\ SubSeq(E, 1, 0) = <<>> /\ SubSeq(E, 1, k) \in Seq(Items)
      /\ SubSeq(E, 1, k) \o I = SubSeq(E, 1, k + 1)
      /\ SubSeq(E, 1, Segments[b] + 1) = E /\ Part(SubSeq(E, 1, k), E)
  BY <1>2, EncFacts
<1>6. Z = Y \o (F \o E)
  <2> DEFINE P == BlobStreams(Blobs[h])[n]
             L == Leading(h)
  <2>1. BlobStreams(Blobs[h])[n + 1] = P \o (F \o E)
    BY <1>1, BlobStreamFacts
  <2>2. P \in Seq(Items) /\ F \o E \in Seq(Items)
    BY <1>1, <1>4, BlobStreamFacts, ConcatProperties
  <2>3. L \in Seq(Items)
    <3>1. Enc(h) \in Seq(Items) /\ Opening(h) \in Seq(Items)
      BY ItemFacts, HashAssumption DEF Opening
    <3> QED
      BY <3>1, ConcatProperties DEF Leading
  <2>4. Z = L \o (P \o (F \o E)) /\ Y = L \o P
    BY <2>1
  <2> HIDE DEF P, L, E, F, Y, Z
  <2>5. (L \o P) \o (F \o E) = L \o (P \o (F \o E))
    BY <2>2, <2>3, ItemsAssoc, Zenon
  <2> QED
    BY <2>4, <2>5, Zenon
<1>7. X \in Seq(Items) /\ Z = X \o E
  <2> HIDE DEF Y, Z, E, F
  <2>1. X \in Seq(Items)
    BY <1>3, <1>4, ConcatProperties
  <2>a. Y \in Seq(Items) /\ F \in Seq(Items) /\ E \in Seq(Items)
    BY <1>3, <1>4, Zenon
  <2>2. (Y \o F) \o E = Y \o (F \o E)
    BY <2>a, ItemsAssoc, Zenon
  <2> QED
    BY <1>6, <2>1, <2>2, Zenon
<1> HIDE DEF X, Y, Z, E, A, b, F, I
<1>9. Part(X, Z)
  BY <1>4, <1>7, PartFacts
<1>10. Part(X, A)
  BY <1>3, <1>7, <1>9, PartTrans
<1>11. X \o SubSeq(E, 1, k) \in Seq(Items) /\ Part(X \o SubSeq(E, 1, k), Z)
  BY <1>4, <1>5, <1>7, PartFacts
<1>12. Part(X \o SubSeq(E, 1, k), A)
  BY <1>3, <1>11, PartTrans
<1>13. X \o SubSeq(E, 1, 0) = X
  BY <1>5, <1>7, ConcatEmptySeq
<1>14. (X \o SubSeq(E, 1, k)) \o I = X \o SubSeq(E, 1, k + 1)
  <2>1. (X \o SubSeq(E, 1, k)) \o I = X \o (SubSeq(E, 1, k) \o I)
    BY <1>4, <1>5, <1>7, ItemsAssoc, Zenon
  <2> QED
    BY <1>5, <2>1, Zenon
<1>15. X \o SubSeq(E, 1, Segments[b] + 1) = Z
  BY <1>5, <1>7
<1> QED
  BY <1>7, <1>10, <1>11, <1>12, <1>13, <1>14, <1>15 DEF X, Y, Z, E, A, b, F, I

(***************************************************************************)
(* What the events say about a handler.                                    *)
(***************************************************************************)
\* The logs of announced requests, and that of a completed one, differ from
\* all others.
LEMMA LogKinds ==
    /\ \A q \in {<<>>, CC, Append(CC, EarlyAborted)} :
         /\ q \notin {RR, Append(RR, TransferAborted), Append(RR, TransferCompleted)}
         /\ RequestReceived \notin Range(q) /\ TransferCompleted \notin Range(q)
    /\ \A q \in {RR, Append(RR, TransferAborted)} :
         q # Append(RR, TransferCompleted) /\ TransferCompleted \notin Range(q)
<1>a. /\ RequestReceived \notin {ClientConnected, EarlyAborted, TransferCompleted, TransferAborted}
      /\ TransferCompleted \notin {ClientConnected, EarlyAborted, RequestReceived, TransferAborted}
  BY DEF ClientConnected, RequestReceived, TransferCompleted, TransferAborted, EarlyAborted
<1>1. /\ CC \in Seq(Events) /\ Len(CC) = 1 /\ CC[1] = ClientConnected
      /\ RR \in Seq(Events) /\ Len(RR) = 2 /\ RR[1] = ClientConnected /\ RR[2] = RequestReceived
  BY DEF CC, RR, Events
<1>2. TransferAborted \in Events /\ TransferCompleted \in Events /\ EarlyAborted \in Events
  BY DEF Events
<1> DEFINE A == Append(RR, TransferAborted)
           C == Append(RR, TransferCompleted)
           E == Append(CC, EarlyAborted)
<1>b. \A q \in Seq(Events) : \A e \in Events :
        /\ Append(q, e) \in Seq(Events) /\ Len(Append(q, e)) = Len(q) + 1
        /\ Append(q, e)[Len(q) + 1] = e
        /\ \A k \in 1..Len(q) : Append(q, e)[k] = q[k]
  OBVIOUS
<1>x. /\ A \in Seq(Events) /\ Len(A) = Len(RR) + 1 /\ A[Len(RR) + 1] = TransferAborted
      /\ \A k \in 1..Len(RR) : A[k] = RR[k]
  BY <1>1, <1>2, <1>b
<1>y. /\ C \in Seq(Events) /\ Len(C) = Len(RR) + 1 /\ C[Len(RR) + 1] = TransferCompleted
      /\ \A k \in 1..Len(RR) : C[k] = RR[k]
  BY <1>1, <1>2, <1>b
<1>z. /\ E \in Seq(Events) /\ Len(E) = Len(CC) + 1 /\ E[Len(CC) + 1] = EarlyAborted
      /\ \A k \in 1..Len(CC) : E[k] = CC[k]
  BY <1>1, <1>2, <1>b
<1> HIDE DEF A, C, E
<1>3. /\ A \in Seq(Events) /\ Len(A) = 3 /\ A[1] = ClientConnected /\ A[2] = RequestReceived
      /\ A[3] = TransferAborted
  BY <1>1, <1>x
<1>4. C \in Seq(Events) /\ Len(C) = 3 /\ C[3] = TransferCompleted
  BY <1>1, <1>y
<1>5. E \in Seq(Events) /\ Len(E) = 2 /\ E[1] = ClientConnected /\ E[2] = EarlyAborted
  BY <1>1, <1>z
<1>6. ASSUME NEW q \in Seq(Events), NEW e, \A k \in 1..Len(q) : q[k] # e
      PROVE  e \notin Range(q)
  BY <1>6 DEF Range
<1>7. ASSUME NEW q \in {<<>>, CC, E}
      PROVE  /\ q \notin {RR, A, C}
             /\ RequestReceived \notin Range(q) /\ TransferCompleted \notin Range(q)
  <2>a. CC \in Seq(Events) /\ \A k \in 1..Len(CC) : CC[k] \in {ClientConnected, EarlyAborted}
    BY <1>1
  <2>b. E \in Seq(Events) /\ \A k \in 1..Len(E) : E[k] \in {ClientConnected, EarlyAborted}
    BY <1>5
  <2>c. /\ <<>> \in Seq(Events)
        /\ \A k \in 1..Len(<<>>) : <<>>[k] \in {ClientConnected, EarlyAborted}
    OBVIOUS
  <2>1. q \in Seq(Events) /\ \A k \in 1..Len(q) : q[k] \in {ClientConnected, EarlyAborted}
    BY <2>a, <2>b, <2>c, Zenon
  <2>2. RequestReceived \notin Range(q) /\ TransferCompleted \notin Range(q)
    BY <1>6, <1>a, <2>1
  <2>d. /\ Len(CC) < 3 /\ (Len(CC) = 2 => CC[2] = EarlyAborted)
        /\ Len(E) < 3 /\ (Len(E) = 2 => E[2] = EarlyAborted)
        /\ Len(<<>>) < 3 /\ Len(<<>>) # 2
    BY <1>1, <1>5
  <2>3. Len(q) < 3 /\ (Len(q) = 2 => q[2] = EarlyAborted)
    BY <2>d, Zenon
  <2>4. q # RR
    BY <1>1, <1>a, <2>3
  <2>e. Len(A) = 3 /\ Len(C) = 3
    BY <1>3, <1>4, Zenon
  <2>5. Len(q) # Len(A) /\ Len(q) # Len(C)
    BY <2>3, <2>e
  <2>6. q # A /\ q # C
    BY <2>5, Zenon
  <2> QED
    BY <2>2, <2>4, <2>6
<1>8. ASSUME NEW q \in {RR, A}
      PROVE  q # C /\ TransferCompleted \notin Range(q)
  <2>a. RR \in Seq(Events) /\ \A k \in 1..Len(RR) : RR[k] # TransferCompleted
    BY <1>1, <1>a
  <2>b. A \in Seq(Events) /\ \A k \in 1..Len(A) : A[k] # TransferCompleted
    BY <1>3, <1>a
  <2>1. q \in Seq(Events) /\ \A k \in 1..Len(q) : q[k] # TransferCompleted
    BY <2>a, <2>b, Zenon
  <2>2. 3 \in 1..Len(C)
    BY <1>4
  <2> QED
    BY <1>4, <1>6, <2>1, <2>2
<1> QED
  BY <1>7, <1>8 DEF A, C, E

\* Announced requests were read completely and are being answered or over;
\* completed ones are over.
Told(s) ==
    /\ Announced(s) <=> \/ hs[s] \in Serving \cup Refusing
                        \/ hs[s] = "done" /\ log[s] # Append(CC, EarlyAborted)
    /\ Announced(s) => Asked(s)
    /\ log[s] = Append(RR, TransferCompleted) => hs[s] = "done" /\ Announced(s)
    /\ Reported(s, RequestReceived) => Announced(s)
    /\ Reported(s, TransferCompleted) => log[s] = Append(RR, TransferCompleted)
    /\ hs[s] \in Serving => log[s] = RR

\* The log and the place of a handler determine each other, as the event
\* protocol lists them.
LEMMA AnnouncedStates == ServeInv => \A s \in Streams : Told(s)
<1> SUFFICES ASSUME ServeInv, NEW s \in Streams PROVE Told(s)
  OBVIOUS
<1> USE DEF Told
<1>1. log[s] \in LegalLog(hs[s]) /\ hs[s] \in HandlerStates /\ ReadAt(s)
  BY DEF ServeInv, EventProtocol, ServerTypeOK, ProviderTypeOK, StreamAt
<1>2. CASE hs[s] \in {"none", "panicked"} \cup Reading
  <2>1. log[s] \in {<<>>, CC}
    BY <1>1, <1>2, LegalStates
  <2> QED
    BY <1>2, <2>1, LogKinds DEF Announced, Reported, Serving, Refusing, Reading
<1>3. CASE hs[s] \in Serving
  <2>1. log[s] = RR
    BY <1>1, <1>3, LegalStates DEF Serving
  <2> QED
    BY <1>1, <1>3, <2>1, LogKinds DEF Announced, Reported, ReadAt
<1>4. CASE hs[s] \in Refusing
  <2>1. log[s] = Append(RR, TransferAborted) /\ hs[s] \notin Serving
    BY <1>1, <1>4, LegalStates DEF Refusing, Serving
  <2> QED
    BY <1>1, <1>4, <2>1, LogKinds DEF Announced, Reported, ReadAt
<1>5. CASE hs[s] = "done"
  <2>1. /\ log[s] \in {Append(CC, EarlyAborted), Append(RR, TransferAborted),
                       Append(RR, TransferCompleted)}
        /\ hs[s] \notin Serving \cup Refusing
    BY <1>1, <1>5, LegalStates DEF Serving, Refusing
  <2> QED
    BY <1>1, <1>5, <2>1, LogKinds DEF Announced, Reported, ReadAt
<1> QED
  BY <1>1, <1>2, <1>3, <1>4, <1>5 DEF HandlerStates, Reading, Writing, Awaiting, Serving, Refusing

\* The same after a step.
LEMMA AnnouncedNext == ServeInv' => (\A s \in Streams : Told(s))'
BY AnnouncedStates, PTL

\* The hash asked for, once it is known.
LEMMA AskedName ==
    ASSUME ServerTypeOK, NEW s \in Streams, Asked(s)
    PROVE  /\ Name(s) \in Hash
           /\ Stored[Name(s)] = "collection" =>
                Name(s) \in Collections /\ Blobs[Name(s)] \in Seq(Hash)
<1>1. up[s] \in Seq(Frames) /\ 2 \in 1..Len(up[s])
  BY DEF ServerTypeOK, QuicTypeOK, Asked, Requested
<1>2. up[s][2] \in Frames /\ up[s][2].t = "request"
  BY <1>1 DEF Asked, Requested
<1>3. Name(s) \in Hash
  BY <1>2 DEF Name, Frames
<1> QED
  BY <1>3, HashAssumption

(***************************************************************************)
(* The steps of a handler.                                                 *)
(***************************************************************************)
\* A stream without the end item is not ended.
LEMMA NotEnded ==
    ASSUME NEW q \in Seq(Items), \A k \in 1..Len(q) : q[k] # Fin
    PROVE  ~Ended(q)
<1> SUFFICES ASSUME q # <<>>, q[Len(q)] \in {Fin, Short} PROVE FALSE
  BY DEF Ended
<1>1. Len(q) \in 1..Len(q) /\ q[Len(q)] \in Items
  BY EmptySeq
<1>2. Short \notin Items
  BY DEF Items, Short
<1> QED
  BY <1>1, <1>2

\* Dropping the writer ends the stream at most once, and not at all when
\* writing fails.
LEMMA DropEnds ==
    ASSUME ServerTypeOK, NEW s \in Streams, DropWriter(s)
    PROVE  /\ down[s] \in Seq(Items) /\ down'[s] \in Seq(Items)
           /\ Ended(down[s]) => down'[s] = down[s]
           /\ SendDownFails(s) => down'[s] = down[s]
           /\ \/ down'[s] = down[s]
              \/ cside[ConnOf[s]] = "open" /\ down'[s] = down[s] \o <<Fin>>
<1>1. down \in [Streams -> Seq(Items)] /\ <<Fin>> \in Seq(Items) /\ Fin \in Items
  BY ItemFacts DEF ServerTypeOK, QuicTypeOK
<1>2. Append(down[s], Fin) = down[s] \o <<Fin>> /\ down[s] \o <<Fin>> \in Seq(Items)
  BY <1>1, AppendIsConcat, ConcatProperties
<1>3. down'[s] = IF /\ pside[ConnOf[s]] = "open" /\ cside[ConnOf[s]] = "open"
                    /\ "down" \notin stopped[s] /\ ~Ended(down[s])
                 THEN down[s] \o <<Fin>> ELSE down[s]
  BY <1>1, <1>2 DEF DropWriter
<1> QED
  BY <1>1, <1>2, <1>3 DEF SendDownFails

\* What one write does to a stream.
LEMMA SendEffect ==
    ASSUME ServerTypeOK, NEW s \in Streams, NEW q \in Seq(Items), SendDown(s, q)
    PROVE  down'[s] = IF cside[ConnOf[s]] = "open" THEN down[s] \o q ELSE down[s]
BY DEF SendDown, ServerTypeOK, QuicTypeOK

\* The steps of a handler leave the request, the files, the client's end and
\* the acknowledgements alone.
Still == UNCHANGED <<up, file, cside, acked>>

\* So they leave alone what the answer is made from.
LEMMA StillFacts ==
    ASSUME Still, NEW s \in Streams
    PROVE  /\ Name(s)' = Name(s) /\ BlobsOf(s)' = BlobsOf(s) /\ FilesIntact' = FilesIntact
           /\ Asked(s)' = Asked(s)
           /\ Answer(Name(s))' = Answer(Name(s)) /\ Servable(Name(s))' = Servable(Name(s))
           /\ ClientAt(s) => ClientAt(s)'
<1>1. Name(s)' = Name(s)
  BY DEF Still, Name
<1> QED
  BY <1>1 DEF Still, BlobsOf, Name, FilesIntact, ClientAt, Asked, Requested, Greeted

\* A stream on which the end was not sent is not acknowledged.
LEMMA NotAcked ==
    ASSUME ServerTypeOK, NEW s \in Streams, EndAt(s), hs[s] \in Unended
    PROVE  "down" \notin acked[s]
BY NotEnded DEF EndAt, ServerTypeOK, QuicTypeOK

\* A handler that has announced no request, or refused it, has sent nothing
\* of an answer.
LEMMA OrderUnsent ==
    ASSUME ServeInv, ServeInv', NEW s \in Streams, Still, OrderAt(s),
           hs[s] \in Unended, hs'[s] \in {"handshake", "request", "extra", "nfWrite"},
           bi'[s] = 0, down'[s] = <<>>
    PROVE  OrderAt(s)'
<1>1. "down" \notin acked'[s]
  BY NotAcked DEF OrderAt, Still, ServeInv
<1>2. EndAt(s)'
  BY <1>1 DEF EndAt
<1>3. StoredAt(s)' /\ SentSoFar(s)'
  BY DEF StoredAt, SentSoFar, Serving, Sending
<1>4. log'[s] # Append(RR, TransferCompleted)
  BY AnnouncedNext DEF Told
<1>5. WholeAt(s)'
  BY <1>4 DEF WholeAt
<1>6. Announced(s)' => ~Servable(Name(s))'
  <2>1. Announced(s)' => hs'[s] = "nfWrite"
    BY AnnouncedNext DEF Told, Serving, Refusing
  <2>2. hs'[s] = "nfWrite" => Stored[Name(s)'] # "collection"
    BY DEF ServeInv, StreamAt, ReadAt, Refusing
  <2> QED
    BY <2>1, <2>2 DEF Servable
<1>7. PartAt(s)'
  BY <1>6 DEF PartAt
<1> QED
  BY <1>2, <1>3, <1>5, <1>7, StillFacts DEF OrderAt

\* The answer begins with nothing sent.
LEMMA OrderFound ==
    ASSUME ServeInv, ServeInv', NEW s \in Streams, Still, OrderAt(s),
           hs[s] = "extra", hs'[s] = "found", bi'[s] = 0, down'[s] = <<>>
    PROVE  OrderAt(s)'
<1>1. "down" \notin acked'[s]
  BY NotAcked DEF OrderAt, Still, ServeInv, Unended, Unsent, Reading
<1>2. EndAt(s)'
  BY <1>1 DEF EndAt
<1>3. ServerTypeOK /\ Asked(s) /\ Stored[Name(s)] = "collection"
  <2>1. Asked(s)' /\ Stored[Name(s)'] = "collection"
    BY DEF ServeInv, StreamAt, ReadAt, Serving
  <2> QED
    BY <2>1, StillFacts DEF ServeInv
<1>4. Name(s) \in Collections /\ Blobs[Name(s)] \in Seq(Hash)
  BY <1>3, AskedName
<1>5. StoredAt(s)'
  BY <1>4, StillFacts DEF StoredAt, BlobsOf
<1>6. SentSoFar(s)'
  BY DEF SentSoFar, Sent
<1>7. log'[s] # Append(RR, TransferCompleted)
  BY AnnouncedNext DEF Told
<1>8. WholeAt(s)'
  BY <1>7 DEF WholeAt
<1>9. Part(<<>>, Answer(Name(s)))
  <2>1. 0 \in 0..Len(Blobs[Name(s)])
    BY <1>4
  <2> QED
    BY <1>4, <2>1, AnswerFacts
<1>10. PartAt(s)'
  BY <1>9, StillFacts DEF PartAt
<1> QED
  BY <1>2, <1>5, <1>6, <1>8, <1>10, StillFacts DEF OrderAt

\* One step of the answer: q is sent, and is what the answer goes on with.
LEMMA OrderSends ==
    ASSUME ServeInv, ServeInv', NEW s \in Streams, Still, OrderAt(s),
           hs[s] \in Sending, hs'[s] \in Sending \ {"found"},
           NEW q \in Seq(Items),
           \A k \in 1..Len(q) : q[k] # Fin,
           down'[s] = IF cside[ConnOf[s]] = "open" THEN down[s] \o q ELSE down[s],
           StoredAt(s)',
           FilesIntact => Sent(s)' = Sent(s) \o q,
           FilesIntact /\ Servable(Name(s)) => Part(Sent(s)', Answer(Name(s)))
    PROVE  OrderAt(s)'
<1>1. "down" \notin acked'[s]
  BY NotAcked DEF OrderAt, Still, ServeInv, Unended
<1>2. down[s] \in Seq(Items) /\ \A k \in 1..Len(down[s]) : down[s][k] # Fin
  BY DEF ServeInv, ServerTypeOK, QuicTypeOK, OrderAt, EndAt, Unended
<1>3. \A k \in 1..Len(down[s] \o q) : (down[s] \o q)[k] # Fin
  <2>1. /\ Len(down[s] \o q) = Len(down[s]) + Len(q)
        /\ \A k \in 1..(Len(down[s]) + Len(q)) :
             (down[s] \o q)[k] = IF k <= Len(down[s]) THEN down[s][k] ELSE q[k - Len(down[s])]
    BY <1>2, ConcatProperties
  <2>2. Len(down[s]) \in Nat /\ Len(q) \in Nat
    BY <1>2
  <2> QED
    BY <1>2, <2>1, <2>2
<1>4. EndAt(s)'
  BY <1>1, <1>2, <1>3 DEF EndAt, Sending, Unsent, Reading
<1>5. hs[s] \in Serving /\ hs'[s] \in Serving /\ hs'[s] # "finish"
  BY DEF Sending, Serving
<1>6. Announced(s)
  BY <1>5, AnnouncedStates DEF Told
<1>7. WholeAt(s)'
  <2>1. log'[s] # Append(RR, TransferCompleted)
    BY <1>5, AnnouncedNext DEF Told, Serving
  <2> QED
    BY <1>5, <2>1 DEF WholeAt
<1>8. FilesIntact /\ cside[ConnOf[s]] = "open" => down'[s] = Sent(s)'
  BY DEF OrderAt, SentSoFar
<1>9. SentSoFar(s)'
  BY <1>8, StillFacts DEF SentSoFar, Still
<1>10. PartAt(s)'
  <2> SUFFICES ASSUME FilesIntact, Servable(Name(s)) PROVE Part(down'[s], Answer(Name(s)))
    BY StillFacts DEF PartAt
  <2>1. CASE cside[ConnOf[s]] = "open"
    BY <1>8, <2>1
  <2>2. CASE cside[ConnOf[s]] # "open"
    BY <1>6, <2>2 DEF OrderAt, PartAt
  <2> QED
    BY <2>1, <2>2
<1> QED
  BY <1>4, <1>7, <1>9, <1>10, StillFacts DEF OrderAt

\* A request that is refused, or cannot be served to the end, has no answer
\* to compare with.
LEMMA OrderRefused ==
    ASSUME ServeInv, ServeInv', NEW s \in Streams, Still, OrderAt(s),
           hs[s] \in {"nfWrite", "blob", "bnf"}, hs'[s] \in {"nfFinish", "bnf", "bnfFinish"},
           hs'[s] = "bnf" => \A k \in 1..Len(down'[s]) : down'[s][k] # Fin,
           StoredAt(s)', ~Servable(Name(s))
    PROVE  OrderAt(s)'
<1>1. "down" \notin acked'[s]
  BY NotAcked DEF OrderAt, Still, ServeInv, Unended, Unsent, Sending
<1>2. EndAt(s)'
  BY <1>1 DEF EndAt, Unended, Unsent, Reading, Sending
<1>3. log'[s] # Append(RR, TransferCompleted)
  BY AnnouncedNext DEF Told
<1>4. WholeAt(s)' /\ SentSoFar(s)'
  BY <1>3 DEF WholeAt, SentSoFar, Sending
<1>5. PartAt(s)'
  BY StillFacts DEF PartAt
<1> QED
  BY <1>2, <1>4, <1>5, StillFacts DEF OrderAt

\* A handler that gives up leaves what it has sent, or ends it where there
\* is no answer to compare with.
LEMMA OrderEnds ==
    ASSUME ServeInv, ServeInv', NEW s \in Streams, Still, OrderAt(s), DropWriter(s),
           hs'[s] \in {"done", "panicked"}, log'[s] # Append(RR, TransferCompleted),
           \/ Announced(s) /\ SendDownFails(s)
           \/ ~(FilesIntact /\ Servable(Name(s)))
           \/ ~Announced(s)'
    PROVE  OrderAt(s)'
<1>1. /\ Ended(down[s]) => down'[s] = down[s]
      /\ SendDownFails(s) => down'[s] = down[s]
  BY DropEnds DEF ServeInv
<1>2. EndAt(s)'
  BY <1>1 DEF OrderAt, EndAt, Still, Unsent, Unended, Reading, Sending
<1>3. StoredAt(s)' /\ SentSoFar(s)' /\ WholeAt(s)'
  BY DEF StoredAt, SentSoFar, WholeAt, Sending, Serving, Reading
<1>4. PartAt(s)'
  BY <1>1, StillFacts DEF OrderAt, PartAt
<1> QED
  BY <1>2, <1>3, <1>4, StillFacts DEF OrderAt

\* finish() completes the answer, if the client's end is still up.
LEMMA OrderFinish ==
    ASSUME ServeInv, ServeInv', NEW s \in Streams, Still, OrderAt(s), Finish(s)
    PROVE  OrderAt(s)'
<1> DEFINE h == Name(s)
           N == Len(Blobs[h])
<1>1. /\ ServerTypeOK /\ hs[s] = "blob" /\ hs'[s] = "finish" /\ bi'[s] = bi[s] /\ DropWriter(s)
      /\ ~HasBlob(s)
  BY DEF ServeInv, ServerTypeOK, ProviderTypeOK, Finish, Goto
<1>2. h \in Collections /\ Blobs[h] \in Seq(Hash) /\ N \in Nat /\ bi[s] \in Nat
  BY <1>1, ServedName DEF ServeInv, StreamAt, Serving, BlobsOf
<1>3. bi[s] = N /\ \A i \in 1..N : Stored[Blobs[h][i]] = "blob"
  BY <1>1, <1>2 DEF OrderAt, StoredAt, HasBlob, BlobsOf, Serving
<1>4. Servable(h)
  BY <1>1, <1>2, <1>3 DEF Servable, ServeInv, StreamAt, ReadAt, Serving
<1>5. StoredAt(s)'
  BY <1>1, <1>2, <1>3, StillFacts DEF StoredAt, BlobsOf, Reading
<1>6. /\ down[s] \in Seq(Items) /\ \A k \in 1..Len(down[s]) : down[s][k] # Fin
      /\ ~Ended(down[s]) /\ "down" \notin acked[s]
  BY <1>1, NotEnded, NotAcked DEF ServerTypeOK, QuicTypeOK, OrderAt, EndAt, Unended, Sending
<1>7. EndAt(s)'
  BY <1>1, <1>6 DEF EndAt, Still, Unsent, Unended, Reading, Sending
<1>8. \/ down'[s] = down[s]
      \/ cside[ConnOf[s]] = "open" /\ down'[s] = down[s] \o <<Fin>>
  BY <1>1, DropEnds
<1>9. FilesIntact /\ cside[ConnOf[s]] = "open" => down[s] \o <<Fin>> = Answer(h)
  <2>1. N \in 0..N
    BY <1>2
  <2>2. Answer(h) = (Leading(h) \o BlobStreams(Blobs[h])[N]) \o <<Fin>>
    BY <1>2, <2>1, AnswerFacts
  <2>3. FilesIntact /\ cside[ConnOf[s]] = "open"
          => down[s] = Leading(h) \o BlobStreams(Blobs[h])[N]
    BY <1>1, <1>3 DEF OrderAt, SentSoFar, Sending, Sent, BlobsSent, BlobsOf
  <2> QED
    BY <2>2, <2>3
<1>10. FilesIntact => down'[s] = down[s] \/ down'[s] = Answer(h)
  BY <1>8, <1>9
<1>11. WholeAt(s)'
  <2>1. log'[s] # Append(RR, TransferCompleted)
    BY <1>1, AnnouncedNext DEF Told
  <2>2. FilesIntact' /\ Ended(down'[s]) => down'[s] = Answer(h)
    BY <1>6, <1>10, StillFacts
  <2> QED
    BY <2>1, <2>2, StillFacts DEF WholeAt
<1>12. SentSoFar(s)'
  BY <1>1 DEF SentSoFar, Sending
<1>13. PartAt(s)'
  <2>1. FilesIntact => Part(down[s], Answer(h))
    BY <1>1, <1>4, AnnouncedStates DEF Told, Serving, OrderAt, PartAt
  <2>2. Part(Answer(h), Answer(h))
    <3>1. 0 \in 0..N
      BY <1>2
    <3>2. Answer(h) \in Seq(Items)
      BY <1>2, <3>1, AnswerFacts
    <3> QED
      BY <3>2, PartFacts
  <2> QED
    BY <1>10, <2>1, <2>2, StillFacts DEF PartAt
<1> QED
  BY <1>5, <1>7, <1>11, <1>12, <1>13, StillFacts DEF OrderAt

\* The end of the stream is acknowledged: all of the answer was sent.
LEMMA OrderDone ==
    ASSUME ServeInv, ServeInv', NEW s \in Streams, Still, OrderAt(s), FinishDone(s)
    PROVE  OrderAt(s)'
<1>1. /\ hs[s] \in Awaiting /\ hs'[s] = "done" /\ "down" \in acked[s] /\ UNCHANGED down
      /\ log \in [Streams -> Seq(Events)]
  BY DEF ServeInv, ServerTypeOK, ProviderTypeOK, FinishDone, Goto, quicVars
<1>2. EndAt(s)'
  BY <1>1 DEF OrderAt, EndAt, Still, Unsent, Unended, Reading, Sending
<1>3. StoredAt(s)' /\ SentSoFar(s)'
  BY <1>1 DEF StoredAt, SentSoFar, Sending, Serving, Reading
<1>4. Announced(s) /\ hs[s] \in Serving \cup Refusing
  BY <1>1, AnnouncedStates DEF Told, Awaiting, Serving, Refusing
<1>5. PartAt(s)'
  BY <1>1, <1>4, StillFacts DEF OrderAt, PartAt
<1>6. WholeAt(s)'
  <2>1. CASE hs[s] = "finish"
    <3>1. FilesIntact => down[s] = Answer(Name(s))
      BY <1>1, <2>1 DEF OrderAt, EndAt, WholeAt
    <3> QED
      BY <1>1, <3>1, StillFacts DEF WholeAt, Still
  <2>2. CASE hs[s] \in {"bnfFinish", "nfFinish"}
    <3>1. \/ log[s] = RR /\ log'[s] = Append(log[s], TransferAborted)
          \/ log[s] = Append(RR, TransferAborted) /\ log'[s] = log[s]
      <4>1. log[s] \in LegalLog(hs[s])
        BY DEF ServeInv, EventProtocol
      <4>2. CASE hs[s] = "bnfFinish"
        BY <1>1, <4>1, <4>2, LegalStates DEF FinishDone, Emit
      <4>3. CASE hs[s] = "nfFinish"
        BY <1>1, <4>1, <4>3, LegalStates DEF FinishDone
      <4> QED
        BY <2>2, <4>2, <4>3
    <3>2. log'[s] = Append(RR, TransferAborted)
      BY <3>1
    <3>3. log'[s] # Append(RR, TransferCompleted)
      BY <3>2, LogKinds
    <3> QED
      BY <1>1, <3>3 DEF WholeAt
  <2> QED
    BY <1>1, <2>1, <2>2 DEF Awaiting
<1> QED
  BY <1>2, <1>3, <1>5, <1>6, StillFacts DEF OrderAt

\* Nothing the provider writes before it finishes is the end of the stream.
LEMMA NoFin ==
    /\ Found # Fin /\ NotFound # Fin /\ Corrupt # Fin
    /\ \A n \in Nat : FoundCollection(n) # Fin
    /\ \A h \in Hash : \A k \in 1..(Segments[h] + 1) : Enc(h)[k] # Fin
<1>1. /\ Found # Fin /\ NotFound # Fin /\ Corrupt # Fin
      /\ \A n \in Nat : FoundCollection(n) # Fin
  BY DEF Found, NotFound, Corrupt, FoundCollection, Fin
<1>2. ASSUME NEW h \in Hash, NEW k \in 1..(Segments[h] + 1) PROVE Enc(h)[k] # Fin
  <2>1. CASE k = 1
    BY <2>1 DEF Enc, Size, Fin
  <2>2. CASE k # 1
    BY <2>2 DEF Enc, Data, Fin
  <2> QED
    BY <2>1, <2>2
<1> QED
  BY <1>1, <1>2

\* The response that announces the collection.
LEMMA OrderOpening ==
    ASSUME ServeInv, ServeInv', NEW s \in Streams, Still, OrderAt(s), WriteFoundCollection(s)
    PROVE  OrderAt(s)'
<1> DEFINE h == Name(s)
           q == <<FoundCollection(TotalBlobsSize[h])>>
<1>1. /\ ServerTypeOK /\ hs[s] = "found" /\ hs'[s] = "coll" /\ bi'[s] = bi[s] /\ SendDown(s, q)
  BY DEF ServeInv, ServerTypeOK, ProviderTypeOK, WriteFoundCollection, Goto
<1>2. h \in Collections /\ Blobs[h] \in Seq(Hash) /\ TotalBlobsSize[h] \in Nat
  BY <1>1, ServedName DEF ServeInv, StreamAt, Serving, BlobsOf
<1>3. q \in Seq(Items) /\ q = Opening(h)
  BY <1>2, ItemFacts DEF Opening
<1>4. \A k \in 1..Len(q) : q[k] # Fin
  BY <1>2, NoFin
<1>5. Part(Opening(h), Answer(h))
  <2>1. 0 \in 0..Len(Blobs[h])
    BY <1>2
  <2> QED
    BY <1>2, <2>1, AnswerFacts
<1>6. StoredAt(s)'
  BY <1>1, StillFacts DEF OrderAt, StoredAt, Serving
<1>7. Sent(s) = <<>> /\ Sent(s)' = Opening(h)
  BY <1>1, StillFacts DEF Sent
<1> HIDE DEF q, h
<1>8. down'[s] = IF cside[ConnOf[s]] = "open" THEN down[s] \o q ELSE down[s]
  BY <1>1, <1>3, SendEffect
<1>9. Sent(s)' = Sent(s) \o q
  BY <1>3, <1>7, ConcatEmptySeq
<1>10. hs[s] \in Sending /\ hs'[s] \in Sending \ {"found"}
  BY <1>1 DEF Sending
<1> QED
  BY <1>3, <1>4, <1>5, <1>6, <1>7, <1>8, <1>9, <1>10, OrderSends DEF h

\* The collection itself, which fits into the window.
LEMMA OrderCollection ==
    ASSUME CollectionsFit, ServeInv, ServeInv', NEW s \in Streams, Still, OrderAt(s),
           WriteCollection(s)
    PROVE  OrderAt(s)'
<1> DEFINE h == Name(s)
           q == Enc(h)
<1>1. ServerTypeOK /\ hs[s] = "coll" /\ hs'[s] = "blob" /\ bi'[s] = bi[s]
  BY DEF ServeInv, ServerTypeOK, ProviderTypeOK, WriteCollection, Goto
<1>2. h \in Collections /\ Blobs[h] \in Seq(Hash) /\ h \in Hash /\ Segments[h] \in Nat
  BY <1>1, ServedName, HashAssumption DEF ServeInv, StreamAt, Serving, BlobsOf
<1>3. q \in Seq(Items) /\ Len(q) = Segments[h] + 1
  BY <1>2, ItemFacts
<1>4. \A k \in 1..Len(q) : q[k] # Fin
  BY <1>2, <1>3, NoFin
<1>5. /\ Part(Leading(h) \o BlobStreams(Blobs[h])[0], Answer(h))
      /\ Leading(h) = Leading(h) \o BlobStreams(Blobs[h])[0]
  <2>1. 0 \in 0..Len(Blobs[h])
    BY <1>2
  <2> QED
    BY <1>2, <2>1, AnswerFacts
<1>6. bi[s] = 0 /\ StoredAt(s)'
  BY <1>1, StillFacts DEF OrderAt, StoredAt, Serving, Reading
<1>7. Sent(s) = Opening(h) /\ Sent(s)' = Leading(h) \o BlobStreams(Blobs[h])[0]
  BY <1>1, <1>6, StillFacts DEF Sent, BlobsSent, BlobsOf
<1>8. Sent(s)' = Sent(s) \o q
  BY <1>5, <1>7 DEF Leading
<1>9. CASE FilesIntact /\ cside[ConnOf[s]] = "open"
  <2>1. down[s] = Opening(h)
    BY <1>1, <1>7, <1>9 DEF OrderAt, SentSoFar, Sending
  <2>2. Len(down[s]) = 1
    BY <2>1 DEF Opening
  <2>a. downRd[s] \in Nat /\ Window \in Nat
    BY QuicAssumption DEF ServerTypeOK, QuicTypeOK, ServeInv
  <2>b. Segments[h] + 2 <= Window
    <3> HIDE DEF h
    <3> QED BY <1>2 DEF CollectionsFit
  <2>c. Credit(s) = (downRd[s] + Window) - 1
    BY <2>2 DEF Credit
  <2>d. Len(q) = Segments[h] + 1 /\ Segments[h] \in Nat
    BY <1>2, <1>3, Zenon
  <2>3. Len(q) <= Credit(s)
    <3> HIDE DEF h, q
    <3> QED BY <2>a, <2>b, <2>c, <2>d
  <2>4. SendDown(s, SubSeq(q, 1, Len(q)))
    BY <2>3 DEF WriteCollection
  <2>5. SubSeq(q, 1, Len(q)) = q
    BY <1>3, SubSeqFull
  <2>6. SendDown(s, q)
    BY <2>4, <2>5
  <2>7. down'[s] = IF cside[ConnOf[s]] = "open" THEN down[s] \o q ELSE down[s]
    BY <1>1, <1>3, <2>6, SendEffect
  <2>8. hs[s] \in Sending /\ hs'[s] \in Sending \ {"found"}
    BY <1>1 DEF Sending
  <2> HIDE DEF q
  <2> QED
    BY <1>3, <1>4, <1>5, <1>6, <1>7, <1>8, <2>7, <2>8, OrderSends
<1>10. CASE ~(FilesIntact /\ cside[ConnOf[s]] = "open")
  <2> DEFINE k == IF Len(q) <= Credit(s) THEN Len(q) ELSE Credit(s)
             p == SubSeq(q, 1, k)
  <2>1. SendDown(s, p)
    BY DEF WriteCollection
  <2>2. k \in Int /\ k <= Len(q)
    BY <1>3, QuicAssumption, <1>1, <1>2 DEF Credit, ServerTypeOK, QuicTypeOK
  <2>3. p \in Seq(Items) /\ \A i \in 1..Len(p) : p[i] # Fin
    <3>1. \A i \in 1..k : q[i] \in Items
      BY <1>3, <2>2
    <3> HIDE DEF k
    <3>2. /\ p \in Seq(Items) /\ Len(p) = IF 1 <= k THEN k - 1 + 1 ELSE 0
          /\ \A i \in 1..(k - 1 + 1) : p[i] = q[1 + i - 1]
      BY <2>2, <3>1, SubSeqProperties
    <3>3. \A i \in 1..Len(p) : i \in 1..Len(q) /\ p[i] = q[i]
      <4> HIDE DEF p, q
      <4> QED
        BY <1>3, <2>2, <3>2
    <3> QED
      BY <1>4, <3>2, <3>3
  <2> HIDE DEF p, q, k
  <2>4. down'[s] = IF cside[ConnOf[s]] = "open" THEN down[s] \o p ELSE down[s]
    BY <1>1, <2>1, <2>3, SendEffect
  <2>5. hs[s] \in Sending /\ hs'[s] \in Sending \ {"found"}
    BY <1>1 DEF Sending
  <2>6. CASE ~FilesIntact
    BY <1>6, <2>3, <2>4, <2>5, <2>6, OrderSends
  <2>7. CASE cside[ConnOf[s]] # "open"
    <3>1. down'[s] = IF cside[ConnOf[s]] = "open" THEN down[s] \o q ELSE down[s]
      BY <2>4, <2>7
    <3> QED
      BY <1>3, <1>4, <1>5, <1>6, <1>7, <1>8, <2>5, <3>1, OrderSends
  <2> QED
    BY <1>10, <2>6, <2>7
<1> QED
  BY <1>9, <1>10

\* Where the handler is within the collection.
LEMMA AtBlob ==
    ASSUME ServeInv, NEW s \in Streams, OrderAt(s), hs[s] \in {"blob", "open", "copy"}, HasBlob(s)
    PROVE  /\ Name(s) \in Collections /\ Blobs[Name(s)] \in Seq(Hash)
           /\ bi[s] \in 0..Len(Blobs[Name(s)]) /\ bi[s] < Len(Blobs[Name(s)])
           /\ Blob(s) = Blobs[Name(s)][bi[s] + 1] /\ Blob(s) \in Hash /\ Segments[Blob(s)] \in Nat
<1>1. hs[s] \in Serving /\ ServerTypeOK /\ ReadAt(s)
  BY DEF Serving, ServeInv, StreamAt
<1>2. /\ Name(s) \in Collections /\ BlobsOf(s) \in Seq(Hash) /\ bi[s] \in Nat /\ Blob(s) \in Hash
  BY <1>1, ServedName
<1> QED
  BY <1>2, HashAssumption DEF HasBlob, Blob, BlobsOf

\* The response that announces a blob.
LEMMA OrderBlob ==
    ASSUME ServeInv, ServeInv', NEW s \in Streams, Still, OrderAt(s), WriteFound(s)
    PROVE  OrderAt(s)'
<1> DEFINE h == Name(s)
           q == <<Found>>
           n == bi[s]
<1>1. /\ ServerTypeOK /\ hs[s] = "blob" /\ hs'[s] = "open" /\ bi'[s] = bi[s] /\ SendDown(s, q)
      /\ HasBlob(s) /\ Stored[Blob(s)] = "blob"
  BY DEF ServeInv, ServerTypeOK, ProviderTypeOK, WriteFound, Goto
<1>2. /\ h \in Collections /\ Blobs[h] \in Seq(Hash) /\ n \in 0..Len(Blobs[h])
      /\ n < Len(Blobs[h]) /\ Segments[Blobs[h][n + 1]] \in Nat
  BY <1>1, AtBlob
<1>3. q \in Seq(Items) /\ \A k \in 1..Len(q) : q[k] # Fin
  BY ItemFacts, NoFin
<1>4. Part((Leading(h) \o BlobStreams(Blobs[h])[n]) \o q, Answer(h))
  <2>1. 0 \in 0..Segments[Blobs[h][n + 1]]
    BY <1>2
  <2> QED
    BY <1>2, <2>1, NextBlobFacts
<1>5. StoredAt(s)'
  <2>1. Blob(s)' = Blob(s)
    BY <1>1, StillFacts DEF Blob
  <2> QED
    BY <1>1, <2>1, StillFacts DEF OrderAt, StoredAt, Serving, Reading
<1>6. /\ Sent(s) = Leading(h) \o BlobStreams(Blobs[h])[n]
      /\ Sent(s)' = (Leading(h) \o BlobStreams(Blobs[h])[n]) \o q
  BY <1>1, StillFacts DEF Sent, BlobsSent, BlobsOf
<1>7. hs[s] \in Sending /\ hs'[s] \in Sending \ {"found"}
  BY <1>1 DEF Sending
<1> HIDE DEF q
<1>8. down'[s] = IF cside[ConnOf[s]] = "open" THEN down[s] \o q ELSE down[s]
  BY <1>1, <1>3, SendEffect
<1>9. Sent(s)' = Sent(s) \o q
  BY <1>6
<1> QED
  BY <1>3, <1>4, <1>5, <1>6, <1>7, <1>8, <1>9, OrderSends

\* Opening the file sends nothing.
LEMMA OrderOpen ==
    ASSUME ServeInv, ServeInv', NEW s \in Streams, Still, OrderAt(s), OpenFile(s)
    PROVE  OrderAt(s)'
<1> DEFINE h == Name(s)
           q == <<>>
           n == bi[s]
           X == (Leading(h) \o BlobStreams(Blobs[h])[n]) \o <<Found>>
           Y == X \o SubSeq(Enc(Blobs[h][n + 1]), 1, 0)
<1>1. /\ ServerTypeOK /\ hs[s] = "open" /\ hs'[s] = "copy" /\ bi'[s] = bi[s] /\ ci'[s] = 0
      /\ UNCHANGED down /\ HasBlob(s)
  BY DEF ServeInv, ServerTypeOK, ProviderTypeOK, OpenFile, Goto, StreamAt, IndexAt, quicVars
<1>2. /\ h \in Collections /\ Blobs[h] \in Seq(Hash) /\ n \in 0..Len(Blobs[h])
      /\ n < Len(Blobs[h]) /\ Segments[Blobs[h][n + 1]] \in Nat
      /\ Blob(s) = Blobs[h][n + 1]
  BY <1>1, AtBlob
<1>3. q \in Seq(Items) /\ \A k \in 1..Len(q) : q[k] # Fin
  BY EmptySeq
<1>4. X \in Seq(Items) /\ Part(Y, Answer(h)) /\ Y = X
  <2>1. 0 \in 0..Segments[Blobs[h][n + 1]]
    BY <1>2
  <2> QED
    BY <1>2, <2>1, NextBlobFacts
<1>5. Blob(s)' = Blob(s)
  BY <1>1, StillFacts DEF Blob
<1>6. StoredAt(s)'
  BY <1>1, <1>5, StillFacts DEF OrderAt, StoredAt, Serving, Reading
<1>7. Sent(s) = X /\ Sent(s)' = Y
  BY <1>1, <1>2, <1>5, StillFacts DEF Sent, BlobsSent, BlobsOf
<1>8. hs[s] \in Sending /\ hs'[s] \in Sending \ {"found"}
  BY <1>1 DEF Sending
<1> HIDE DEF X, Y
<1>9. down[s] \o q = down[s] /\ X \o q = X
  BY <1>1, <1>4, ConcatEmptySeq DEF ServerTypeOK, QuicTypeOK
<1>10. down'[s] = IF cside[ConnOf[s]] = "open" THEN down[s] \o q ELSE down[s]
  BY <1>1, <1>9
<1>11. Sent(s)' = Sent(s) \o q /\ Part(Sent(s)', Answer(h))
  BY <1>4, <1>7, <1>9
<1> HIDE DEF q
<1> QED
  BY <1>3, <1>6, <1>8, <1>10, <1>11, OrderSends

\* One item of the encoding of a blob.
LEMMA OrderCopy ==
    ASSUME ServeInv, ServeInv', NEW s \in Streams, Still, OrderAt(s), CopyItem(s)
    PROVE  OrderAt(s)'
<1> DEFINE h == Name(s)
           n == bi[s]
           b == Blobs[h][n + 1]
           E == Enc(b)
           k == ci[s]
           X == (Leading(h) \o BlobStreams(Blobs[h])[n]) \o <<Found>>
           Z == Leading(h) \o BlobStreams(Blobs[h])[n + 1]
           q == <<ItemRead(s)>>
<1>1. /\ ServerTypeOK /\ hs[s] = "copy" /\ SendDown(s, q) /\ HasBlob(s) /\ k \in Nat
      /\ k <= Segments[Blob(s)]
  BY DEF ServeInv, ServerTypeOK, ProviderTypeOK, CopyItem, StreamAt, IndexAt
<1>2. /\ h \in Collections /\ Blobs[h] \in Seq(Hash) /\ n \in 0..Len(Blobs[h])
      /\ n < Len(Blobs[h]) /\ Segments[b] \in Nat /\ Blob(s) = b /\ b \in Hash
  BY <1>1, AtBlob
<1>3. k \in 0..Segments[b] /\ k + 1 \in 1..(Segments[b] + 1)
  BY <1>1, <1>2
<1>4. E[k + 1] \in Items /\ E[k + 1] # Fin
  BY <1>2, <1>3, ItemFacts, NoFin
<1>5. ItemRead(s) \in Items /\ ItemRead(s) # Fin /\ (FilesIntact => ItemRead(s) = E[k + 1])
  <2>1. ItemRead(s) = Corrupt \/ ItemRead(s) = E[k + 1]
    BY <1>2 DEF ItemRead
  <2>2. FilesIntact => ItemRead(s) = E[k + 1]
    BY <1>2 DEF ItemRead, FilesIntact
  <2> QED
    BY <1>4, <2>1, <2>2, ItemFacts, NoFin
<1>6. q \in Seq(Items) /\ \A i \in 1..Len(q) : q[i] # Fin
  BY <1>5
<1>7. /\ \/ hs'[s] = "copy" /\ ci'[s] = k + 1 /\ bi'[s] = n /\ k < Segments[b]
         \/ hs'[s] = "blob" /\ bi'[s] = n + 1 /\ k = Segments[b]
  <2>1. CASE k < Segments[b]
    BY <1>1, <1>2, <2>1 DEF CopyItem, ServerTypeOK, ProviderTypeOK
  <2>2. CASE ~(k < Segments[b])
    BY <1>1, <1>2, <2>2 DEF CopyItem, Goto, ServerTypeOK, ProviderTypeOK
  <2> QED
    BY <2>1, <2>2
<1>8. Sent(s) = X \o SubSeq(E, 1, k)
  BY <1>1, <1>2 DEF Sent, BlobsSent, BlobsOf
<1>9. /\ (X \o SubSeq(E, 1, k)) \o <<E[k + 1]>> = X \o SubSeq(E, 1, k + 1)
      /\ X \o SubSeq(E, 1, Segments[b] + 1) = Z
  BY <1>2, <1>3, NextBlobFacts
<1>10. hs[s] \in Sending /\ hs'[s] \in Sending \ {"found"}
  BY <1>1, <1>7 DEF Sending
<1>11. FilesIntact => q = <<E[k + 1]>>
  BY <1>5
<1>12. down'[s] = IF cside[ConnOf[s]] = "open" THEN down[s] \o q ELSE down[s]
  BY <1>1, <1>6, SendEffect
<1>13. bi[s] <= Len(BlobsOf(s)) /\ \A i \in 1..n : Stored[BlobsOf(s)[i]] = "blob"
  BY <1>1 DEF OrderAt, StoredAt, Serving
<1>14. CASE hs'[s] = "copy"
  <2>1. Blob(s)' = Blob(s) /\ k + 1 \in 0..Segments[b]
    BY <1>1, <1>2, <1>7, <1>14, StillFacts DEF Blob
  <2>2. Sent(s)' = X \o SubSeq(E, 1, k + 1)
    BY <1>2, <1>7, <1>14, <2>1, StillFacts DEF Sent, BlobsSent, BlobsOf
  <2>3. Part(X \o SubSeq(E, 1, k + 1), Answer(h))
    BY <1>2, <2>1, NextBlobFacts
  <2>4. StoredAt(s)'
    BY <1>1, <1>7, <1>13, <1>14, <2>1, StillFacts DEF OrderAt, StoredAt, Reading
  <2>5. FilesIntact => Sent(s)' = Sent(s) \o q
    BY <1>8, <1>9, <1>11, <2>2
  <2>6. Part(Sent(s)', Answer(h))
    BY <2>2, <2>3
  <2> HIDE DEF q
  <2> QED
    BY <1>6, <1>10, <1>12, <2>4, <2>5, <2>6, OrderSends
<1>15. CASE hs'[s] = "blob"
  <2>1. bi'[s] = n + 1 /\ k = Segments[b]
    BY <1>7, <1>15
  <2>2. Sent(s)' = Z
    BY <1>15, <2>1, StillFacts DEF Sent, BlobsSent, BlobsOf
  <2>3. Part(Z, Answer(h))
    <3>1. n + 1 \in 0..Len(Blobs[h])
      BY <1>2
    <3> QED
      BY <1>2, <3>1, AnswerFacts
  <2>4. StoredAt(s)'
    <3>1. Stored[BlobsOf(s)[n + 1]] = "blob"
      BY <1>1, <1>2 DEF OrderAt, StoredAt, BlobsOf
    <3>2. n + 1 <= Len(BlobsOf(s)) /\ \A i \in 1..(n + 1) : Stored[BlobsOf(s)[i]] = "blob"
      BY <1>2, <1>13, <3>1 DEF BlobsOf
    <3> QED
      BY <1>15, <2>1, <3>2, StillFacts DEF StoredAt, Reading
  <2>5. FilesIntact => Sent(s)' = Sent(s) \o q
    BY <1>8, <1>9, <1>11, <2>1, <2>2
  <2>6. Part(Sent(s)', Answer(h))
    BY <2>2, <2>3
  <2> HIDE DEF q
  <2> QED
    BY <1>6, <1>10, <1>12, <2>4, <2>5, <2>6, OrderSends
<1> QED
  BY <1>7, <1>14, <1>15

\* A handler that gives up while reading.
LEMMA OrderReadingEnds ==
    ASSUME ServeInv, ServeInv', NEW s \in Streams, Still, OrderAt(s), hs[s] \in Reading,
           ReadingFails(s) \/ Panics(s)
    PROVE  OrderAt(s)'
<1>1. log[s] = CC /\ hs \in [Streams -> HandlerStates] /\ log \in [Streams -> Seq(Events)]
  BY LegalStates DEF ServeInv, EventProtocol, ServerTypeOK, ProviderTypeOK
<1>2. /\ DropWriter(s) /\ hs'[s] \in {"done", "panicked"}
      /\ log'[s] \in {CC, Append(CC, EarlyAborted)}
  BY <1>1 DEF ReadingFails, Panics, Goto, Emit
<1>3. log'[s] \notin {RR, Append(RR, TransferAborted), Append(RR, TransferCompleted)}
  BY <1>2, LogKinds, Zenon
<1>4. ~Announced(s)' /\ log'[s] # Append(RR, TransferCompleted)
  BY <1>3 DEF Announced
<1> QED
  BY <1>2, <1>4, OrderEnds

\* Every step of the handler keeps the order of its answer.
LEMMA OrderHandler ==
    ASSUME CollectionsFit, ServeInv, ServeInv', NEW s \in Streams, OrderAt(s), HandlerStep(s)
    PROVE  OrderAt(s)'
<1>a. ServerTypeOK /\ ReadAt(s) /\ IndexAt(s) /\ EventProtocol
  BY DEF ServeInv, StreamAt
<1>b. Still
  BY HandlerStream DEF Frame, Still
<1>c. /\ hs \in [Streams -> HandlerStates] /\ log \in [Streams -> Seq(Events)]
      /\ down \in [Streams -> Seq(Items)]
  BY <1>a DEF ServerTypeOK, ProviderTypeOK, QuicTypeOK
<1>d. ASSUME hs[s] \in Reading, UNCHANGED <<down, bi>>,
             Goto(s, "request") \/ Goto(s, "extra") \/ Goto(s, "nfWrite")
      PROVE  OrderAt(s)'
  <2>1. hs'[s] \in {"handshake", "request", "extra", "nfWrite"}
    BY <1>c, <1>d DEF Goto
  <2>2. bi'[s] = 0 /\ down'[s] = <<>> /\ hs[s] \in Unended
    BY <1>d DEF OrderAt, StoredAt, EndAt, Unsent, Unended
  <2> QED
    BY <1>b, <2>1, <2>2, OrderUnsent
<1>e. ASSUME hs[s] \in Serving, TransferFails(s),
             SendDownFails(s) \/ ~(FilesIntact /\ Servable(Name(s)))
      PROVE  OrderAt(s)'
  <2>1. log[s] = RR /\ Announced(s)
    BY <1>e, AnnouncedStates DEF Told
  <2>2. /\ hs'[s] = "done" /\ log'[s] = Append(RR, TransferAborted) /\ DropWriter(s)
    BY <1>c, <1>e, <2>1 DEF TransferFails, Goto, Emit
  <2>3. log'[s] # Append(RR, TransferCompleted)
    BY <2>2, LogKinds
  <2> QED
    BY <1>b, <1>e, <2>1, <2>2, <2>3, OrderEnds
<1>f. ASSUME hs[s] \in {"blob", "bnf", "bnfFinish"}, HasBlob(s), Stored[Blob(s)] # "blob"
      PROVE  ~Servable(Name(s))
  <2>1. BlobsOf(s) \in Seq(Hash) /\ bi[s] \in Nat
    BY <1>a, <1>f, ServedName DEF Serving
  <2>2. bi[s] + 1 \in DOMAIN BlobsOf(s)
    BY <1>f, <2>1 DEF HasBlob
  <2> QED
    BY <1>f, <2>2 DEF Servable, Blob, BlobsOf
<1>1. CASE ReadHandshake(s) \/ ReadRequest(s)
  <2>1. hs[s] \in Reading
    BY <1>1 DEF ReadHandshake, ReadRequest, Reading
  <2>2. \/ (Goto(s, "request") \/ Goto(s, "extra")) /\ UNCHANGED <<down, bi>>
        \/ ReadingFails(s) \/ Panics(s)
    BY <1>1 DEF ReadHandshake, ReadRequest, OnlyRead
  <2> QED
    BY <1>b, <1>d, <2>1, <2>2, OrderReadingEnds
<1>2. CASE ReadExtra(s)
  <2>1. hs[s] = "extra" /\ hs[s] \in Reading
    BY <1>2 DEF ReadExtra, Reading
  <2>2. CASE Goto(s, "found") /\ UNCHANGED <<down, bi>>
    <3>1. hs'[s] = "found"
      BY <1>c, <2>2 DEF Goto
    <3>2. bi'[s] = 0 /\ down'[s] = <<>>
      BY <2>1, <2>2 DEF OrderAt, StoredAt, EndAt, Unsent
    <3> QED
      BY <1>b, <2>1, <3>1, <3>2, OrderFound
  <2>3. CASE Goto(s, "nfWrite") /\ UNCHANGED <<down, bi>>
    BY <1>d, <2>1, <2>3
  <2>4. CASE ReadingFails(s)
    BY <1>b, <2>1, <2>4, OrderReadingEnds
  <2> QED
    BY <1>2, <2>2, <2>3, <2>4 DEF ReadExtra, OnlyRead
<1>3. CASE ReadError(s)
  BY <1>3, <1>b, OrderReadingEnds DEF ReadError
<1>4. CASE WriteNotFound(s)
  <2>1. hs[s] = "nfWrite" /\ hs'[s] = "nfFinish"
    BY <1>4, <1>c DEF WriteNotFound, Goto
  <2>2. ~Servable(Name(s))
    BY <1>a, <2>1 DEF ReadAt, Refusing, Servable
  <2>3. StoredAt(s)'
    BY <2>1 DEF StoredAt, Serving, Reading
  <2> QED
    BY <1>b, <2>1, <2>2, <2>3, OrderRefused
<1>5. CASE NotFoundFails(s)
  <2>1. hs[s] \in Refusing /\ DropWriter(s) /\ hs'[s] = "done" /\ UNCHANGED log
    BY <1>5, <1>c DEF NotFoundFails, Goto, Refusing
  <2>2. ~Servable(Name(s))
    BY <1>a, <2>1 DEF ReadAt, Servable
  <2>3. log'[s] # Append(RR, TransferCompleted)
    BY <2>1, AnnouncedStates DEF Told, Refusing
  <2> QED
    BY <1>b, <2>1, <2>2, <2>3, OrderEnds
<1>6. CASE WriteFoundCollection(s)
  BY <1>6, <1>b, OrderOpening
<1>7. CASE WriteCollection(s)
  BY <1>7, <1>b, OrderCollection
<1>8. CASE WriteFound(s)
  BY <1>8, <1>b, OrderBlob
<1>9. CASE WriteBlobNotFound(s)
  <2>1. /\ hs[s] = "blob" /\ hs'[s] = "bnf" /\ HasBlob(s) /\ Stored[Blob(s)] # "blob"
        /\ SendDown(s, <<NotFound>>) /\ bi'[s] = bi[s]
    BY <1>9, <1>c DEF WriteBlobNotFound, Goto
  <2>2. <<NotFound>> \in Seq(Items)
    BY ItemFacts
  <2>3. down'[s] = down[s] \/ down'[s] = down[s] \o <<NotFound>>
    BY <1>a, <2>1, <2>2, SendEffect
  <2>4. down[s] \in Seq(Items) /\ \A k \in 1..Len(down[s]) : down[s][k] # Fin
    BY <1>c, <2>1 DEF OrderAt, EndAt, Unended, Sending
  <2>5. \A k \in 1..Len(down[s] \o <<NotFound>>) : (down[s] \o <<NotFound>>)[k] # Fin
    BY <2>2, <2>4, NoFin
  <2>6. \A k \in 1..Len(down'[s]) : down'[s][k] # Fin
    BY <2>3, <2>4, <2>5, Zenon
  <2>7. StoredAt(s)'
    BY <1>b, <2>1, StillFacts DEF OrderAt, StoredAt, Serving, Reading
  <2> QED
    BY <1>b, <1>f, <2>1, <2>6, <2>7, OrderRefused
<1>10. CASE RepeatNotFound(s)
  <2>1. hs[s] = "bnf" /\ hs'[s] = "bnfFinish" /\ bi'[s] = bi[s]
    BY <1>10, <1>c DEF RepeatNotFound, Goto
  <2>2. ~Servable(Name(s))
    BY <1>a, <1>f, <2>1 DEF IndexAt
  <2>3. StoredAt(s)'
    BY <1>b, <2>1, StillFacts DEF OrderAt, StoredAt, Serving, Reading
  <2> QED
    BY <1>b, <2>1, <2>2, <2>3, OrderRefused
<1>11. CASE OpenFile(s)
  BY <1>11, <1>b, OrderOpen
<1>12. CASE OpenFileFails(s) \/ CopyFails(s)
  <2>1. /\ hs[s] \in {"open", "copy"} /\ file[Blob(s)] # "intact" /\ TransferFails(s)
    BY <1>12 DEF OpenFileFails, CopyFails
  <2>2. Blob(s) \in Hash /\ hs[s] \in Serving
    BY <1>a, <2>1, ServedName DEF IndexAt, Serving
  <2>3. ~FilesIntact
    BY <2>1, <2>2 DEF FilesIntact
  <2> QED
    BY <1>e, <2>1, <2>2, <2>3
<1>13. CASE CopyItem(s)
  BY <1>13, <1>b, OrderCopy
<1>14. CASE Finish(s)
  BY <1>14, <1>b, OrderFinish
<1>15. CASE FinishDone(s)
  BY <1>15, <1>b, OrderDone
<1>16. CASE WriteFails(s)
  <2>1. hs[s] \in Serving /\ SendDownFails(s) /\ TransferFails(s)
    BY <1>16 DEF WriteFails, Writing, Serving
  <2> QED
    BY <1>e, <2>1
<1> QED
  BY <1>1, <1>2, <1>3, <1>4, <1>5, <1>6, <1>7, <1>8, <1>9, <1>10, <1>11, <1>12, <1>13, <1>14,
     <1>15, <1>16 DEF HandlerStep

(***************************************************************************)
(* The other steps.                                                        *)
(***************************************************************************)
\* What the transport and the client do to a stream, as far as the order of
\* the answer goes: no file becomes intact again, only an ended stream is
\* acknowledged, and the client's end is not reopened.
Moved(s) ==
    /\ Grown(s) /\ Len(up'[s]) \in Nat
    /\ FilesIntact' => FilesIntact
    /\ acked[s] \subseteq acked'[s]
    /\ "down" \in acked'[s] => "down" \in acked[s] \/ Ended(down[s])
    /\ cside'[ConnOf[s]] = "open" => cside[ConnOf[s]] = "open" \/ up[s] = <<>>
    /\ ClientAt(s)'

\* A stream whose handler does nothing keeps the order of its answer.
LEMMA OrderKept ==
    ASSUME ServeInv, NEW s \in Streams, OrderAt(s), Moved(s),
           UNCHANGED <<hs[s], bi[s], ci[s], log[s], down[s]>>
    PROVE  OrderAt(s)'
<1>1. EndAt(s)' /\ ClientAt(s)'
  BY DEF OrderAt, EndAt, Moved
<1>2. hs[s] \in Serving \/ Announced(s) => Asked(s)
  BY AnnouncedStates DEF Told
<1>3. CASE Asked(s)
  <2>1. 2 \in 1..Len(up[s]) /\ up[s] # <<>>
    BY <1>3 DEF Asked, Requested, ServeInv, ServerTypeOK, QuicTypeOK
  <2>2. Name(s)' = Name(s)
    BY <2>1 DEF Moved, Grown, Name
  <2>3. /\ BlobsOf(s)' = BlobsOf(s) /\ Blob(s)' = Blob(s)
        /\ Servable(Name(s))' = Servable(Name(s)) /\ Answer(Name(s))' = Answer(Name(s))
    BY <2>2 DEF BlobsOf, Blob
  <2>4. Sent(s)' = Sent(s)
    BY <2>2, <2>3 DEF Sent, BlobsSent
  <2>5. StoredAt(s)'
    BY <2>3 DEF OrderAt, StoredAt
  <2>6. SentSoFar(s)'
    BY <2>1, <2>4 DEF OrderAt, SentSoFar, Moved
  <2>7. PartAt(s)'
    BY <2>3 DEF OrderAt, PartAt, Announced, Moved
  <2>8. WholeAt(s)'
    BY <2>3 DEF OrderAt, WholeAt, Moved
  <2> QED
    BY <1>1, <2>5, <2>6, <2>7, <2>8 DEF OrderAt
<1>4. CASE ~Asked(s)
  <2>1. hs[s] \notin Serving /\ ~Announced(s)
    BY <1>2, <1>4
  <2>2. log[s] # Append(RR, TransferCompleted)
    BY <2>1 DEF Announced
  <2> QED
    BY <1>1, <2>1, <2>2 DEF OrderAt, StoredAt, SentSoFar, PartAt, WholeAt, Announced, Serving,
       Sending
<1> QED
  BY <1>3, <1>4

\* The loop and the environment move streams only in these ways.
LEMMA OutsideMoves ==
    ASSUME ServeInv, Unconnected, LoopStep \/ Outside, NEW s \in Streams, ClientAt(s)
    PROVE  Moved(s)
<1>a. ServerTypeOK
  BY DEF ServeInv
<1>1. Grown(s) /\ (FilesIntact' => FilesIntact)
  BY <1>a, AlwaysGrown, CauseOutside
<1>2. CASE LoopStep
  <2>1. UNCHANGED <<cside, acked, up>> /\ up[s] \in Seq(Frames)
    BY <1>2, <1>a, LoopKeeps DEF ServerTypeOK, QuicTypeOK
  <2> QED
    BY <1>1, <2>1 DEF Moved, ClientAt
<1>3. CASE Outside
  <2>1. Len(up'[s]) \in Nat
    BY <1>3 DEF Outside, QuicTypeOK
  <2> QED
    BY <1>1, <1>3, <2>1 DEF Outside, Moved
<1> QED
  BY <1>2, <1>3

\* Every step keeps the order of the answers.
LEMMA OrderStep ==
    ASSUME CollectionsFit, ServeInv, ServeInv', Unconnected, OrderInv, ServerStep
    PROVE  OrderInv'
<1>a. ServerTypeOK
  BY DEF ServeInv
<1>1. ASSUME NEW s \in Streams, HandlerStep(s) \/ AcceptBi(s) PROVE OrderInv'
  <2>1. Frame(s)
    BY <1>1, HandlerStream, AcceptKeeps
  <2>2. ASSUME NEW t \in Streams \ {s} PROVE OrderAt(t)'
    <3>1. Moved(t)
      BY <1>a, <2>1 DEF Frame, Moved, Grown, ServerTypeOK, QuicTypeOK, FilesIntact, OrderInv, OrderAt,
         ClientAt
    <3> QED
      BY <2>1, <3>1, OrderKept DEF Frame, OrderInv
  <2>3. OrderAt(s)'
    <3>1. CASE HandlerStep(s)
      BY <3>1, OrderHandler DEF OrderInv
    <3>2. CASE AcceptBi(s)
      <4>1. hs[s] = "none" /\ hs'[s] = "handshake" /\ UNCHANGED <<bi, down>>
        BY <1>a, <3>2 DEF AcceptBi, quicVars, ServerTypeOK, ProviderTypeOK
      <4>2. bi'[s] = 0 /\ down'[s] = <<>> /\ hs[s] \in Unended
        BY <4>1 DEF OrderInv, OrderAt, StoredAt, EndAt, Unsent, Unended
      <4>3. Still /\ OrderAt(s)
        BY <2>1 DEF Frame, Still, OrderInv
      <4> QED
        BY <4>1, <4>2, <4>3, OrderUnsent
    <3> QED
      BY <1>1, <3>1, <3>2
  <2> QED
    BY <2>2, <2>3 DEF OrderInv
<1>2. CASE LoopStep \/ Outside
  <2>1. UNCHANGED <<hs, bi, ci, log>>
    BY <1>2, <1>a, LoopKeeps DEF Outside, providerVars
  <2>2. UNCHANGED down
    BY <1>2, <1>a, LoopKeeps DEF Outside
  <2>3. ASSUME NEW s \in Streams PROVE OrderAt(s)'
    <3>1. Moved(s)
      BY <1>2, OutsideMoves DEF OrderInv, OrderAt
    <3> QED
      BY <2>1, <2>2, <3>1, OrderKept DEF OrderInv
  <2> QED
    BY <2>3 DEF OrderInv
<1> QED
  BY <1>1, <1>2, StepKinds

\* Nothing is sent at first.
LEMMA OrderInit == QuicInit /\ ProviderInit => OrderInv
<1> SUFFICES ASSUME QuicInit, ProviderInit, NEW s \in Streams PROVE OrderAt(s)
  BY DEF OrderInv
<1>1. /\ hs[s] = "none" /\ bi[s] = 0 /\ down[s] = <<>> /\ acked[s] = {} /\ up[s] = <<>>
      /\ log[s] = <<>>
  BY DEF QuicInit, ProviderInit
<1>2. ~Announced(s) /\ log[s] # Append(RR, TransferCompleted)
  BY <1>1, LogKinds DEF Announced
<1> QED
  BY <1>1, <1>2 DEF OrderAt, StoredAt, EndAt, ClientAt, SentSoFar, PartAt, WholeAt, Serving,
     Sending

(***************************************************************************)
(* How long an answer gets, whatever became of the files: what a getter    *)
(* that has read to the end of it relies on.                               *)
(***************************************************************************)
\* Where the encoding of the next blob starts, and what may have been sent
\* while the handler goes on.
Start(s) == (Segments[Name(s)] + 2) + Len(BlobStreams(BlobsOf(s))[bi[s]])
Room(s) ==
    CASE hs[s] = "found" -> 0
      [] hs[s] = "coll"  -> 1
      [] hs[s] = "blob"  -> Start(s)
      [] hs[s] = "open"  -> Start(s) + 1
      [] hs[s] = "copy"  -> (Start(s) + 1) + ci[s]
      [] hs[s] = "bnf"   -> Start(s) + 1

\* Shorter than n, or n long and ended.
Bounded(q, n) == Len(q) < n \/ (Len(q) = n /\ q[n] = Fin)

LengthAt(s) ==
    /\ hs[s] \in Sending \cup {"bnf"} => Len(down[s]) <= Room(s)
    /\ Announced(s) /\ Stored[Name(s)] = "collection" => Bounded(down[s], Len(Answer(Name(s))))

\* Only the opening of the answer announces a collection, with its size.
Opens(s, it) ==
    it.t = "foundcollection" =>
      /\ Announced(s) /\ Stored[Name(s)] = "collection"
      /\ it.n = TotalBlobsSize[Name(s)]
OpeningAt(s) == \A k \in 1..Len(down[s]) : Opens(s, down[s][k])

\* What is reported completed could be served.
ServableAt(s) == log[s] = Append(RR, TransferCompleted) => Servable(Name(s))

\* Before a request is announced at most the end of the stream is sent.
QuietAt(s) == ~Announced(s) => \A k \in 1..Len(down[s]) : down[s][k] = Fin

ShapeAt(s) == LengthAt(s) /\ OpeningAt(s) /\ ServableAt(s) /\ QuietAt(s)
ShapeInv == \A s \in Streams : ShapeAt(s)

\* The lengths of the parts of an answer.
LEMMA Lengths ==
    ASSUME NEW h \in Collections, NEW n \in 0..Len(Blobs[h])
    PROVE  /\ Blobs[h] \in Seq(Hash) /\ Segments[h] \in Nat
           /\ Len(BlobStreams(Blobs[h])[n]) \in Nat
           /\ Len(BlobStreams(Blobs[h])[0]) = 0
           /\ n < Len(Blobs[h]) =>
                /\ Segments[Blobs[h][n + 1]] \in Nat
                /\ Len(BlobStreams(Blobs[h])[n + 1])
                     = Len(BlobStreams(Blobs[h])[n]) + Segments[Blobs[h][n + 1]] + 2
           /\ Len(Answer(h)) \in Nat
           /\ Segments[h] + 2 + Len(BlobStreams(Blobs[h])[n]) + 1 <= Len(Answer(h))
           /\ n < Len(Blobs[h]) =>
                Segments[h] + 2 + Len(BlobStreams(Blobs[h])[n])
                  + Segments[Blobs[h][n + 1]] + 3 <= Len(Answer(h))
<1> DEFINE B == BlobStreams(Blobs[h])
           N == Len(Blobs[h])
<1>1. /\ h \in Hash /\ Blobs[h] \in Seq(Hash) /\ Segments[h] \in Nat /\ TotalBlobsSize[h] \in Nat
      /\ N \in Nat /\ \A i \in 1..N : Blobs[h][i] \in Hash /\ Segments[Blobs[h][i]] \in Nat
  BY HashAssumption
<1>2. \A m \in 0..N : B[m] \in Seq(Items) /\ Len(B[m]) \in Nat /\ Part(B[m], B[N])
  <2>1. \A m \in 0..N : B[m] \in Seq(Items) /\ Part(B[m], B[N])
    BY <1>1, BlobStreamFacts
  <2> QED
    BY <2>1, LenProperties
<1>3. \A m \in 0..N : Len(B[m]) <= Len(B[N])
  <2> TAKE m \in 0..N
  <2>1. PICK r \in Seq(Items) : B[N] = B[m] \o r
    BY <1>2 DEF Part
  <2> HIDE DEF B, N
  <2>2. B[m] \in Seq(Items)
    BY <1>2
  <2>3. Len(B[m] \o r) = Len(B[m]) + Len(r) /\ Len(r) \in Nat
    BY <2>2, ConcatProperties
  <2> QED
    BY <1>2, <2>1, <2>2, <2>3
<1>4. ASSUME NEW m \in 0..N, m < N
      PROVE  Len(B[m + 1]) = Len(B[m]) + Segments[Blobs[h][m + 1]] + 2
  <2> DEFINE b == Blobs[h][m + 1]
  <2>1. b \in Hash /\ Segments[b] \in Nat
    BY <1>1, <1>4
  <2>2. Enc(b) \in Seq(Items) /\ Len(Enc(b)) = Segments[b] + 1 /\ <<Found>> \in Seq(Items)
    BY <2>1, ItemFacts
  <2>3. B[m + 1] = B[m] \o (<<Found>> \o Enc(b))
    BY <1>1, <1>4, BlobStreamFacts
  <2> HIDE DEF b, B, N
  <2>4. Len(<<Found>> \o Enc(b)) = 1 + Len(Enc(b)) /\ <<Found>> \o Enc(b) \in Seq(Items)
    BY <2>2, ConcatProperties
  <2>5. Len(B[m] \o (<<Found>> \o Enc(b))) = Len(B[m]) + Len(<<Found>> \o Enc(b))
    BY <1>2, <2>4, ConcatProperties
  <2>6. Len(B[m + 1]) = Len(B[m]) + (1 + (Segments[b] + 1)) /\ Len(B[m]) \in Nat
    BY <1>2, <2>2, <2>3, <2>4, <2>5
  <2>7. Len(B[m + 1]) = Len(B[m]) + Segments[b] + 2
    BY <2>1, <2>6
  <2> QED
    BY <2>7 DEF b
<1>5. Len(Answer(h)) = Segments[h] + 2 + Len(B[N]) + 1
  <2>1. Enc(h) \in Seq(Items) /\ Len(Enc(h)) = Segments[h] + 1 /\ Opening(h) \in Seq(Items)
        /\ Len(Opening(h)) = 1 /\ <<Fin>> \in Seq(Items)
    BY <1>1, ItemFacts DEF Opening
  <2>2. Answer(h) = (Leading(h) \o B[N]) \o <<Fin>>
    BY AnswerFacts
  <2> HIDE DEF B, N
  <2>3. Leading(h) \in Seq(Items) /\ Len(Leading(h)) = 1 + (Segments[h] + 1)
    <3>1. Len(Opening(h) \o Enc(h)) = Len(Opening(h)) + Len(Enc(h)) /\ Opening(h) \o Enc(h) \in Seq(Items)
      BY <2>1, ConcatProperties
    <3> QED
      BY <1>1, <2>1, <3>1 DEF Leading
  <2>4. N \in 0..N
    BY <1>1
  <2>5. Leading(h) \o B[N] \in Seq(Items) /\ Len(Leading(h) \o B[N]) = Len(Leading(h)) + Len(B[N])
    BY <1>2, <2>3, <2>4, ConcatProperties
  <2>6. Len((Leading(h) \o B[N]) \o <<Fin>>) = Len(Leading(h) \o B[N]) + 1
    BY <2>1, <2>5, ConcatProperties
  <2> QED
    BY <1>1, <1>2, <2>2, <2>3, <2>4, <2>5, <2>6
<1>6. B[0] = <<>>
  BY <1>1, BlobStreamFacts
<1>7. n \in 0..N /\ N \in 0..N /\ (n < N => n + 1 \in 0..N /\ n + 1 \in 1..N)
  BY <1>1
<1> HIDE DEF B, N
<1>8. Len(B[0]) = 0
  BY <1>6
<1>9. Len(Answer(h)) \in Nat /\ Segments[h] + 2 + Len(B[n]) + 1 <= Len(Answer(h))
  <2>1. Len(B[n]) \in Nat /\ Len(B[N]) \in Nat /\ Len(B[n]) <= Len(B[N])
    BY <1>2, <1>3, <1>7
  <2>2. Segments[h] \in Nat
    BY <1>1
  <2>3. \A x, y, z \in Nat : y <= z => x + 2 + z + 1 \in Nat /\ x + 2 + y + 1 <= x + 2 + z + 1
    OBVIOUS
  <2> QED
    BY <1>5, <2>1, <2>2, <2>3, Zenon
<1>10. n < N => Segments[h] + 2 + Len(B[n]) + Segments[Blobs[h][n + 1]] + 3 <= Len(Answer(h))
  <2> SUFFICES ASSUME n < N
               PROVE  Segments[h] + 2 + Len(B[n]) + Segments[Blobs[h][n + 1]] + 3 <= Len(Answer(h))
    OBVIOUS
  <2>1. Len(B[n + 1]) = Len(B[n]) + Segments[Blobs[h][n + 1]] + 2 /\ Len(B[n + 1]) <= Len(B[N])
    BY <1>3, <1>4, <1>7
  <2>2. /\ Segments[Blobs[h][n + 1]] \in Nat /\ Segments[h] \in Nat
        /\ Len(B[n]) \in Nat /\ Len(B[N]) \in Nat
    BY <1>1, <1>2, <1>7
  <2>3. \A x, y, z, u \in Nat : y + u + 2 <= z => x + 2 + y + u + 3 <= x + 2 + z + 1
    OBVIOUS
  <2>4. Len(B[n]) + Segments[Blobs[h][n + 1]] + 2 <= Len(B[N])
    BY <2>1
  <2> QED
    BY <1>5, <2>2, <2>3, <2>4, Zenon
<1> QED
  BY <1>1, <1>2, <1>4, <1>7, <1>8, <1>9, <1>10 DEF B, N

\* Only one kind of item announces a collection.
LEMMA NoOpening ==
    /\ Fin.t # "foundcollection" /\ Found.t # "foundcollection"
    /\ NotFound.t # "foundcollection" /\ Corrupt.t # "foundcollection"
    /\ \A h \in Hash : \A k \in 1..(Segments[h] + 1) : Enc(h)[k].t # "foundcollection"
<1>1. /\ Fin.t # "foundcollection" /\ Found.t # "foundcollection"
      /\ NotFound.t # "foundcollection" /\ Corrupt.t # "foundcollection"
  BY DEF Fin, Found, NotFound, Corrupt
<1>2. ASSUME NEW h \in Hash, NEW k \in 1..(Segments[h] + 1)
      PROVE  Enc(h)[k].t # "foundcollection"
  <2>1. Enc(h)[k] = IF k = 1 THEN Size(Segments[h]) ELSE Data(h, k - 1)
    BY DEF Enc
  <2> QED
    BY <2>1 DEF Size, Data
<1> QED
  BY <1>1, <1>2

\* What the handler on s adds to its stream: nothing when the client's end is
\* gone, and the announcement of the collection only in its place.
Addition(s, q) ==
    /\ down'[s] = down[s] \o q
    /\ cside[ConnOf[s]] # "open" => q = <<>>
    /\ \A k \in 1..Len(q) : q[k].t = "foundcollection" =>
         hs[s] = "found" /\ q[k].n = TotalBlobsSize[Name(s)]
Adds(s) == \E q \in Seq(Items) : Addition(s, q)

\* Nothing is added.
LEMMA AddsNothing ==
    ASSUME ServerTypeOK, NEW s \in Streams, down'[s] = down[s]
    PROVE  Adds(s)
<1>1. down[s] \in Seq(Items) /\ <<>> \in Seq(Items)
  BY DEF ServerTypeOK, QuicTypeOK
<1>2. down[s] \o <<>> = down[s]
  BY <1>1, ConcatEmptySeq
<1>3. Addition(s, <<>>)
  BY <1>2 DEF Addition
<1> QED
  BY <1>1, <1>3 DEF Adds

\* A write adds what is written.
LEMMA AddsSent ==
    ASSUME ServerTypeOK, NEW s \in Streams, NEW q \in Seq(Items), SendDown(s, q),
           \A k \in 1..Len(q) : q[k].t = "foundcollection" =>
             hs[s] = "found" /\ q[k].n = TotalBlobsSize[Name(s)]
    PROVE  Adds(s)
<1>1. CASE cside[ConnOf[s]] = "open"
  BY <1>1, SendEffect DEF Adds, Addition
<1>2. CASE cside[ConnOf[s]] # "open"
  BY <1>2, SendEffect, AddsNothing
<1> QED
  BY <1>1, <1>2

\* A dropped writer adds the end of the stream.
LEMMA AddsEnd ==
    ASSUME ServerTypeOK, NEW s \in Streams, DropWriter(s)
    PROVE  Adds(s)
<1>1. CASE down'[s] = down[s]
  BY <1>1, AddsNothing
<1>2. CASE cside[ConnOf[s]] = "open" /\ down'[s] = down[s] \o <<Fin>>
  <2>1. <<Fin>> \in Seq(Items) /\ \A k \in 1..Len(<<Fin>>) : <<Fin>>[k] = Fin
    BY ItemFacts
  <2>2. Addition(s, <<Fin>>)
    BY <1>2, <2>1, NoOpening DEF Addition
  <2> QED
    BY <2>1, <2>2 DEF Adds
<1> QED
  BY <1>1, <1>2, DropEnds

\* Every step of a handler only adds to its stream.
LEMMA HandlerAdds ==
    ASSUME ServeInv, NEW s \in Streams, HandlerStep(s)
    PROVE  Adds(s)
<1>a. ServerTypeOK /\ ReadAt(s) /\ IndexAt(s)
  BY DEF ServeInv, StreamAt
<1>b. ASSUME NEW it \in Items, SendDown(s, <<it>>), it.t # "foundcollection" PROVE Adds(s)
  <2>1. <<it>> \in Seq(Items) /\ \A k \in 1..Len(<<it>>) : <<it>>[k] = it
    OBVIOUS
  <2> QED
    BY <1>a, <1>b, <2>1, AddsSent
<1>1. CASE ReadHandshake(s) \/ ReadRequest(s) \/ ReadExtra(s) \/ ReadError(s)
  <2>1. DropWriter(s) \/ down' = down
    BY <1>1 DEF ReadHandshake, ReadRequest, ReadExtra, ReadError, OnlyRead, ReadingFails, Panics
  <2> QED
    BY <1>a, <2>1, AddsEnd, AddsNothing
<1>2. CASE WriteNotFound(s) \/ RepeatNotFound(s)
  <2>1. SendDown(s, <<NotFound, Fin>>)
    BY <1>2 DEF WriteNotFound, RepeatNotFound
  <2>2. <<NotFound, Fin>> \in Seq(Items) /\ Len(<<NotFound, Fin>>) = 2
        /\ \A k \in 1..2 : <<NotFound, Fin>>[k] \in {NotFound, Fin}
    BY ItemFacts
  <2>3. \A k \in 1..Len(<<NotFound, Fin>>) : <<NotFound, Fin>>[k].t # "foundcollection"
    BY <2>2, NoOpening
  <2> QED
    BY <1>a, <2>1, <2>2, <2>3, AddsSent
<1>3. CASE NotFoundFails(s) \/ OpenFileFails(s) \/ CopyFails(s) \/ Finish(s) \/ WriteFails(s)
  <2>1. DropWriter(s)
    BY <1>3 DEF NotFoundFails, OpenFileFails, CopyFails, Finish, WriteFails, TransferFails
  <2> QED
    BY <1>a, <2>1, AddsEnd
<1>4. CASE WriteFoundCollection(s)
  <2> DEFINE q == <<FoundCollection(TotalBlobsSize[Name(s)])>>
  <2>1. hs[s] = "found" /\ SendDown(s, q)
    BY <1>4 DEF WriteFoundCollection
  <2>2. TotalBlobsSize[Name(s)] \in Nat
    BY <1>a, <2>1, ServedName, HashAssumption DEF Serving
  <2>3. q \in Seq(Items) /\ Len(q) = 1 /\ q[1] = FoundCollection(TotalBlobsSize[Name(s)])
    BY <2>2, ItemFacts
  <2>4. \A k \in 1..Len(q) : q[k].n = TotalBlobsSize[Name(s)]
    BY <2>3 DEF FoundCollection
  <2> HIDE DEF q
  <2> QED
    BY <1>a, <2>1, <2>3, <2>4, AddsSent
<1>5. CASE WriteCollection(s)
  <2> DEFINE e == Enc(Name(s))
             k == IF Len(e) <= Credit(s) THEN Len(e) ELSE Credit(s)
  <2>1. hs[s] = "coll" /\ SendDown(s, SubSeq(e, 1, k)) /\ CanSendDown(s)
    BY <1>5 DEF WriteCollection
  <2>2. Name(s) \in Hash
    BY <1>a, <2>1, ServedName DEF Serving
  <2>3. e \in Seq(Items) /\ Len(e) = Segments[Name(s)] + 1 /\ Segments[Name(s)] \in Nat
    BY <2>2, ItemFacts, HashAssumption
  <2>4. Credit(s) \in Int /\ Credit(s) >= 0
    BY <1>a, <2>1, QuicAssumption DEF CanSendDown, Credit, ServerTypeOK, QuicTypeOK
  <2>5. k \in Nat /\ k <= Len(e)
    BY <2>3, <2>4
  <2>6. \A i \in 1..k : e[i] \in Items /\ e[i].t # "foundcollection"
    BY <2>2, <2>3, <2>5, NoOpening, ItemFacts
  <2> HIDE DEF e, k
  <2>7. SubSeq(e, 1, k) \in Seq(Items) /\ Len(SubSeq(e, 1, k)) = k
        /\ \A i \in 1..k : SubSeq(e, 1, k)[i] = e[i]
    BY <2>3, <2>5, <2>6
  <2> QED
    BY <1>a, <2>1, <2>6, <2>7, AddsSent
<1>6. CASE WriteFound(s) \/ WriteBlobNotFound(s)
  BY <1>6, <1>b, NoOpening, ItemFacts DEF WriteFound, WriteBlobNotFound
<1>7. CASE OpenFile(s) \/ FinishDone(s)
  BY <1>7, <1>a, AddsNothing DEF OpenFile, FinishDone, quicVars
<1>8. CASE CopyItem(s)
  <2>1. hs[s] = "copy" /\ SendDown(s, <<ItemRead(s)>>)
    BY <1>8 DEF CopyItem
  <2>2. Blob(s) \in Hash /\ ci[s] \in Nat /\ ci[s] <= Segments[Blob(s)]
    BY <1>a, <2>1, ServedName DEF IndexAt, Serving, ServerTypeOK, ProviderTypeOK
  <2>3. Segments[Blob(s)] \in Nat
    BY <2>2, HashAssumption
  <2>4. ci[s] + 1 \in 1..(Segments[Blob(s)] + 1)
    BY <2>2, <2>3
  <2>5. ItemRead(s) \in Items /\ ItemRead(s).t # "foundcollection"
    BY <2>2, <2>4, NoOpening, ItemFacts DEF ItemRead
  <2> QED
    BY <1>b, <2>1, <2>5
<1> QED
  BY <1>1, <1>2, <1>3, <1>4, <1>5, <1>6, <1>7, <1>8 DEF HandlerStep

\* A write adds at most its length.
LEMMA SendGrows ==
    ASSUME ServerTypeOK, NEW s \in Streams, NEW q \in Seq(Items), SendDown(s, q)
    PROVE  /\ Len(down[s]) \in Nat /\ Len(down'[s]) \in Nat
           /\ Len(down'[s]) <= Len(down[s]) + Len(q)
<1>1. down[s] \in Seq(Items) /\ Len(q) \in Nat /\ Len(down[s]) \in Nat
  BY DEF ServerTypeOK, QuicTypeOK
<1>2. Len(down[s] \o q) = Len(down[s]) + Len(q)
  BY <1>1, ConcatProperties
<1>3. down'[s] = down[s] \/ down'[s] = down[s] \o q
  BY SendEffect
<1> QED
  BY <1>1, <1>2, <1>3

\* Ending a stream keeps it within its bound.
LEMMA EndBounded ==
    ASSUME ServerTypeOK, NEW s \in Streams, DropWriter(s), NEW n \in Nat \ {0}, Bounded(down[s], n)
    PROVE  Bounded(down'[s], n)
<1>1. CASE down'[s] = down[s]
  BY <1>1
<1>2. CASE down'[s] = down[s] \o <<Fin>> /\ down'[s] # down[s]
  <2>1. down[s] \in Seq(Items) /\ Len(down[s]) \in Nat /\ <<Fin>> \in Seq(Items) /\ ~Ended(down[s])
    BY <1>2, DropEnds, ItemFacts
  <2>2. Len(down[s]) < n
    <3>1. CASE down[s] = <<>>
      BY <3>1
    <3>2. CASE down[s] # <<>>
      BY <2>1, <3>2 DEF Bounded, Ended
    <3> QED
      BY <3>1, <3>2
  <2>3. Len(down'[s]) = Len(down[s]) + 1 /\ down'[s][Len(down[s]) + 1] = Fin
    BY <1>2, <2>1
  <2> QED
    BY <2>1, <2>2, <2>3 DEF Bounded
<1> QED
  BY <1>1, <1>2, DropEnds

\* What is sent while the handler goes on leaves room for the rest.
RoomAt(s) ==
    hs[s] \in Sending \cup {"bnf"} =>
      /\ Room(s) \in Nat /\ Len(Answer(Name(s))) \in Nat
      /\ Room(s) < Len(Answer(Name(s)))
      /\ hs[s] = "bnf" => Room(s) + 2 <= Len(Answer(Name(s)))

\* So it is in every state.
LEMMA RoomLeft == ServeInv /\ OrderInv => \A s \in Streams : RoomAt(s)
<1> SUFFICES ASSUME ServeInv, OrderInv, NEW s \in Streams, hs[s] \in Sending \cup {"bnf"}
             PROVE  RoomAt(s)
  BY DEF RoomAt
<1> DEFINE h == Name(s)
           n == bi[s]
           L == Len(BlobStreams(Blobs[h])[n])
           A == Len(Answer(h))
           S == Segments[h]
           U == Segments[Blobs[h][n + 1]]
<1>1. hs[s] \in Serving /\ ServerTypeOK /\ ReadAt(s) /\ IndexAt(s) /\ StoredAt(s) /\ ci[s] \in Nat
  BY DEF ServeInv, StreamAt, Serving, Sending, OrderInv, OrderAt, ServerTypeOK, ProviderTypeOK
<1>2. h \in Collections /\ n \in Nat /\ n <= Len(Blobs[h])
  BY <1>1, ServedName DEF StoredAt, BlobsOf
<1>3. Blobs[h] \in Seq(Hash) /\ n \in 0..Len(Blobs[h])
  BY <1>2, HashAssumption
<1>4. /\ S \in Nat /\ L \in Nat /\ A \in Nat /\ S + 2 + L + 1 <= A
      /\ n < Len(Blobs[h]) => U \in Nat /\ S + 2 + L + U + 3 <= A
  BY <1>2, <1>3, Lengths
<1>5. Start(s) = (S + 2) + L
  BY DEF Start, BlobsOf
<1>6. hs[s] \in {"open", "copy", "bnf"} => n < Len(Blobs[h])
  BY <1>1 DEF IndexAt, HasBlob, BlobsOf
<1>7. hs[s] = "copy" => ci[s] <= U
  BY <1>1 DEF IndexAt, Blob, BlobsOf
<1> HIDE DEF h, n, L, A, S, U
<1>8. /\ Room(s) \in Nat /\ A \in Nat /\ Room(s) < A
      /\ hs[s] = "bnf" => Room(s) + 2 <= A
  <2>1. CASE hs[s] \in {"found", "coll", "blob"}
    <3>1. Room(s) \in {0, 1, (S + 2) + L}
      BY <1>5, <2>1 DEF Room
    <3> QED
      BY <1>4, <2>1, <3>1
  <2>2. CASE hs[s] \in {"open", "bnf"}
    <3>1. Room(s) = ((S + 2) + L) + 1
      BY <1>5, <2>2 DEF Room
    <3> QED
      BY <1>4, <1>6, <2>2, <3>1
  <2>3. CASE hs[s] = "copy"
    <3>1. Room(s) = (((S + 2) + L) + 1) + ci[s]
      BY <1>5, <2>3 DEF Room
    <3> QED
      BY <1>1, <1>4, <1>6, <1>7, <2>3, <3>1
  <2> QED
    BY <2>1, <2>2, <2>3 DEF Sending
<1> QED
  BY <1>8 DEF RoomAt, A, h

\* And after every step.
LEMMA RoomNext == ServeInv' /\ OrderInv' => (\A s \in Streams : RoomAt(s))'
BY RoomLeft, PTL

\* A request once announced stays so.
LEMMA AnnouncedKept ==
    ASSUME ServeInv, NEW s \in Streams, HandlerStep(s), Announced(s)
    PROVE  Announced(s)'
<1>a. /\ hs[s] \in Serving \cup Refusing \cup {"done"} /\ log \in [Streams -> Seq(Events)]
      /\ hs[s] \in Serving => log[s] = RR
  BY AnnouncedStates DEF Told, ServeInv, ServerTypeOK, ProviderTypeOK
<1>1. ASSUME TransferFails(s), hs[s] \in Serving PROVE Announced(s)'
  BY <1>1, <1>a DEF TransferFails, Emit, Announced
<1>2. CASE FinishDone(s)
  <2>1. CASE hs[s] \in {"finish", "bnfFinish"}
    BY <1>a, <1>2, <2>1 DEF FinishDone, Emit, Announced, Serving
  <2>2. CASE hs[s] = "nfFinish"
    BY <1>2, <2>2 DEF FinishDone, Announced
  <2> QED
    BY <1>2, <2>1, <2>2 DEF FinishDone, Awaiting
<1>3. CASE ReadHandshake(s) \/ ReadRequest(s) \/ ReadExtra(s) \/ ReadError(s)
  BY <1>a, <1>3 DEF ReadHandshake, ReadRequest, ReadExtra, ReadError, Reading, Serving, Refusing
<1>4. CASE OpenFileFails(s) \/ CopyFails(s) \/ WriteFails(s)
  BY <1>1, <1>4 DEF OpenFileFails, CopyFails, WriteFails, Writing, Serving
<1>5. ASSUME UNCHANGED log PROVE Announced(s)'
  BY <1>5 DEF Announced
<1>6. CASE WriteNotFound(s) \/ NotFoundFails(s) \/ WriteFoundCollection(s) \/ WriteCollection(s)
           \/ WriteFound(s) \/ WriteBlobNotFound(s) \/ RepeatNotFound(s) \/ OpenFile(s)
           \/ CopyItem(s) \/ Finish(s)
  BY <1>5, <1>6 DEF WriteNotFound, NotFoundFails, WriteFoundCollection, WriteCollection, WriteFound,
     WriteBlobNotFound, RepeatNotFound, OpenFile, CopyItem, Finish
<1> QED
  BY <1>2, <1>3, <1>4, <1>6 DEF HandlerStep

\* The announcement of the collection is in its place.
LEMMA HandlerOpens ==
    ASSUME ServeInv, NEW s \in Streams, HandlerStep(s), OpeningAt(s)
    PROVE  OpeningAt(s)'
<1>a. Still /\ ServerTypeOK /\ ReadAt(s)
  BY HandlerStream DEF Frame, Still, ServeInv, StreamAt
<1>b. Name(s)' = Name(s)
  BY <1>a, StillFacts
<1>c. Announced(s) => Announced(s)'
  BY AnnouncedKept
<1>d. hs[s] = "found" => Announced(s) /\ Stored[Name(s)] = "collection"
  BY <1>a, AnnouncedStates DEF Told, ReadAt, Serving
<1>1. PICK q \in Seq(Items) : Addition(s, q)
  BY HandlerAdds DEF Adds
<1>2. down[s] \in Seq(Items)
  BY <1>a DEF ServerTypeOK, QuicTypeOK
<1> SUFFICES ASSUME NEW k \in 1..Len(down'[s]) PROVE Opens(s, down[s][k])'
  BY DEF OpeningAt
<1>3. /\ Len(down'[s]) = Len(down[s]) + Len(q) /\ Len(down[s]) \in Nat /\ Len(q) \in Nat
      /\ down'[s][k] = IF k <= Len(down[s]) THEN down[s][k] ELSE q[k - Len(down[s])]
  BY <1>1, <1>2, ConcatProperties DEF Addition
<1>4. CASE k <= Len(down[s])
  <2>1. k \in 1..Len(down[s]) /\ down'[s][k] = down[s][k]
    BY <1>3, <1>4
  <2> QED
    BY <1>b, <1>c, <2>1 DEF OpeningAt, Opens
<1>5. CASE k > Len(down[s])
  <2>1. k - Len(down[s]) \in 1..Len(q) /\ down'[s][k] = q[k - Len(down[s])]
    BY <1>3, <1>5
  <2> QED
    BY <1>1, <1>b, <1>c, <1>d, <2>1 DEF Addition, Opens
<1> QED
  BY <1>3, <1>4, <1>5

\* What is reported completed could be served.
LEMMA HandlerServable ==
    ASSUME ServeInv, NEW s \in Streams, HandlerStep(s), StoredAt(s), ServableAt(s)
    PROVE  ServableAt(s)'
<1>a. Still /\ ServerTypeOK /\ ReadAt(s) /\ log \in [Streams -> Seq(Events)]
  BY HandlerStream DEF Frame, Still, ServeInv, StreamAt, ServerTypeOK, ProviderTypeOK
<1>b. Name(s)' = Name(s)
  BY <1>a, StillFacts
<1>1. CASE FinishDone(s) /\ hs[s] = "finish"
  <2>1. /\ Stored[Name(s)] = "collection" /\ bi[s] = Len(BlobsOf(s)) /\ BlobsOf(s) \in Seq(Hash)
        /\ \A i \in 1..bi[s] : Stored[BlobsOf(s)[i]] = "blob"
    BY <1>1, <1>a, ServedName DEF ReadAt, StoredAt, Serving
  <2>2. DOMAIN BlobsOf(s) = 1..bi[s]
    BY <2>1
  <2> QED
    BY <1>b, <2>1, <2>2 DEF ServableAt, Servable, BlobsOf
<1>2. CASE ~(FinishDone(s) /\ hs[s] = "finish")
  <2>1. ASSUME log'[s] = log[s] PROVE ServableAt(s)'
    BY <1>b, <2>1 DEF ServableAt
  <2>2. ASSUME ~Announced(s)' PROVE ServableAt(s)'
    BY <2>2 DEF ServableAt, Announced
  <2>3. ASSUME log'[s] = Append(RR, TransferAborted) PROVE ServableAt(s)'
    BY <2>3, LogKinds DEF ServableAt
  <2>4. ASSUME hs[s] \in Serving, TransferFails(s) \/ FinishDone(s) PROVE ServableAt(s)'
    <3>1. log[s] = RR
      BY <2>4, AnnouncedStates DEF Told
    <3> QED
      BY <1>2, <1>a, <2>3, <2>4, <3>1 DEF TransferFails, FinishDone, Emit, Awaiting, Serving
  <2>5. CASE FinishDone(s)
    BY <2>1, <2>4, <2>5 DEF FinishDone, Awaiting, Serving
  <2>6. CASE OpenFileFails(s) \/ CopyFails(s) \/ WriteFails(s)
    BY <2>4, <2>6 DEF OpenFileFails, CopyFails, WriteFails, Writing, Serving
  <2>7. CASE \/ WriteNotFound(s) \/ NotFoundFails(s) \/ WriteFoundCollection(s)
             \/ WriteCollection(s) \/ WriteFound(s) \/ WriteBlobNotFound(s) \/ RepeatNotFound(s)
             \/ OpenFile(s) \/ CopyItem(s) \/ Finish(s)
    BY <2>1, <2>7 DEF WriteNotFound, NotFoundFails, WriteFoundCollection, WriteCollection,
       WriteFound, WriteBlobNotFound, RepeatNotFound, OpenFile, CopyItem, Finish
  <2>8. CASE ReadHandshake(s) \/ ReadRequest(s) \/ ReadExtra(s) \/ ReadError(s)
    <3>1. hs[s] \in Reading
      BY <2>8 DEF ReadHandshake, ReadRequest, ReadExtra, ReadError, Reading
    <3>2. log[s] = CC
      BY <3>1, LegalStates DEF ServeInv, EventProtocol
    <3>3. log'[s] \in {CC, Append(CC, EarlyAborted), RR, Append(RR, TransferAborted)}
      BY <1>a, <2>8, <3>2, LogFacts DEF ReadHandshake, ReadRequest, ReadExtra, ReadError, ReadingFails,
         Panics, Emit
    <3> QED
      BY <3>3, LogKinds DEF ServableAt
  <2> QED
    BY <2>5, <2>6, <2>7, <2>8 DEF HandlerStep
<1> QED
  BY <1>1, <1>2

\* While a handler goes on it sends what there is room for.
LEMMA HandlerRoom ==
    ASSUME ServeInv, OrderInv, NEW s \in Streams, HandlerStep(s), LengthAt(s),
           hs'[s] \in Sending \cup {"bnf"}
    PROVE  Len(down'[s]) <= Room(s)'
<1> DEFINE h == Name(s)
           n == bi[s]
           L == Len(BlobStreams(Blobs[h])[n])
           S == Segments[h]
           U == Segments[Blobs[h][n + 1]]
           D == Len(down[s])
           E == Len(down'[s])
<1>a. /\ Still /\ ServerTypeOK /\ ReadAt(s) /\ IndexAt(s) /\ OrderAt(s)
      /\ StoredAt(s) /\ EndAt(s)
  BY HandlerStream DEF Frame, Still, ServeInv, StreamAt, OrderInv, OrderAt
<1>b. /\ Name(s)' = h /\ BlobsOf(s)' = BlobsOf(s) /\ BlobsOf(s) = Blobs[h]
  BY <1>a, StillFacts DEF BlobsOf
<1>c. /\ hs \in [Streams -> HandlerStates] /\ bi \in [Streams -> Nat] /\ ci \in [Streams -> Nat]
      /\ down \in [Streams -> Seq(Items)] /\ D \in Nat
  BY <1>a DEF ServerTypeOK, ProviderTypeOK, QuicTypeOK
<1>d. ASSUME hs[s] \in Serving
      PROVE  /\ h \in Collections /\ n \in 0..Len(Blobs[h]) /\ S \in Nat /\ L \in Nat
             /\ n < Len(Blobs[h]) =>
                  U \in Nat /\ Len(BlobStreams(Blobs[h])[n + 1]) = L + U + 2
             /\ Len(BlobStreams(Blobs[h])[0]) = 0
  <2>1. h \in Collections /\ n \in Nat /\ n <= Len(Blobs[h]) /\ Blobs[h] \in Seq(Hash)
    BY <1>a, <1>d, ServedName DEF StoredAt, BlobsOf
  <2>2. n \in 0..Len(Blobs[h])
    BY <2>1
  <2> QED
    BY <2>1, <2>2, Lengths
<1>e. Start(s) = (S + 2) + L
  BY DEF Start, BlobsOf
<1>f. ASSUME NEW it \in Items, SendDown(s, <<it>>) PROVE E \in Nat /\ E <= D + 1
  <2>1. <<it>> \in Seq(Items) /\ Len(<<it>>) = 1
    OBVIOUS
  <2> QED
    BY <1>a, <1>f, <2>1, SendGrows
<1>1. CASE ReadExtra(s)
  <2>1. hs'[s] = "found" /\ down'[s] = <<>>
    BY <1>1, <1>a, <1>c DEF ReadExtra, Goto, ReadingFails, OnlyRead, EndAt, Unsent, Reading, Sending
  <2>2. Room(s)' = 0
    BY <2>1 DEF Room
  <2> QED
    BY <2>1, <2>2
<1>2. CASE WriteFoundCollection(s)
  <2>1. /\ hs[s] = "found" /\ hs'[s] = "coll" /\ D <= Room(s)
        /\ SendDown(s, <<FoundCollection(TotalBlobsSize[h])>>)
    BY <1>2, <1>c DEF WriteFoundCollection, Goto, LengthAt, Sending
  <2>2. FoundCollection(TotalBlobsSize[h]) \in Items
    BY <1>a, <2>1, ServedName, ItemFacts DEF Serving
  <2>3. Room(s) = 0 /\ Room(s)' = 1
    BY <2>1 DEF Room
  <2>4. E \in Nat /\ E <= D + 1
    BY <1>f, <2>1, <2>2
  <2> HIDE DEF D, E
  <2> QED
    BY <1>c, <2>1, <2>3, <2>4 DEF E
<1>3. CASE WriteCollection(s)
  <2> DEFINE e == Enc(h)
             k == IF Len(e) <= Credit(s) THEN Len(e) ELSE Credit(s)
  <2>1. /\ hs[s] = "coll" /\ hs'[s] = "blob" /\ D <= Room(s) /\ bi'[s] = n
        /\ SendDown(s, SubSeq(e, 1, k)) /\ CanSendDown(s)
    BY <1>3, <1>c DEF WriteCollection, Goto, LengthAt, Sending
  <2>2. h \in Hash /\ S \in Nat /\ n = 0 /\ L = 0
    BY <1>a, <1>d, <2>1, ServedName DEF Serving, StoredAt
  <2>3. e \in Seq(Items) /\ Len(e) = S + 1
    BY <2>2, ItemFacts
  <2>4. Credit(s) \in Int /\ Credit(s) >= 0
    BY <1>a, <2>1, QuicAssumption DEF CanSendDown, Credit, ServerTypeOK, QuicTypeOK
  <2>5. k \in Nat /\ k <= S + 1
    BY <2>2, <2>3, <2>4
  <2>6. \A i \in 1..k : e[i] \in Items
    BY <2>3, <2>5
  <2>7. Room(s) = 1 /\ Room(s)' = Start(s)'
    BY <2>1 DEF Room
  <2>8. Start(s)' = (S + 2) + L
    BY <1>b, <2>1 DEF Start
  <2> HIDE DEF e, k, D, E, h, n, L, S, U
  <2>9. SubSeq(e, 1, k) \in Seq(Items) /\ Len(SubSeq(e, 1, k)) = k
    BY <2>3, <2>5, <2>6
  <2>10. E \in Nat /\ E <= D + k
    BY <1>a, <2>1, <2>9, SendGrows DEF D, E
  <2> QED
    BY <1>c, <2>1, <2>2, <2>5, <2>7, <2>8, <2>10 DEF E
<1>4. CASE WriteFound(s) \/ WriteBlobNotFound(s)
  <2>1. /\ hs[s] = "blob" /\ hs'[s] \in {"open", "bnf"} /\ D <= Room(s) /\ bi'[s] = n
        /\ SendDown(s, <<Found>>) \/ SendDown(s, <<NotFound>>)
    BY <1>4, <1>c DEF WriteFound, WriteBlobNotFound, Goto, LengthAt, Sending
  <2>2. E \in Nat /\ E <= D + 1
    BY <1>f, <2>1, ItemFacts
  <2>3. Room(s) = Start(s) /\ Room(s)' = Start(s)' + 1
    BY <2>1 DEF Room
  <2>4. Start(s)' = (S + 2) + L /\ S \in Nat /\ L \in Nat
    BY <1>b, <1>d, <2>1 DEF Start, Serving
  <2> HIDE DEF D, E, h, n, L, S, U
  <2> QED
    BY <1>c, <1>e, <2>1, <2>2, <2>3, <2>4 DEF E
<1>5. CASE OpenFile(s)
  <2>1. /\ hs[s] = "open" /\ hs'[s] = "copy" /\ D <= Room(s) /\ bi'[s] = n /\ ci'[s] = 0
        /\ down' = down
    BY <1>5, <1>c DEF OpenFile, Goto, LengthAt, Sending, quicVars
  <2>3. Room(s) = Start(s) + 1 /\ Room(s)' = (Start(s)' + 1) + 0
    BY <2>1 DEF Room
  <2>4. Start(s)' = (S + 2) + L /\ S \in Nat /\ L \in Nat
    BY <1>b, <1>d, <2>1 DEF Start, Serving
  <2>5. E = D
    BY <2>1
  <2> HIDE DEF D, E, h, n, L, S, U
  <2> QED
    BY <1>c, <1>e, <2>1, <2>3, <2>4, <2>5 DEF E
<1>6. CASE CopyItem(s)
  <2>1. /\ hs[s] = "copy" /\ D <= Room(s) /\ SendDown(s, <<ItemRead(s)>>)
        /\ ci[s] \in Nat /\ ci[s] <= U /\ n < Len(Blobs[h])
    BY <1>6, <1>a, <1>b, <1>c DEF CopyItem, LengthAt, Sending, IndexAt, HasBlob, Blob
  <2>2. Blob(s) \in Hash /\ S \in Nat /\ L \in Nat /\ U \in Nat
        /\ Len(BlobStreams(Blobs[h])[n + 1]) = L + U + 2
    BY <1>a, <1>d, <2>1, ServedName DEF IndexAt, Serving
  <2>3. U = Segments[Blob(s)] /\ ci[s] + 1 \in 1..(Segments[Blob(s)] + 1)
    BY <1>b, <2>1, <2>2 DEF Blob
  <2>4. ItemRead(s) \in Items
    BY <2>2, <2>3, ItemFacts DEF ItemRead
  <2>5. E \in Nat /\ E <= D + 1
    BY <1>f, <2>1, <2>4
  <2>6. Room(s) = (Start(s) + 1) + ci[s]
    BY <2>1 DEF Room
  <2>7. CASE ci' = [ci EXCEPT ![s] = @ + 1] /\ UNCHANGED <<hs, bi>>
    <3>1. Room(s)' = (Start(s)' + 1) + (ci[s] + 1) /\ Start(s)' = (S + 2) + L
      BY <1>b, <1>c, <2>1, <2>7 DEF Room, Start
    <3> HIDE DEF D, E, h, n, L, S, U
    <3> QED
      BY <1>c, <1>e, <2>1, <2>2, <2>5, <2>6, <3>1 DEF E
  <2>8. CASE Goto(s, "blob") /\ bi' = [bi EXCEPT ![s] = @ + 1]
    <3>1. hs'[s] = "blob" /\ bi'[s] = n + 1
      BY <1>c, <2>8 DEF Goto
    <3>2. Room(s)' = (S + 2) + Len(BlobStreams(Blobs[h])[n + 1])
      BY <1>b, <3>1 DEF Room, Start
    <3>3. Room(s)' = (S + 2) + (L + U + 2)
      BY <2>2, <3>2
    <3> HIDE DEF D, E, h, n, L, S, U
    <3> QED
      BY <1>c, <1>e, <2>1, <2>2, <2>5, <2>6, <3>3 DEF E
  <2> QED
    BY <1>6, <2>7, <2>8 DEF CopyItem
<1>7. \/ ReadExtra(s) \/ WriteFoundCollection(s) \/ WriteCollection(s) \/ WriteFound(s)
      \/ WriteBlobNotFound(s) \/ OpenFile(s) \/ CopyItem(s)
  <2>1. ASSUME NEW pc, Goto(s, pc), pc \notin Sending \cup {"bnf"} PROVE FALSE
    BY <1>c, <2>1 DEF Goto
  <2>2. CASE ReadHandshake(s) \/ ReadRequest(s) \/ ReadError(s)
    BY <2>1, <2>2 DEF ReadHandshake, ReadRequest, ReadError, ReadingFails, Panics, Sending
  <2>3. CASE WriteNotFound(s) \/ NotFoundFails(s) \/ RepeatNotFound(s) \/ Finish(s) \/ FinishDone(s)
    BY <2>1, <2>3 DEF WriteNotFound, NotFoundFails, RepeatNotFound, Finish, FinishDone, Sending
  <2>4. CASE OpenFileFails(s) \/ CopyFails(s) \/ WriteFails(s)
    BY <2>1, <2>4 DEF OpenFileFails, CopyFails, WriteFails, TransferFails, Sending
  <2> QED
    BY <2>2, <2>3, <2>4 DEF HandlerStep
<1> QED
  BY <1>1, <1>2, <1>3, <1>4, <1>5, <1>6, <1>7

\* Every step of a handler keeps its answer within its length.
LEMMA HandlerLength ==
    ASSUME ServeInv, ServeInv', OrderInv, OrderInv', NEW s \in Streams, HandlerStep(s), LengthAt(s)
    PROVE  LengthAt(s)'
<1> DEFINE A == Len(Answer(Name(s)))
<1>a. /\ Still /\ ServerTypeOK /\ ReadAt(s) /\ IndexAt(s)
  BY HandlerStream DEF Frame, Still, ServeInv, StreamAt
<1>b. /\ Name(s)' = Name(s) /\ Answer(Name(s))' = Answer(Name(s))
  BY <1>a, StillFacts
<1>c. /\ hs \in [Streams -> HandlerStates] /\ down[s] \in Seq(Items) /\ Len(down[s]) \in Nat
      /\ Len(down'[s]) \in Nat
  BY <1>a DEF ServerTypeOK, ProviderTypeOK, QuicTypeOK, ServeInv
<1>1. CASE hs'[s] \in Sending \cup {"bnf"}
  <2>1. Len(down'[s]) <= Room(s)'
    BY <1>1, HandlerRoom
  <2>2. Room(s)' \in Nat /\ A \in Nat /\ Room(s)' < A
    BY <1>1, <1>b, RoomNext DEF RoomAt
  <2> HIDE DEF A
  <2>3. Len(down'[s]) < A
    BY <1>c, <2>1, <2>2
  <2> QED
    BY <1>b, <2>1, <2>3 DEF LengthAt, Bounded, A
<1>2. CASE hs'[s] \notin Sending \cup {"bnf"}
  <2> SUFFICES ASSUME Announced(s)', Stored[Name(s)] = "collection" PROVE Bounded(down'[s], A)
    BY <1>2, <1>b DEF LengthAt
  <2>1. hs[s] \in Serving => Announced(s) /\ A \in Nat \ {0} /\ Bounded(down[s], A)
    <3> SUFFICES ASSUME hs[s] \in Serving PROVE A \in Nat \ {0} /\ Announced(s) /\ Bounded(down[s], A)
      OBVIOUS
    <3>1. Announced(s) /\ Name(s) \in Collections /\ Blobs[Name(s)] \in Seq(Hash)
      BY <1>a, AnnouncedStates, ServedName DEF Told, BlobsOf
    <3>2. 0 \in 0..Len(Blobs[Name(s)])
      BY <3>1
    <3>3. A \in Nat /\ Segments[Name(s)] + 2 + Len(BlobStreams(Blobs[Name(s)])[0]) + 1 <= A
          /\ Segments[Name(s)] \in Nat /\ Len(BlobStreams(Blobs[Name(s)])[0]) = 0
      BY <3>1, <3>2, Lengths
    <3> HIDE DEF A
    <3>4. A # 0
      BY <3>3
    <3> QED
      BY <3>1, <3>3, <3>4 DEF LengthAt, A
  <2>2. ASSUME hs[s] \in Serving, DropWriter(s) PROVE Bounded(down'[s], A)
    BY <1>a, <2>1, <2>2, EndBounded
  <2>3. CASE OpenFileFails(s) \/ CopyFails(s) \/ WriteFails(s) \/ Finish(s)
    BY <2>2, <2>3 DEF OpenFileFails, CopyFails, WriteFails, Finish, TransferFails, Writing, Serving
  <2>4. CASE RepeatNotFound(s)
    <3> DEFINE q == <<NotFound, Fin>>
    <3>1. hs[s] = "bnf" /\ SendDown(s, q) /\ Len(down[s]) <= Room(s)
      BY <2>4 DEF RepeatNotFound, LengthAt
    <3>2. Room(s) \in Nat /\ A \in Nat /\ Room(s) + 2 <= A
      BY <3>1, RoomLeft DEF RoomAt
    <3>3. q \in Seq(Items) /\ Len(q) = 2 /\ q[2] = Fin
      BY ItemFacts
    <3> HIDE DEF q, A
    <3>4. down'[s] = down[s] \/ down'[s] = down[s] \o q
      BY <1>a, <3>1, <3>3, SendEffect
    <3>5. Len(down[s] \o q) = Len(down[s]) + 2 /\ (down[s] \o q)[Len(down[s]) + 2] = Fin
      <4>1. /\ Len(down[s] \o q) = Len(down[s]) + 2
            /\ \A i \in 1..(Len(down[s]) + 2) :
                 (down[s] \o q)[i] = IF i <= Len(down[s]) THEN down[s][i] ELSE q[i - Len(down[s])]
        <5>1. /\ Len(down[s] \o q) = Len(down[s]) + Len(q)
              /\ \A i \in 1..(Len(down[s]) + Len(q)) :
                   (down[s] \o q)[i] = IF i <= Len(down[s]) THEN down[s][i] ELSE q[i - Len(down[s])]
          BY <1>c, <3>3, ConcatProperties
        <5> QED
          BY <3>3, <5>1, Zenon
      <4>2. /\ Len(down[s]) + 2 \in 1..(Len(down[s]) + 2) /\ (Len(down[s]) + 2) - Len(down[s]) = 2
            /\ ~(Len(down[s]) + 2 <= Len(down[s]))
        BY <1>c
      <4> QED
        BY <3>3, <4>1, <4>2, Zenon
    <3> DEFINE d == Len(down[s])
               r == Room(s)
    <3>6. d \in Nat /\ d <= r /\ r \in Nat /\ A \in Nat /\ r + 2 <= A
      BY <1>c, <3>1, <3>2
    <3> HIDE DEF d, r
    <3>7. d < A /\ d + 2 <= A
      BY <3>6
    <3>8. Bounded(down[s], A) /\ Bounded(down[s] \o q, A)
      BY <3>5, <3>6, <3>7 DEF Bounded, d
    <3> QED
      BY <3>4, <3>8
  <2>5. CASE FinishDone(s)
    <3>1. UNCHANGED down
      BY <2>5 DEF FinishDone, quicVars, Awaiting
    <3>2. hs[s] # "nfFinish"
      BY <1>a DEF ReadAt, Refusing
    <3>3. hs[s] \in Serving /\ down' = down
      BY <2>5, <3>1, <3>2 DEF FinishDone, Awaiting, Serving
    <3> QED
      BY <2>1, <3>3
  <2>6. CASE WriteNotFound(s) \/ NotFoundFails(s)
    <3>1. hs[s] \in Refusing
      BY <2>6 DEF WriteNotFound, NotFoundFails, Refusing
    <3> QED
      BY <1>a, <3>1 DEF ReadAt
  <2>7. CASE ReadHandshake(s) \/ ReadRequest(s) \/ ReadExtra(s) \/ ReadError(s)
    <3>1. hs'[s] \in Reading \cup {"panicked", "nfWrite", "done"}
      BY <1>2, <1>c, <2>7 DEF ReadHandshake, ReadRequest, ReadExtra, ReadError, ReadingFails, Panics,
         Goto, Sending, Reading
    <3>2. hs'[s] # "nfWrite"
      BY <1>b DEF ServeInv, StreamAt, ReadAt, Refusing
    <3>3. hs[s] \in Reading /\ log[s] = CC
      BY <2>7, LegalStates DEF ServeInv, EventProtocol, ReadHandshake, ReadRequest, ReadExtra, ReadError,
         Reading
    <3>4. hs'[s] = "done" => log'[s] = Append(CC, EarlyAborted)
      BY <1>c, <2>7, <3>3 DEF ReadHandshake, ReadRequest, ReadExtra, ReadError, ReadingFails, Panics,
         Goto, Emit, ServeInv, ServerTypeOK, ProviderTypeOK
    <3>5. hs'[s] \in Reading \cup {"panicked"} => log'[s] = CC
      BY LegalStates DEF ServeInv, EventProtocol
    <3> QED
      BY <3>1, <3>2, <3>4, <3>5, LogKinds DEF Announced
  <2>8. ASSUME \/ WriteFoundCollection(s) \/ WriteCollection(s) \/ WriteFound(s)
               \/ WriteBlobNotFound(s) \/ OpenFile(s) \/ CopyItem(s)
        PROVE  FALSE
    BY <1>2, <1>c, <2>8 DEF WriteFoundCollection, WriteCollection, WriteFound, WriteBlobNotFound,
       OpenFile, CopyItem, Goto, Sending
  <2> QED
    BY <2>3, <2>4, <2>5, <2>6, <2>7, <2>8 DEF HandlerStep
<1> QED
  BY <1>1, <1>2

\* A handler that has announced no request sends at most the end of the
\* stream.
LEMMA HandlerQuiet ==
    ASSUME ServeInv, NEW s \in Streams, HandlerStep(s), EndAt(s)
    PROVE  QuietAt(s)'
<1> SUFFICES ASSUME ~Announced(s)' PROVE \A k \in 1..Len(down'[s]) : down'[s][k] = Fin
  BY DEF QuietAt
<1>a. ServerTypeOK
  BY DEF ServeInv
<1>1. hs[s] \notin Serving \cup Refusing
  BY AnnouncedKept, AnnouncedStates DEF Told
<1>2. ReadHandshake(s) \/ ReadRequest(s) \/ ReadExtra(s) \/ ReadError(s)
  BY <1>1 DEF HandlerStep, Serving, Refusing, WriteNotFound, NotFoundFails, WriteFoundCollection,
     WriteCollection, WriteFound, WriteBlobNotFound, RepeatNotFound, OpenFile, OpenFileFails,
     CopyItem, CopyFails, Finish, FinishDone, WriteFails, Writing, Awaiting
<1>3. down[s] = <<>>
  BY <1>2 DEF EndAt, Unsent, Reading, ReadHandshake, ReadRequest, ReadExtra, ReadError
<1>4. down' = down \/ DropWriter(s)
  BY <1>2 DEF ReadHandshake, ReadRequest, ReadExtra, ReadError, OnlyRead, Panics, ReadingFails
<1>5. down'[s] = <<>> \/ down'[s] = <<>> \o <<Fin>>
  BY <1>3, <1>4, <1>a, DropEnds
<1>6. <<>> \o <<Fin>> = <<Fin>>
  OBVIOUS
<1> QED
  BY <1>5, <1>6

\* A stream whose handler does nothing keeps its shape.
LEMMA ShapeKept ==
    ASSUME ServeInv, NEW s \in Streams, ShapeAt(s), Grown(s), Len(up'[s]) \in Nat,
           UNCHANGED <<hs[s], bi[s], ci[s], log[s], down[s]>>
    PROVE  ShapeAt(s)'
<1>1. hs[s] \in Serving \/ Announced(s) => Asked(s)
  BY AnnouncedStates DEF Told
<1>2. CASE Asked(s)
  <2>1. 2 \in 1..Len(up[s])
    BY <1>2 DEF Asked, Requested, ServeInv, ServerTypeOK, QuicTypeOK
  <2>2. Name(s)' = Name(s)
    BY <2>1 DEF Grown, Name
  <2>3. Room(s)' = Room(s)
    BY <2>2 DEF Room, Start, BlobsOf
  <2>4. LengthAt(s)'
    BY <2>2, <2>3 DEF ShapeAt, LengthAt, Announced
  <2>5. OpeningAt(s)' /\ ServableAt(s)'
    BY <2>2 DEF ShapeAt, OpeningAt, Opens, ServableAt, Announced
  <2>6. QuietAt(s)'
    BY DEF ShapeAt, QuietAt, Announced
  <2> QED
    BY <2>4, <2>5, <2>6 DEF ShapeAt
<1>3. CASE ~Asked(s)
  <2>1. hs[s] \notin Serving /\ ~Announced(s)
    BY <1>1, <1>3
  <2>2. log[s] # Append(RR, TransferCompleted) /\ hs[s] \notin Sending \cup {"bnf"}
    BY <2>1 DEF Announced, Serving, Sending
  <2>3. OpeningAt(s)'
    BY <2>1 DEF ShapeAt, OpeningAt, Opens
  <2> QED
    BY <2>1, <2>2, <2>3 DEF ShapeAt, LengthAt, ServableAt, QuietAt, Announced
<1> QED
  BY <1>2, <1>3

\* Every step keeps the shape of the answers.
LEMMA ShapeStep ==
    ASSUME ServeInv, ServeInv', OrderInv, OrderInv', ShapeInv, ServerStep
    PROVE  ShapeInv'
<1>a. ServerTypeOK
  BY DEF ServeInv
<1>1. ASSUME NEW s \in Streams, HandlerStep(s) \/ AcceptBi(s) PROVE ShapeInv'
  <2>1. Frame(s)
    BY <1>1, HandlerStream, AcceptKeeps
  <2>2. ASSUME NEW t \in Streams \ {s} PROVE ShapeAt(t)'
    <3>1. Grown(t) /\ Len(up'[t]) \in Nat
      BY <1>a, <2>1 DEF Frame, Grown, ServerTypeOK, QuicTypeOK
    <3> QED
      BY <2>1, <3>1, ShapeKept DEF Frame, ShapeInv
  <2>3. ShapeAt(s)'
    <3>1. CASE HandlerStep(s)
      BY <3>1, HandlerLength, HandlerOpens, HandlerServable, HandlerQuiet
      DEF ShapeInv, ShapeAt, OrderInv, OrderAt
    <3>2. CASE AcceptBi(s)
      <4>1. hs'[s] = "handshake" /\ down'[s] = <<>>
        BY <1>a, <3>2 DEF AcceptBi, quicVars, ServerTypeOK, ProviderTypeOK, OrderInv, OrderAt, EndAt, Unsent
      <4>2. ~Announced(s)'
        BY <4>1, AnnouncedNext DEF Told, Serving, Refusing
      <4> QED
        BY <4>1, <4>2 DEF ShapeAt, LengthAt, OpeningAt, ServableAt, QuietAt, Announced, Sending
    <3> QED
      BY <1>1, <3>1, <3>2
  <2> QED
    BY <2>2, <2>3 DEF ShapeInv
<1>2. CASE LoopStep \/ Outside
  <2>1. UNCHANGED <<hs, bi, ci, log, down>>
    BY <1>2, <1>a, LoopKeeps DEF Outside, providerVars
  <2>2. ASSUME NEW s \in Streams PROVE ShapeAt(s)'
    <3>1. Grown(s) /\ Len(up'[s]) \in Nat
      BY <1>2, <1>a, AlwaysGrown DEF ServeInv, ServerTypeOK, QuicTypeOK
    <3> QED
      BY <2>1, <3>1, ShapeKept DEF ShapeInv
  <2> QED
    BY <2>2 DEF ShapeInv
<1> QED
  BY <1>1, <1>2, StepKinds

\* Nothing is sent at first.
LEMMA ShapeInit == QuicInit /\ ProviderInit => ShapeInv
<1> SUFFICES ASSUME QuicInit, ProviderInit, NEW s \in Streams PROVE ShapeAt(s)
  BY DEF ShapeInv
<1>1. hs[s] = "none" /\ down[s] = <<>> /\ log[s] = <<>>
  BY DEF QuicInit, ProviderInit
<1>2. ~Announced(s) /\ log[s] # Append(RR, TransferCompleted)
  BY <1>1, LogKinds DEF Announced
<1> QED
  BY <1>1, <1>2 DEF ShapeAt, LengthAt, OpeningAt, ServableAt, QuietAt, Sending

=============================================================================
