--------------------------- MODULE TransferProofs ---------------------------
(***************************************************************************)
(* The two ends together: the getters keep to what the provider relies on, *)
(* so everything shown of the provider holds in the whole system, and what *)
(* a getter reads is followed item by item along the answer the provider   *)
(* sends.                                                                  *)
(***************************************************************************)
EXTENDS Transfer, ProviderProofs, GetterProofs

(***************************************************************************)
(* What the getters do to the transport.                                   *)
(***************************************************************************)
\* A step of the getter on s.
Acts(s) == Setup(s) \/ GetterStep(s) \/ CallbackFails(s) \/ Cancel(s)

\* run on s returns: nothing but the reading position changes with it.
Leaves(s) ==
    /\ gpc[s] # "idle" /\ gpc'[s] \in Outcomes
    /\ cside' = [cside EXCEPT ![ConnOf[s]] = "down"]
    /\ UNCHANGED <<up, counts>>
    /\ \/ UNCHANGED stopped
       \/ gpc[s] = "end" /\ stopped' = [stopped EXCEPT ![s] = @ \cup {"down"}]
    /\ \/ UNCHANGED downRd
       \/ \E k \in Nat : downRd' = [downRd EXCEPT ![s] = k]

\* run on s goes on with the answer.
Connecting == {"idle", "connecting", "connected", "request"}
Early == Connecting \cup {"finish", "response"}
Hearing == {"coll", "oncollection", "blobres", "size", "onblob", "check", "end"}
Proceeds(s) ==
    /\ gpc[s] \in Hearing \cup {"response"}
    /\ gpc'[s] \in Hearing
    /\ UNCHANGED <<cside, up, stopped>>
    /\ \/ UNCHANGED downRd
       \/ \E k \in Nat : downRd' = [downRd EXCEPT ![s] = k]

\* What a step of the getter on s leaves alone, and how it goes.
ByGetter(s) ==
    /\ UNCHANGED <<listening, pside, upRd, down, acked>>
    /\ \/ Leaves(s) \/ Proceeds(s)
       \/ OpenBi(s) \/ SendHandshake(s) \/ SendRequest(s) \/ Finished(s)

\* Where a read leaves the position.
LEMMA ReadPosition ==
    ASSUME QuicTypeOK, NEW s \in Streams, ReadItem(s)
    PROVE  \E k \in Nat : downRd' = [downRd EXCEPT ![s] = k]
<1>1. downRd[s] \in Nat /\ downRd[s] + 1 \in Nat
  BY DEF QuicTypeOK
<1>2. downRd' = [downRd EXCEPT ![s] = IF NextItem(s) = Fin THEN downRd[s] ELSE downRd[s] + 1]
  BY DEF ReadItem
<1>3. (IF NextItem(s) = Fin THEN downRd[s] ELSE downRd[s] + 1) \in Nat
  BY <1>1
<1> QED
  BY <1>2, <1>3

\* Every step of a getter but the first is of one of these kinds.
LEMMA GetterKinds ==
    ASSUME ReaderTypeOK, NEW s \in Streams, Acts(s)
    PROVE  Setup(s) \/ ByGetter(s)
<1>a. QuicTypeOK /\ gpc \in [Streams -> Steps \cup Outcomes]
  BY DEF ReaderTypeOK, GetterTypeOK
<1>b. ASSUME NEW o \in Outcomes, gpc[s] # "idle", Exit(s, o), OnlyExit(s) PROVE ByGetter(s)
  BY <1>a, <1>b DEF ByGetter, Leaves, Exit, OnlyExit, To, DropConnection, wire, counts
<1>c. ASSUME NEW o \in Outcomes, gpc[s] # "idle", ReadItem(s), ExitReading(s, o) PROVE ByGetter(s)
  <2>1. \E k \in Nat : downRd' = [downRd EXCEPT ![s] = k]
    BY <1>a, <1>c, ReadPosition
  <2> QED
    BY <1>a, <1>c, <2>1 DEF ByGetter, Leaves, ExitReading, Exit, To, DropConnection, counts
<1>d. ASSUME NEW pc \in Hearing, To(s, pc), UNCHANGED quicVars,
             gpc[s] \in Hearing \cup {"response"}
      PROVE  ByGetter(s)
  BY <1>a, <1>d DEF ByGetter, Proceeds, To, quicVars
<1>e. ASSUME gpc[s] \in Hearing \cup {"response"}, gpc'[s] \in Hearing,
             ReadItem(s), OnlyReadDown
      PROVE  ByGetter(s)
  <2>1. \E k \in Nat : downRd' = [downRd EXCEPT ![s] = k]
    BY <1>a, <1>e, ReadPosition
  <2> QED
    BY <1>e, <2>1 DEF ByGetter, Proceeds, OnlyReadDown, conns
<1>f. LoopHead(s, 0) \in {"blobres", "end"} /\ LoopHead(s, Len(got[s]) + 1) \in {"blobres", "end"}
  BY DEF LoopHead
<1>g. ASSUME NEW pc, To(s, pc) PROVE gpc'[s] = pc
  BY <1>a, <1>g DEF To
<1>1. CASE SetupFails(s) \/ SendFails(s) \/ EmptyRefused(s) \/ ReadFails(s) \/ CallbackFails(s)
           \/ Cancel(s)
  BY <1>1, <1>b, GetterAssumption DEF At, Steps, SetupFails, SendFails, EmptyRefused, ReadFails, CallbackFails, Cancel, Outcomes
<1>2. CASE OnCollection(s) \/ OnBlobReturns(s) \/ CheckAtEnd(s) \/ CheckFails(s)
  BY <1>2, <1>d, <1>f DEF OnCollection, OnBlobReturns, CheckAtEnd, CheckFails, NextBlob, Hearing, At
<1>3. CASE ReadResponse(s)
  BY <1>3, <1>c, <1>e, <1>g DEF ReadResponse, At, Outcomes, Hearing
<1>4. CASE ReadCollection(s)
  <2>1. gpc[s] = "coll"
    BY <1>4 DEF ReadCollection, At
  <2> QED
    BY <1>4, <1>c, <1>e, <1>g, <2>1 DEF ReadCollection, Outcomes, Hearing
<1>5. CASE ReadBlobResponse(s)
  BY <1>5, <1>c, <1>e, <1>g DEF ReadBlobResponse, At, Outcomes, Hearing
<1>6. CASE ReadSize(s)
  BY <1>6, <1>c, <1>e, <1>g DEF ReadSize, At, Outcomes, Hearing
<1>7. CASE ReadSegment(s)
  <2>1. gpc[s] = "onblob"
    BY <1>7 DEF ReadSegment, At
  <2> QED
    BY <1>7, <1>c, <1>e, <2>1 DEF ReadSegment, Outcomes, Hearing
<1>8. CASE CheckReads(s)
  BY <1>8, <1>c, <1>e, <1>f, <1>g DEF CheckReads, NextBlob, At, Outcomes, Hearing
<1>9. CASE ReadEnd(s)
  <2>1. \E k \in Nat : downRd' = [downRd EXCEPT ![s] = k]
    BY <1>a, <1>9, ReadPosition DEF ReadEnd
  <2>2. gpc[s] = "end" /\ gpc'[s] = "ok" /\ cside' = [cside EXCEPT ![ConnOf[s]] = "down"]
    BY <1>9, <1>a DEF ReadEnd, At, Exit, To, DropConnection
  <2> QED
    BY <1>9, <2>1, <2>2 DEF ReadEnd, ByGetter, Leaves, Outcomes
<1>10. CASE OpenBi(s)
  BY <1>10 DEF ByGetter, OpenBi, Establish, wire
<1>11. CASE SendHandshake(s) \/ SendRequest(s)
  BY <1>11 DEF ByGetter, SendHandshake, SendRequest, OnlySendUp, conns
<1>12. CASE Finished(s)
  BY <1>12 DEF ByGetter, Finished, quicVars
<1> QED
  BY <1>1, <1>2, <1>3, <1>4, <1>5, <1>6, <1>7, <1>8, <1>9, <1>10, <1>11, <1>12 DEF Acts, GetterStep

\* A frame is added to what was sent, or lost.
LEMMA SendsGrow ==
    ASSUME QuicTypeOK, NEW s \in Streams, NEW q \in Seq(Frames), SendUp(s, q)
    PROVE  \A t \in Streams : Grown(t)
<1>1. up \in [Streams -> Seq(Frames)]
  BY DEF QuicTypeOK
<1>2. ASSUME NEW t \in Streams, up'[t] = up[t] PROVE Grown(t)
  BY <1>1, <1>2 DEF Grown
<1>3. ASSUME up'[s] = up[s] \o q PROVE Grown(s)
  <2>1. /\ up[s] \in Seq(Frames) /\ Len(up[s]) \in Nat /\ Len(q) \in Nat
        /\ Len(up[s] \o q) = Len(up[s]) + Len(q)
        /\ \A i \in 1..(Len(up[s]) + Len(q)) :
             (up[s] \o q)[i] = IF i <= Len(up[s]) THEN up[s][i] ELSE q[i - Len(up[s])]
    BY <1>1, ConcatProperties
  <2> QED
    BY <1>3, <2>1 DEF Grown
<1>4. \A t \in Streams : up'[t] = up[t] \/ (t = s /\ up'[s] = up[s] \o q)
  BY <1>1 DEF SendUp
<1> QED
  BY <1>2, <1>3, <1>4

\* So the getters keep to what the provider relies on.
LEMMA GetterOutside ==
    ASSUME TypeOK, GetterNext, UNCHANGED providerVars
    PROVE  Outside
<1>a. ServerTypeOK /\ ReaderTypeOK /\ QuicTypeOK
  BY DEF TypeOK, ServerTypeOK, ReaderTypeOK
<1>b. ReaderTypeOK' /\ QuicTypeOK'
  BY <1>a, GetterTyped DEF ReaderTypeOK
<1>1. PICK s \in Streams : Acts(s)
  BY DEF GetterNext, Acts
<1>c. ConnOf[s] \in Conns
  BY QuicAssumption
<1>d. /\ cside \in [Conns -> {"none", "connecting", "open", "down"}]
      /\ up \in [Streams -> Seq(Frames)] /\ stopped \in [Streams -> SUBSET Directions]
  BY <1>a DEF QuicTypeOK
<1>2. CASE Setup(s)
  BY <1>2, <1>a, <1>c, ConnectOutside DEF Setup
<1>3. CASE ByGetter(s)
  <2>1. UNCHANGED <<listening, pside, upRd, down, acked>>
    BY <1>3 DEF ByGetter
  <2>2. CASE Leaves(s) \/ Proceeds(s) \/ OpenBi(s) \/ Finished(s)
    <3>1. UNCHANGED up
      BY <2>2 DEF Leaves, Proceeds, OpenBi, Establish, Finished, quicVars, wire
    <3>2. \A t \in Streams : Grown(t) /\ up'[t] = up[t]
      BY <1>d, <3>1 DEF Grown
    <3>3. \A t \in Streams : stopped[t] \subseteq stopped'[t]
      BY <1>d, <2>2 DEF Leaves, Proceeds, OpenBi, Establish, Finished, quicVars, wire
    <3>4. \A c \in Conns : \/ cside'[c] = cside[c] \/ cside'[c] = "down"
                           \/ cside[c] = "connecting" /\ cside'[c] = "open"
      BY <1>c, <1>d, <2>2 DEF Leaves, Proceeds, OpenBi, Establish, Finished, quicVars
    <3> QED
      BY <1>a, <1>b, <2>1, <3>2, <3>3, <3>4, ClientOutside
  <2>3. CASE SendHandshake(s) \/ SendRequest(s)
    <3>1. \E q \in Seq(Frames) : SendUp(s, q)
      <4>1. <<Handshake(VERSION, TokenOf[s])>> \in Seq(Frames) /\ <<Request(Want[s]), Fin>> \in Seq(Frames)
        BY FrameTypes, GetterAssumption
      <4> QED
        BY <2>3, <4>1 DEF SendHandshake, SendRequest
    <3>2. UNCHANGED <<cside, stopped>> /\ cside[ConnOf[s]] = "open"
      BY <2>3 DEF SendHandshake, SendRequest, OnlySendUp, CanSendUp, conns
    <3>3. \A t \in Streams : Grown(t)
      BY <1>a, <3>1, SendsGrow
    <3>4. \A t \in Streams : up'[t] = up[t] \/ cside[ConnOf[t]] = "open"
      BY <1>d, <3>1, <3>2 DEF SendUp
    <3> QED
      BY <1>a, <1>b, <2>1, <3>2, <3>3, <3>4, ClientOutside
  <2> QED
    BY <1>3, <2>2, <2>3 DEF ByGetter
<1> QED
  BY <1>1, <1>2, <1>3, <1>a, GetterKinds

(***************************************************************************)
(* So everything shown of the provider, and of the getters, holds here.    *)
(***************************************************************************)
Base ==
    /\ TypeOK /\ ServeInv /\ AbortInv /\ OrderInv /\ ShapeInv
    /\ BlobProgress /\ Budget

\* Every step of the whole system is one of a provider and its environment.
LEMMA TransferServes ==
    ASSUME TypeOK, [Next]_vars
    PROVE  ServerStep
<1>a. ServerTypeOK
  BY DEF TypeOK, ServerTypeOK
<1>1. CASE ProviderNext
  BY <1>1 DEF ServerStep
<1>2. CASE GetterNext /\ UNCHANGED providerVars
  BY <1>2, GetterOutside DEF ServerStep
<1>3. CASE QuicNext /\ UNCHANGED <<providerVars, getterVars>>
  BY <1>3, <1>a, QuicOutside DEF ServerStep
<1>4. CASE UNCHANGED vars
  <2>1. UNCHANGED pvars
    BY <1>4 DEF vars, pvars
  <2> QED
    BY <2>1, <1>a, StutterOutside DEF ServerStep
<1> QED
  BY <1>1, <1>2, <1>3, <1>4 DEF Next

\* A step is one of a getter, or leaves all of them alone.
LEMMA GettersSame ==
    ASSUME [Next]_vars, ~GetterNext
    PROVE  UNCHANGED getterVars
BY DEF Next, vars

\* Every step keeps these invariants.
LEMMA BaseStep ==
    ASSUME CollectionsFit, Base, [Next]_vars
    PROVE  Base'
<1>a. TypeOK /\ ServeInv /\ AbortInv /\ OrderInv /\ ShapeInv /\ BlobProgress /\ Budget
  BY DEF Base
<1>1. ServerStep
  BY <1>a, TransferServes
<1>2. ServeInv'
  BY <1>a, <1>1, ServeStep
<1>3. AbortInv'
  BY <1>a, <1>1, <1>2, AbortStep
<1>4. OrderInv'
  BY <1>a, <1>1, <1>2, OrderStep DEF AbortInv
<1>5. ShapeInv'
  BY <1>a, <1>1, <1>2, <1>4, ShapeStep
<1>6. CASE GetterNext
  <2>1. ReaderTypeOK
    BY <1>a DEF TypeOK, ReaderTypeOK
  <2>2. ReaderTypeOK'
    BY <1>6, <2>1, GetterTyped
  <2>3. BlobProgress' /\ Budget'
    BY <1>6, <1>a, <2>1, <2>2, ProgressStep, BudgetStep
  <2>4. TypeOK'
    BY <1>2, <2>2 DEF TypeOK, ReaderTypeOK, ServeInv, ServerTypeOK
  <2> QED
    BY <1>2, <1>3, <1>4, <1>5, <2>3, <2>4 DEF Base
<1>7. CASE UNCHANGED getterVars
  <2>1. UNCHANGED <<gpc, total, rem, hdr, pos, got, delivered>>
    BY <1>7 DEF getterVars
  <2>2. TypeOK'
    BY <1>2, <1>a, <2>1 DEF TypeOK, ServeInv, ServerTypeOK, GetterTypeOK
  <2>3. BlobProgress' /\ Budget'
    BY <1>a, <2>1 DEF BlobProgress, ProgressAt, Budget, BudgetAt, ListOf, AtEndOfBlob, Current
  <2> QED
    BY <1>2, <1>3, <1>4, <1>5, <2>2, <2>3 DEF Base
<1> QED
  BY <1>6, <1>7, GettersSame

\* They hold at first.
LEMMA BaseInit == Init => Base
<1> SUFFICES ASSUME Init PROVE Base
  OBVIOUS
<1>a. QuicInit /\ ProviderInit /\ GetterInit
  BY DEF Init
<1>1. ServeInv /\ AbortInv /\ OrderInv /\ ShapeInv
  BY <1>a, ServeInit, AbortInit, OrderInit, ShapeInit
<1>2. GetterTypeOK
  BY <1>a DEF GetterInit, GetterTypeOK, Steps
<1>3. TypeOK
  BY <1>1, <1>2 DEF TypeOK, ServeInv, ServerTypeOK
<1>4. BlobProgress
  BY <1>a DEF GetterInit, BlobProgress, ProgressAt, InBlobs
<1>5. Budget
  BY <1>a, SizeAssumption DEF GetterInit, Budget, BudgetAt
<1> QED
  BY <1>1, <1>3, <1>4, <1>5 DEF Base

(***************************************************************************)
(* What happens to a getter while others act.                              *)
(***************************************************************************)
\* The handler on s reads what a getter with the right token never sends, or
\* cannot read at all.
RightFrame(s) ==
    /\ hs[s] = "handshake" => ValidHandshake(NextFrame(s))
    /\ hs[s] = "request" => NextFrame(s).t = "request"
    /\ hs[s] = "extra" => NextFrame(s) = Fin
BadRead(s) ==
    hs[s] \in Reading /\ (ReadUpFails(s) \/ (CanReadUp(s) /\ ~RightFrame(s)))

\* The handler on s has returned.
Over(s) == hs[s] \in {"done", "panicked"}

\* What becomes of the connection of s: it ends only for a reason.
LinkAside(s) ==
    /\ cside'[ConnOf[s]] = cside[ConnOf[s]]
       \/ /\ cside'[ConnOf[s]] = "down" /\ cside[ConnOf[s]] # "none"
          /\ Lossy \/ pside[ConnOf[s]] \in {"down", "refused"}
    /\ pside'[ConnOf[s]] = pside[ConnOf[s]]
       \/ /\ pside[ConnOf[s]] = "open" /\ pside'[ConnOf[s]] = "down"
          /\ Lossy \/ cancelled \/ cside[ConnOf[s]] = "down"
    /\ cancelled => cancelled'

\* What becomes of the stream: the getter's part stays as it is, and the
\* provider's part grows.
StreamAside(s) ==
    /\ UNCHANGED <<up[s], downRd[s]>>
    /\ Part(down[s], down'[s])
    /\ cside[ConnOf[s]] # "open" => UNCHANGED <<down[s], acked[s]>>
    /\ FilesIntact' => FilesIntact
    /\ Announced(s) => Announced(s)'
    /\ Over(s) => UNCHANGED <<hs[s], log[s]>>
    /\ "up" \in stopped'[s] => "up" \in stopped[s] \/ BadRead(s)
    /\ Over(s)' => Over(s) \/ Announced(s)' \/ BadRead(s)

Aside(s) == Same(s) /\ LinkAside(s) /\ StreamAside(s)

\* A stream of which nothing changes.
LEMMA AsideStill ==
    ASSUME TypeOK, NEW s \in Streams, FilesIntact' => FilesIntact,
           UNCHANGED <<up[s], downRd[s], down[s], stopped[s], hs[s], log[s]>>,
           acked'[s] = acked[s] \/ cside[ConnOf[s]] = "open"
    PROVE  StreamAside(s)
<1>1. down[s] \in Seq(Items)
  BY DEF TypeOK, QuicTypeOK
<1>2. Part(down[s], down'[s])
  BY <1>1, PartFacts
<1> QED
  BY <1>2 DEF StreamAside, Announced, Over

\* How a handler that returns without an announced request came to an end.
LEMMA HandlerReads ==
    ASSUME ServeInv, ServeInv', NEW s \in Streams, HandlerStep(s)
    PROVE  /\ ~Over(s)
           /\ "up" \in stopped'[s] => "up" \in stopped[s] \/ BadRead(s)
           /\ Over(s)' => Announced(s)' \/ BadRead(s)
<1>a. ServerTypeOK /\ hs \in [Streams -> HandlerStates]
  BY DEF ServeInv, ServerTypeOK, ProviderTypeOK
<1>1. CASE ReadHandshake(s) \/ ReadRequest(s) \/ ReadExtra(s) \/ ReadError(s)
  <2>1. hs[s] \in Reading
    BY <1>1 DEF Reading, ReadHandshake, ReadRequest, ReadExtra, ReadError
  <2>2. CASE BadRead(s)
    BY <2>1, <2>2 DEF Over, Reading
  <2>3. CASE ~BadRead(s)
    <3>1. ~ReadUpFails(s) /\ (CanReadUp(s) => RightFrame(s))
      BY <2>1, <2>3 DEF BadRead
    <3>2. RightFrame(s) /\ ~ReadError(s)
      BY <1>1, <3>1 DEF ReadHandshake, ReadRequest, ReadExtra, ReadError, ReadFrame
    <3>3. CASE ReadHandshake(s)
      <4>1. ValidHandshake(NextFrame(s)) /\ NextFrame(s) # Short
        BY <3>2, <3>3 DEF ReadHandshake, RightFrame, ValidHandshake, Handshake, Short
      <4>2. UNCHANGED stopped /\ hs'[s] = "request"
        BY <1>a, <3>3, <4>1 DEF ReadHandshake, OnlyRead, Goto
      <4> QED
        BY <2>1, <4>2 DEF Over, Reading
    <3>4. CASE ReadRequest(s)
      <4>1. NextFrame(s).t = "request" /\ NextFrame(s) # Short
        BY <3>2, <3>4 DEF ReadRequest, RightFrame, Short
      <4>2. UNCHANGED stopped /\ hs'[s] = "extra"
        BY <1>a, <3>4, <4>1 DEF ReadRequest, OnlyRead, Goto
      <4> QED
        BY <2>1, <4>2 DEF Over, Reading
    <3>5. CASE ReadExtra(s)
      <4>1. NextFrame(s) = Fin
        BY <3>2, <3>5 DEF ReadExtra, RightFrame
      <4>2. UNCHANGED stopped /\ hs'[s] \in {"found", "nfWrite"}
        BY <1>a, <3>5, <4>1 DEF ReadExtra, OnlyRead, Goto
      <4> QED
        BY <2>1, <4>2 DEF Over, Reading
    <3> QED
      BY <1>1, <3>2, <3>3, <3>4, <3>5
  <2> QED
    BY <2>2, <2>3
<1>2. CASE ~(ReadHandshake(s) \/ ReadRequest(s) \/ ReadExtra(s) \/ ReadError(s))
  <2>1. /\ hs[s] \in Serving \cup Refusing
        /\ UNCHANGED stopped
    BY <1>2 DEF HandlerStep, Serving, Refusing, WriteNotFound, NotFoundFails, WriteFoundCollection,
       WriteCollection, WriteFound, WriteBlobNotFound, RepeatNotFound, OpenFile, OpenFileFails,
       CopyItem, CopyFails, Finish, FinishDone, WriteFails, Writing, Awaiting, OnlySend,
       TransferFails, quicVars
  <2>2. Announced(s)'
    BY <2>1, AnnouncedKept, AnnouncedStates DEF Told
  <2> QED
    BY <2>1, <2>2 DEF Over, Serving, Refusing
<1> QED
  BY <1>1, <1>2

\* A step of the handler on s, or its start.
LEMMA AsideHandler ==
    ASSUME TypeOK, ServeInv, ServeInv', OrderInv, NEW s \in Streams, HandlerStep(s) \/ AcceptBi(s)
    PROVE  StreamAside(s)
<1>a. ServerTypeOK /\ down[s] \in Seq(Items) /\ hs \in [Streams -> HandlerStates]
  BY DEF TypeOK, ServerTypeOK, QuicTypeOK, ProviderTypeOK
<1>b. Frame(s)
  BY HandlerStream, AcceptKeeps
<1>c. UNCHANGED <<up, downRd, acked, file>> /\ (FilesIntact' => FilesIntact)
  BY <1>b DEF Frame, FilesIntact
<1>1. CASE HandlerStep(s)
  <2>1. PICK q \in Seq(Items) : Addition(s, q)
    BY <1>1, HandlerAdds DEF Adds
  <2>2. Part(down[s], down'[s]) /\ (cside[ConnOf[s]] # "open" => down'[s] = down[s])
    <3>1. down[s] \o <<>> = down[s]
      BY <1>a
    <3> QED
      BY <1>a, <2>1, <3>1, PartFacts DEF Addition
  <2>3. Announced(s) => Announced(s)'
    BY <1>1, AnnouncedKept
  <2> QED
    BY <1>1, <1>c, <2>2, <2>3, HandlerReads DEF StreamAside
<1>2. CASE AcceptBi(s)
  <2>1. UNCHANGED quicVars /\ hs[s] = "none" /\ hs'[s] = "handshake"
    BY <1>2, <1>a DEF AcceptBi
  <2>2. ~Announced(s) /\ ~Over(s) /\ ~Over(s)'
    BY <2>1, AnnouncedStates DEF Told, Serving, Refusing, Over
  <2>3. Part(down[s], down'[s])
    BY <1>a, <2>1, PartFacts DEF quicVars
  <2> QED
    BY <1>c, <2>1, <2>2, <2>3 DEF StreamAside, quicVars
<1> QED
  BY <1>1, <1>2

\* A connection whose ends stay as they are.
LEMMA LinkStill ==
    ASSUME NEW s \in Streams, UNCHANGED <<cside[ConnOf[s]], pside[ConnOf[s]]>>,
           cancelled => cancelled'
    PROVE  LinkAside(s)
BY DEF LinkAside

\* A step of any part of the provider.
LEMMA AsideProvider ==
    ASSUME Base, ServeInv', ProviderNext, UNCHANGED getterVars, NEW t \in Streams
    PROVE  Aside(t)
<1>a. TypeOK /\ ServeInv /\ OrderInv /\ ServerTypeOK /\ ConnOf[t] \in Conns /\ Unconnected
  BY QuicAssumption DEF Base, TypeOK, ServerTypeOK, AbortInv
<1>b. pside \in [Conns -> {"none", "refused", "open", "down"}]
  BY <1>a DEF TypeOK, QuicTypeOK
<1>c. Same(t)
  BY DEF getterVars, Same
<1>1. CASE \E s \in Streams : HandlerStep(s) \/ AcceptBi(s)
  <2>1. PICK s \in Streams : HandlerStep(s) \/ AcceptBi(s)
    BY <1>1
  <2>2. Frame(s)
    BY <1>a, <2>1, HandlerStream, AcceptKeeps
  <2>3. LinkAside(t)
    BY <2>2, LinkStill DEF Frame
  <2>4. StreamAside(t)
    <3>1. CASE t = s
      BY <3>1, <1>a, <2>1, AsideHandler
    <3>2. CASE t # s
      <4>1. UNCHANGED <<up[t], downRd[t], down[t], stopped[t], hs[t], log[t], acked[t]>>
        BY <3>2, <2>2 DEF Frame
      <4>2. FilesIntact' => FilesIntact
        BY <2>2 DEF Frame, FilesIntact
      <4> QED
        BY <1>a, <4>1, <4>2, AsideStill
    <3> QED
      BY <3>1, <3>2
  <2> QED
    BY <1>c, <2>3, <2>4 DEF Aside
<1>2. CASE LoopStep
  <2>1. UNCHANGED <<hs, log, up, down, downRd, acked, stopped, cside>>
    BY <1>2, <1>a, LoopKeeps
  <2>2. FilesIntact' => FilesIntact
    BY <1>2, <1>a, CauseOutside
  <2>3. StreamAside(t)
    BY <1>a, <2>1, <2>2, AsideStill
  <2>4. /\ cancelled => cancelled'
        /\ \/ pside' = pside
           \/ /\ Lossy \/ cancelled
              /\ pside' = [c \in Conns |-> IF pside[c] = "open" THEN "down" ELSE pside[c]]
    BY <1>2 DEF LoopStep, Shutdown, RunStep, PollCancelled, RunEnds, RunPark, RunWake, RunAccept,
       EndpointLost, ConnectionStep, Connected, ConnectionEnds, ChangeFile, quicVars, tasks
  <2>5. LinkAside(t)
    BY <1>a, <1>b, <2>1, <2>4 DEF LinkAside
  <2> QED
    BY <1>c, <2>3, <2>5 DEF Aside
<1> QED
  BY <1>1, <1>2 DEF ProviderNext, LoopStep

\* A step of the transport.
LEMMA AsideQuic ==
    ASSUME Base, QuicNext, UNCHANGED <<providerVars, getterVars>>, NEW t \in Streams
    PROVE  Aside(t)
<1>a. TypeOK /\ ConnOf[t] \in Conns
  BY QuicAssumption DEF Base
<1>b. /\ pside \in [Conns -> {"none", "refused", "open", "down"}]
      /\ cside \in [Conns -> {"none", "connecting", "open", "down"}]
      /\ acked \in [Streams -> SUBSET Directions]
  BY <1>a DEF TypeOK, QuicTypeOK
<1>c. Same(t) /\ UNCHANGED <<hs, log, cancelled, file>>
  BY DEF getterVars, providerVars, Same
<1>d. FilesIntact' => FilesIntact
  BY <1>c DEF FilesIntact
<1>1. CASE \E s \in Streams, d \in Directions : Ack(s, d)
  <2>1. PICK s \in Streams, d \in Directions : Ack(s, d)
    BY <1>1
  <2>2. UNCHANGED <<pside, cside, up, down, downRd, stopped>>
    BY <2>1 DEF Ack, conns
  <2>3. acked'[t] = acked[t] \/ cside[ConnOf[t]] = "open"
    BY <1>b, <2>1 DEF Ack
  <2>4. StreamAside(t)
    BY <1>a, <1>c, <1>d, <2>2, <2>3, AsideStill
  <2>5. LinkAside(t)
    BY <1>c, <2>2, LinkStill
  <2> QED
    BY <1>c, <2>4, <2>5 DEF Aside
<1>2. ASSUME NEW c \in Conns,
             CloseReachesProvider(c) \/ CloseReachesClient(c) \/ NetworkFails(c)
      PROVE  Aside(t)
  <2>1. UNCHANGED <<up, down, downRd, acked, stopped>>
    BY <1>2 DEF CloseReachesProvider, CloseReachesClient, NetworkFails, wire
  <2>2. StreamAside(t)
    BY <1>a, <1>c, <1>d, <2>1, AsideStill
  <2>3. LinkAside(t)
    <3>1. CASE c = ConnOf[t]
      BY <1>2, <1>b, <1>c, <3>1 DEF LinkAside, CloseReachesProvider, CloseReachesClient, NetworkFails
    <3>2. CASE c # ConnOf[t]
      <4>1. UNCHANGED <<cside[ConnOf[t]], pside[ConnOf[t]]>>
        BY <1>2, <1>a, <1>b, <3>2 DEF CloseReachesProvider, CloseReachesClient, NetworkFails
      <4> QED
        BY <1>c, <4>1, LinkStill
    <3> QED
      BY <3>1, <3>2
  <2> QED
    BY <1>c, <2>2, <2>3 DEF Aside
<1> QED
  BY <1>1, <1>2 DEF QuicNext, Deliver

\* A step of another getter.
LEMMA AsideGetter ==
    ASSUME Base, NEW s \in Streams, Acts(s), UNCHANGED providerVars, NEW t \in Streams, t # s
    PROVE  Aside(t)
<1>a. TypeOK /\ ReaderTypeOK /\ ConnOf[t] \in Conns /\ ConnOf[s] \in Conns /\ ConnOf[t] # ConnOf[s]
  BY QuicAssumption, OneStreamPerConnection DEF Base, TypeOK, ReaderTypeOK
<1>b. /\ pside \in [Conns -> {"none", "refused", "open", "down"}]
      /\ cside \in [Conns -> {"none", "connecting", "open", "down"}]
      /\ up \in [Streams -> Seq(Frames)]
      /\ stopped \in [Streams -> SUBSET Directions] /\ downRd \in [Streams -> Nat]
  BY <1>a DEF TypeOK, QuicTypeOK
<1>c. Same(t)
  BY <1>a, OthersSame DEF Acts
<1>d. UNCHANGED <<hs, log, cancelled, file>> /\ (FilesIntact' => FilesIntact)
  BY DEF providerVars, FilesIntact
<1>1. Setup(s) \/ ByGetter(s)
  BY <1>a, GetterKinds
<1>2. CASE Setup(s)
  <2>1. UNCHANGED <<up, down, downRd, acked, stopped>>
        /\ UNCHANGED <<cside[ConnOf[t]], pside[ConnOf[t]]>>
    BY <1>2, <1>a, <1>b DEF Setup, Connect, wire
  <2> QED
    BY <1>a, <1>c, <1>d, <2>1, AsideStill, LinkStill DEF Aside
<1>3. CASE ByGetter(s)
  <2>1. UNCHANGED <<pside, down, acked>>
    BY <1>3 DEF ByGetter
  <2>2. cside'[ConnOf[t]] = cside[ConnOf[t]]
    BY <1>3, <1>a, <1>b DEF ByGetter, Leaves, Proceeds, OpenBi, Establish, Finished, quicVars, SendHandshake, SendRequest,
       OnlySendUp, conns
  <2>3. up'[t] = up[t]
    BY <1>3, <1>b DEF ByGetter, Leaves, Proceeds, OpenBi, Establish, Finished, quicVars, SendHandshake, SendRequest,
       SendUp, wire
  <2>4. stopped'[t] = stopped[t] /\ downRd'[t] = downRd[t]
    BY <1>3, <1>b DEF ByGetter, Leaves, Proceeds, OpenBi, Establish, Finished, quicVars, SendHandshake, SendRequest,
       OnlySendUp, wire
  <2> QED
    BY <1>a, <1>c, <1>d, <2>1, <2>2, <2>3, <2>4, AsideStill, LinkStill DEF Aside
<1> QED
  BY <1>1, <1>2, <1>3

\* In every step the getter on t acts, or is left alone.
LEMMA AsideStep ==
    ASSUME Base, ServeInv', [Next]_vars, NEW t \in Streams
    PROVE  Aside(t) \/ (Acts(t) /\ UNCHANGED providerVars)
<1>1. CASE ProviderNext /\ UNCHANGED getterVars
  BY <1>1, AsideProvider
<1>2. CASE GetterNext /\ UNCHANGED providerVars
  <2>1. PICK s \in Streams : Acts(s)
    BY <1>2 DEF GetterNext, Acts
  <2> QED
    BY <1>2, <2>1, AsideGetter
<1>3. CASE QuicNext /\ UNCHANGED <<providerVars, getterVars>>
  BY <1>3, AsideQuic
<1>4. CASE UNCHANGED vars
  <2>1. TypeOK /\ Same(t) /\ (FilesIntact' => FilesIntact)
        /\ UNCHANGED <<up, down, downRd, acked, stopped, hs, log, cside, pside, cancelled>>
    BY <1>4 DEF Base, vars, quicVars, providerVars, getterVars, Same, FilesIntact
  <2> QED
    BY <2>1, AsideStill, LinkStill DEF Aside
<1> QED
  BY <1>1, <1>2, <1>3, <1>4 DEF Next

(***************************************************************************)
(* What a getter has sent, and the state of its connection.                *)
(***************************************************************************)
Greeting(s) == Handshake(VERSION, TokenOf[s])
Asking(s) == Request(Want[s])

\* Frames are lost only at the end of a connection.
SpokenAt(s) ==
    /\ gpc[s] \in Connecting \ {"request"} => up[s] = <<>>
    /\ gpc[s] = "request" => up[s] \in {<<>>, <<Greeting(s)>>}
    /\ up[s] \in {<<>>, <<Greeting(s)>>, <<Asking(s), Fin>>, <<Greeting(s), Asking(s), Fin>>}

\* A getter that has returned has dropped its connection, and one that waits
\* for the response has read nothing.
PlaceAt(s) ==
    /\ Returned(s) => cside[ConnOf[s]] = "down"
    /\ gpc[s] \in Early => downRd[s] = 0
    /\ gpc[s] # "idle" => pside[ConnOf[s]] # "none"

TalkAt(s) == SpokenAt(s) /\ PlaceAt(s)

\* The request that the provider reads is the one the getter wanted to send.
LEMMA WantedName ==
    ASSUME TypeOK, NEW s \in Streams, SpokenAt(s), Asked(s)
    PROVE  Name(s) = Want[s] /\ up[s] = <<Greeting(s), Asking(s), Fin>>
<1>1. Len(<<>>) = 0 /\ Len(<<Greeting(s)>>) = 1 /\ Len(<<Asking(s), Fin>>) = 2
  OBVIOUS
<1>2. Len(up[s]) >= 3
  BY DEF Asked
<1>3. up[s] = <<Greeting(s), Asking(s), Fin>>
  <2>a. ~(0 >= 3) /\ ~(1 >= 3) /\ ~(2 >= 3)
    OBVIOUS
  <2>1. up[s] # <<>>
    BY <1>1, <1>2, <2>a, Zenon
  <2>2. up[s] # <<Greeting(s)>>
    BY <1>1, <1>2, <2>a, Zenon
  <2>3. up[s] # <<Asking(s), Fin>>
    BY <1>1, <1>2, <2>a, Zenon
  <2> QED
    BY <2>1, <2>2, <2>3, Zenon DEF SpokenAt
<1> QED
  BY <1>3 DEF Name, Asking, Request

\* Short sequences put together.
LEMMA Joined ==
    ASSUME NEW a, NEW b, NEW c
    PROVE  <<>> \o <<b, c>> = <<b, c>> /\ <<a>> \o <<b, c>> = <<a, b, c>>
<1>1. <<>> \o <<b, c>> = <<b, c>>
  OBVIOUS
<1>2. <<a>> \o <<b, c>> = <<a, b, c>>
  <2> DEFINE S == {a, b, c}
  <2>1. <<a>> \in Seq(S) /\ <<b, c>> \in Seq(S) /\ <<a, b, c>> \in Seq(S)
    OBVIOUS
  <2>2. /\ <<a>> \o <<b, c>> \in Seq(S) /\ Len(<<a>> \o <<b, c>>) = 3
        /\ \A i \in 1..3 : (<<a>> \o <<b, c>>)[i] = IF i <= 1 THEN <<a>>[i] ELSE <<b, c>>[i - 1]
    BY <2>1, ConcatProperties
  <2>3. \A i \in 1..3 : (<<a>> \o <<b, c>>)[i] = <<a, b, c>>[i]
    BY <2>2
  <2> QED
    BY <2>1, <2>2, <2>3, SeqEqual
<1> QED
  BY <1>1, <1>2

\* The outcomes of run and the places where it is.
LEMMA PlacesDiffer == Outcomes \cap Steps = {} /\ Early \subseteq Steps /\ Hearing \subseteq Steps
                      /\ Early \cap Hearing = {} /\ Steps = Early \cup Hearing
BY DEF Outcomes, Steps, Early, Connecting, Hearing

\* Others leave this alone.
LEMMA TalkAside ==
    ASSUME NEW s \in Streams, TalkAt(s), Aside(s)
    PROVE  TalkAt(s)'
<1>1. UNCHANGED <<gpc[s], up[s], downRd[s]>>
  BY DEF Aside, Same, StreamAside
<1>2. SpokenAt(s)'
  BY <1>1 DEF TalkAt, SpokenAt
<1>3. PlaceAt(s)'
  BY <1>1 DEF TalkAt, PlaceAt, Returned, Aside, LinkAside
<1> QED
  BY <1>2, <1>3 DEF TalkAt

\* Every step of the getter keeps it.
LEMMA TalkGetter ==
    ASSUME Base, NEW s \in Streams, TalkAt(s), Acts(s)
    PROVE  TalkAt(s)'
<1>a. ReaderTypeOK /\ ConnOf[s] \in Conns
  BY QuicAssumption DEF Base, TypeOK, ReaderTypeOK
<1>b. /\ cside \in [Conns -> {"none", "connecting", "open", "down"}]
      /\ pside \in [Conns -> {"none", "refused", "open", "down"}]
      /\ gpc \in [Streams -> Steps \cup Outcomes] /\ up \in [Streams -> Seq(Frames)]
      /\ downRd \in [Streams -> Nat]
  BY <1>a DEF ReaderTypeOK, QuicTypeOK, GetterTypeOK
<1>1. CASE Setup(s)
  <2>1. /\ gpc[s] = "idle" /\ gpc'[s] = "connecting" /\ UNCHANGED <<up, downRd>>
        /\ pside'[ConnOf[s]] # "none"
    BY <1>1, <1>a, <1>b DEF Setup, At, To, Connect, wire
  <2> QED
    BY <2>1 DEF TalkAt, SpokenAt, PlaceAt, Returned, Outcomes, Connecting, Early
<1>2. CASE ByGetter(s)
  <2>a. UNCHANGED <<pside, down>>
    BY <1>2 DEF ByGetter
  <2>1. CASE Leaves(s)
    <3>1. gpc[s] # "idle" /\ gpc'[s] \in Outcomes /\ cside'[ConnOf[s]] = "down" /\ up'[s] = up[s]
      BY <1>a, <1>b, <2>1 DEF Leaves
    <3> QED
      BY <3>1, <2>a, PlacesDiffer DEF TalkAt, SpokenAt, PlaceAt, Early, Connecting
  <2>2. CASE Proceeds(s)
    <3>1. gpc[s] # "idle" /\ gpc'[s] \in Hearing /\ UNCHANGED <<up, cside>>
      BY <2>2 DEF Proceeds, Hearing
    <3> QED
      BY <3>1, <2>a DEF TalkAt, SpokenAt, PlaceAt, Returned, Outcomes, Hearing, Early, Connecting
  <2>3. CASE OpenBi(s)
    <3>1. /\ gpc[s] = "connecting" /\ gpc'[s] = "connected" /\ UNCHANGED <<up, downRd>>
          /\ pside[ConnOf[s]] = "open"
      BY <2>3, <1>b DEF OpenBi, At, To, Establish, wire
    <3> QED
      BY <3>1, <2>a DEF TalkAt, SpokenAt, PlaceAt, Returned, Outcomes, Early, Connecting
  <2>4. CASE SendHandshake(s)
    <3>1. /\ gpc[s] = "connected" /\ gpc'[s] = "request" /\ UNCHANGED <<downRd, cside>>
          /\ up'[s] = up[s] \/ up'[s] = up[s] \o <<Greeting(s)>>
      BY <2>4, <1>b DEF SendHandshake, At, To, SendUp, OnlySendUp, conns, Greeting
    <3>2. up[s] = <<>> /\ <<>> \o <<Greeting(s)>> = <<Greeting(s)>>
      BY <3>1 DEF TalkAt, SpokenAt, Connecting
    <3> QED
      BY <3>1, <3>2, <2>a DEF TalkAt, SpokenAt, PlaceAt, Returned, Outcomes, Early, Connecting
  <2>5. CASE SendRequest(s)
    <3>1. /\ gpc[s] = "request" /\ gpc'[s] = "finish" /\ UNCHANGED <<downRd, cside>>
          /\ up'[s] = up[s] \/ up'[s] = up[s] \o <<Asking(s), Fin>>
      BY <2>5, <1>b DEF SendRequest, At, To, SendUp, OnlySendUp, conns, Asking
    <3>2. up[s] \in {<<>>, <<Greeting(s)>>}
      BY <3>1 DEF TalkAt, SpokenAt
    <3>3. /\ <<>> \o <<Asking(s), Fin>> = <<Asking(s), Fin>>
          /\ <<Greeting(s)>> \o <<Asking(s), Fin>> = <<Greeting(s), Asking(s), Fin>>
      BY Joined
    <3>4. up'[s] \in {<<>>, <<Greeting(s)>>, <<Asking(s), Fin>>, <<Greeting(s), Asking(s), Fin>>}
      BY <3>1, <3>2, <3>3
    <3> QED
      BY <3>1, <3>4, <2>a DEF TalkAt, SpokenAt, PlaceAt, Returned, Outcomes, Early, Connecting, Greeting, Asking
  <2>6. CASE Finished(s)
    <3>1. gpc[s] = "finish" /\ gpc'[s] = "response" /\ UNCHANGED <<up, downRd, cside>>
      BY <2>6, <1>b DEF Finished, At, To, quicVars
    <3> QED
      BY <3>1, <2>a DEF TalkAt, SpokenAt, PlaceAt, Returned, Outcomes, Early, Connecting
  <2> QED
    BY <1>2, <2>1, <2>2, <2>3, <2>4, <2>5, <2>6 DEF ByGetter
<1> QED
  BY <1>1, <1>2, <1>a, GetterKinds

(***************************************************************************)
(* Beginnings, item by item.                                               *)
(***************************************************************************)
\* A beginning agrees with the whole as far as it goes.
LEMMA PartItems ==
    ASSUME NEW p \in Seq(Items), NEW q \in Seq(Items), Part(p, q)
    PROVE  /\ Len(p) \in Nat /\ Len(q) \in Nat /\ Len(p) <= Len(q)
           /\ \A i \in 1..Len(p) : q[i] = p[i]
<1>1. PICK r \in Seq(Items) : q = p \o r
  BY DEF Part
<1>2. /\ Len(p \o r) = Len(p) + Len(r)
      /\ \A i \in 1..(Len(p) + Len(r)) :
           (p \o r)[i] = IF i <= Len(p) THEN p[i] ELSE r[i - Len(p)]
  BY ConcatProperties
<1>3. Len(p) \in Nat /\ Len(r) \in Nat /\ Len(q) \in Nat
  OBVIOUS
<1> DEFINE a == Len(p)
           b == Len(r)
<1>4. Len(q) = a + b /\ \A i \in 1..(a + b) : q[i] = IF i <= a THEN p[i] ELSE r[i - a]
  BY <1>1, <1>2
<1> HIDE DEF a, b
<1>5. a \in Nat /\ b \in Nat
  BY <1>3 DEF a, b
<1>6. a <= Len(q) /\ \A i \in 1..a : q[i] = p[i]
  <2>1. a <= a + b /\ \A i \in 1..a : i \in 1..(a + b) /\ i <= a
    BY <1>5
  <2> QED
    BY <1>4, <2>1, Zenon
<1> QED
  BY <1>3, <1>6 DEF a

\* A beginning that is not all goes on with the next item.
LEMMA PartExtends ==
    ASSUME NEW p \in Seq(Items), NEW q \in Seq(Items), Part(p, q), Len(p) < Len(q)
    PROVE  /\ q[Len(p) + 1] \in Items /\ p \o <<q[Len(p) + 1]>> \in Seq(Items)
           /\ Len(p \o <<q[Len(p) + 1]>>) = Len(p) + 1
           /\ Part(p \o <<q[Len(p) + 1]>>, q)
<1>1. PICK r \in Seq(Items) : q = p \o r
  BY DEF Part
<1>2. Len(p \o r) = Len(p) + Len(r) /\ Len(p) \in Nat /\ Len(r) \in Nat
  BY ConcatProperties
<1>3. r # <<>>
  BY <1>1, <1>2
<1>4. Head(r) \in Items /\ Tail(r) \in Seq(Items) /\ r = <<Head(r)>> \o Tail(r)
  BY <1>3, HeadTailProperties, HeadTailAppend
<1> DEFINE x == Head(r)
           y == Tail(r)
<1>5. x \in Items /\ <<x>> \in Seq(Items) /\ y \in Seq(Items) /\ r = <<x>> \o y
  BY <1>4
<1>6. q = (p \o <<x>>) \o y
  <2>1. q = p \o (<<x>> \o y)
    BY <1>1, <1>5
  <2> HIDE DEF x, y
  <2> QED
    BY <2>1, <1>5, ItemsAssoc
<1> HIDE DEF x, y
<1>7. /\ p \o <<x>> \in Seq(Items) /\ Len(p \o <<x>>) = Len(p) + 1
      /\ (p \o <<x>>)[Len(p) + 1] = x
  BY <1>2, <1>5
<1>8. Part(p \o <<x>>, q)
  BY <1>5, <1>6, <1>7, PartFacts
<1>9. q[Len(p) + 1] = x
  <2>1. \A i \in 1..Len(p \o <<x>>) : q[i] = (p \o <<x>>)[i]
    BY <1>7, <1>8, PartItems
  <2>2. Len(p) + 1 \in 1..Len(p \o <<x>>)
    BY <1>2, <1>7
  <2> QED
    BY <1>7, <2>1, <2>2
<1> QED
  BY <1>5, <1>7, <1>8, <1>9

\* Two beginnings of the same go on with the same item.
LEMMA PartAgrees ==
    ASSUME NEW p \in Seq(Items), NEW q \in Seq(Items), NEW u \in Seq(Items), NEW x \in Items,
           Part(p, q), Part(q, u), Part(p \o <<x>>, u), Len(p) < Len(q)
    PROVE  q[Len(p) + 1] = x
<1>1. /\ p \o <<x>> \in Seq(Items) /\ Len(p \o <<x>>) = Len(p) + 1 /\ Len(p) \in Nat
      /\ (p \o <<x>>)[Len(p) + 1] = x
  OBVIOUS
<1>2. \A i \in 1..Len(p \o <<x>>) : u[i] = (p \o <<x>>)[i]
  BY <1>1, PartItems
<1>3. \A i \in 1..Len(q) : u[i] = q[i]
  BY PartItems
<1>4. Len(p) + 1 \in 1..Len(p \o <<x>>) /\ Len(p) + 1 \in 1..Len(q)
  BY <1>1
<1> QED
  BY <1>1, <1>2, <1>3, <1>4

(***************************************************************************)
(* The steps by which a getter goes on with the answer, each with all it   *)
(* changes of the getter's own state.                                      *)
(***************************************************************************)
\* The next item is taken off the stream, and is not the end of it.
Takes(s, it) == ReadItem(s) /\ NextItem(s) = it /\ it # Fin
Keeps(s) == UNCHANGED <<total[s], rem[s], delivered[s]>>

TurnResponse(s) ==
    /\ gpc[s] = "response" /\ gpc'[s] = "coll"
    /\ \E it \in Items : Takes(s, it) /\ it.t = "foundcollection" /\ total'[s] = it.n /\ rem'[s] = it.n
    /\ pos'[s] = 0 /\ UNCHANGED <<hdr[s], got[s], delivered[s]>>
TurnItem(s) ==
    /\ gpc[s] = "coll" /\ gpc'[s] = "coll" /\ Takes(s, Enc(Want[s])[pos[s] + 1])
    /\ pos[s] # Segments[Want[s]] /\ pos'[s] = pos[s] + 1
    /\ Keeps(s) /\ UNCHANGED <<hdr[s], got[s]>>
TurnCollection(s) ==
    /\ gpc[s] = "coll" /\ gpc'[s] = "oncollection" /\ Takes(s, Enc(Want[s])[pos[s] + 1])
    /\ pos[s] = Segments[Want[s]]
    /\ Keeps(s) /\ UNCHANGED <<hdr[s], got[s]>>
TurnLoop(s) ==
    /\ gpc[s] = "oncollection" /\ gpc'[s] \in {"blobres", "end"}
    /\ Keeps(s) /\ UNCHANGED <<hdr[s], got[s], downRd>>
TurnFound(s) ==
    /\ gpc[s] = "blobres" /\ gpc'[s] = "size" /\ Takes(s, Found)
    /\ Keeps(s) /\ UNCHANGED <<hdr[s], got[s]>>
TurnSize(s) ==
    /\ gpc[s] = "size" /\ gpc'[s] = "onblob" /\ pos'[s] = 0
    /\ \E n \in Nat : Takes(s, Size(n)) /\ n <= rem[s] /\ hdr'[s] = n /\ rem'[s] = rem[s] - n
    /\ UNCHANGED <<total[s], got[s], delivered[s]>>
TurnSegment(s) ==
    /\ gpc[s] = "onblob" /\ gpc'[s] = "onblob" /\ Takes(s, Data(Current(s), pos[s] + 1))
    /\ hdr[s] = Segments[Current(s)] /\ pos[s] < hdr[s]
    /\ pos'[s] = pos[s] + 1 /\ delivered'[s] = delivered[s] + 1
    /\ UNCHANGED <<total[s], rem[s], hdr[s], got[s]>>
TurnCheck(s) ==
    /\ gpc[s] = "onblob" /\ gpc'[s] = "check"
    /\ Keeps(s) /\ UNCHANGED <<hdr[s], got[s], pos[s], downRd>>
TurnNext(s) ==
    /\ gpc[s] = "check" /\ gpc'[s] \in {"blobres", "end"} /\ AtEndOfBlob(s)
    /\ got'[s] = Append(got[s], pos[s]) /\ Keeps(s) /\ UNCHANGED downRd
TurnPassed(s) ==
    /\ gpc[s] = "check" /\ gpc'[s] \in {"blobres", "end"} /\ ~AtEndOfBlob(s) /\ Keeps(s)
    /\ \/ pos[s] = hdr[s]
       \/ pos[s] < hdr[s] /\ CanReadDown(s) /\ ~Verifies(s, NextItem(s))

Turns(s) ==
    \/ TurnResponse(s) \/ TurnItem(s) \/ TurnCollection(s) \/ TurnLoop(s) \/ TurnFound(s)
    \/ TurnSize(s) \/ TurnSegment(s) \/ TurnCheck(s) \/ TurnNext(s) \/ TurnPassed(s)

\* The items the getter goes on with are not the end of the stream.
LEMMA Goes ==
    /\ Found # Fin
    /\ \A it : it = Fin => it.t = "fin"
    /\ \A n : Size(n) # Fin
    /\ \A h \in Hash : \A k \in 1..(Segments[h] + 1) : Enc(h)[k] # Fin
    /\ \A h, k : Data(h, k) # Fin
    /\ \A it \in Items : it.t = "size" => it.n \in Nat /\ it = Size(it.n)
    /\ \A it \in Items : it.t = "foundcollection" => it.n \in Nat /\ it = FoundCollection(it.n)
<1>1. Found # Fin /\ \A h \in Hash : \A k \in 1..(Segments[h] + 1) : Enc(h)[k] # Fin
  BY NoFin
<1>2. (\A it : it = Fin => it.t = "fin") /\ (\A n : Size(n) # Fin) /\ (\A h, k : Data(h, k) # Fin)
  BY DEF Fin, Size, Data
<1>3. \A it \in Items : it.t = "size" => it.n \in Nat /\ it = Size(it.n)
  BY DEF Items, Size
<1>4. \A it \in Items : it.t = "foundcollection" => it.n \in Nat /\ it = FoundCollection(it.n)
  BY DEF Items, FoundCollection
<1> QED
  BY <1>1, <1>2, <1>3, <1>4

\* A getter that goes on with the answer does so in one of these ways.
LEMMA GetterTurns ==
    ASSUME ReaderTypeOK, NEW s \in Streams, Acts(s), gpc'[s] \in Hearing, ProgressAt(s),
           gpc[s] = "coll" => pos[s] <= Segments[Want[s]]
    PROVE  Turns(s)
<1>a. /\ QuicTypeOK /\ gpc \in [Streams -> Steps \cup Outcomes]
      /\ total \in [Streams -> Nat] /\ rem \in [Streams -> Nat] /\ hdr \in [Streams -> Nat]
      /\ pos \in [Streams -> Nat] /\ got \in [Streams -> Seq(Nat)] /\ delivered \in [Streams -> Nat]
  BY DEF ReaderTypeOK, GetterTypeOK
<1>b. CanReadDown(s) => NextItem(s) \in Items
  BY <1>a, NextItemType
<1>c. ASSUME NEW o \in Outcomes, To(s, o) PROVE FALSE
  BY <1>a, <1>c DEF To, Hearing, Outcomes
<1>d. ASSUME NEW o \in Outcomes, Exit(s, o) PROVE FALSE
  BY <1>c, <1>d DEF Exit
<1>e. ASSUME NEW o \in Outcomes, ExitReading(s, o) PROVE FALSE
  BY <1>d, <1>e DEF ExitReading
<1>f. Want[s] \in Hash
  BY GetterAssumption
<1>g. ReadItem(s) => CanReadDown(s)
  BY DEF ReadItem
<1>1. CASE \/ SetupFails(s) \/ SendFails(s) \/ EmptyRefused(s) \/ ReadFails(s) \/ CallbackFails(s)
           \/ Cancel(s) \/ ReadEnd(s)
  BY <1>1, <1>d DEF SetupFails, SendFails, EmptyRefused, ReadFails, CallbackFails, Cancel, ReadEnd,
     Outcomes
<1>2. CASE Setup(s) \/ OpenBi(s) \/ SendHandshake(s) \/ SendRequest(s) \/ Finished(s)
  BY <1>2, <1>a DEF Setup, OpenBi, SendHandshake, SendRequest, Finished, To, Hearing
<1>3. CASE ReadResponse(s)
  <2>1. /\ At(s, "response") /\ ReadItem(s) /\ NextItem(s).t = "foundcollection"
        /\ total' = [total EXCEPT ![s] = NextItem(s).n] /\ rem' = [rem EXCEPT ![s] = NextItem(s).n]
        /\ pos' = [pos EXCEPT ![s] = 0] /\ To(s, "coll") /\ UNCHANGED <<hdr, got, delivered>>
    BY <1>3, <1>e DEF ReadResponse, Outcomes
  <2>2. NextItem(s) \in Items /\ NextItem(s) # Fin
    BY <1>b, <1>g, <2>1 DEF Fin
  <2>3. TurnResponse(s)
    BY <1>a, <2>1, <2>2 DEF TurnResponse, Takes, At, To
  <2> QED
    BY <2>3 DEF Turns
<1>4. CASE ReadCollection(s)
  <2> DEFINE e == Enc(Want[s])[pos[s] + 1]
  <2>1. gpc[s] = "coll" /\ ReadItem(s) /\ NextItem(s) = e
    BY <1>4, <1>e DEF ReadCollection, Outcomes, At
  <2>2. e # Fin
    <3>1. Segments[Want[s]] \in Nat /\ pos[s] \in Nat /\ pos[s] <= Segments[Want[s]]
      BY <1>a, <1>f, <2>1, HashAssumption
    <3>2. pos[s] + 1 \in 1..(Segments[Want[s]] + 1)
      BY <3>1
    <3> QED
      BY <1>f, <3>2, NoFin
  <2>3. Takes(s, e)
    BY <2>1, <2>2 DEF Takes
  <2>4. \/ /\ pos[s] # Segments[Want[s]] /\ pos' = [pos EXCEPT ![s] = @ + 1]
           /\ UNCHANGED <<gpc, total, rem, hdr, got, delivered>>
        \/ pos[s] = Segments[Want[s]] /\ To(s, "oncollection") /\ UNCHANGED counts
    BY <1>4, <1>e, <2>1 DEF ReadCollection, Outcomes
  <2>5. TurnItem(s) \/ TurnCollection(s)
    BY <1>a, <2>1, <2>3, <2>4 DEF TurnItem, TurnCollection, Keeps, To, counts
  <2> QED
    BY <2>5 DEF Turns
<1>5. CASE OnCollection(s)
  <2>1. TurnLoop(s)
    BY <1>5, <1>a DEF OnCollection, At, To, LoopHead, TurnLoop, Keeps, counts, quicVars
  <2> QED
    BY <2>1 DEF Turns
<1>6. CASE ReadBlobResponse(s)
  <2>1. /\ gpc[s] = "blobres" /\ ReadItem(s) /\ NextItem(s) = Found /\ To(s, "size")
        /\ UNCHANGED counts
    BY <1>6, <1>e DEF ReadBlobResponse, Outcomes, At
  <2>2. TurnFound(s)
    BY <1>a, <2>1, Goes DEF TurnFound, Takes, Keeps, To, counts
  <2> QED
    BY <2>2 DEF Turns
<1>7. CASE ReadSize(s)
  <2>1. /\ gpc[s] = "size" /\ ReadItem(s) /\ NextItem(s).t = "size" /\ NextItem(s).n <= rem[s]
        /\ rem' = [rem EXCEPT ![s] = @ - NextItem(s).n] /\ hdr' = [hdr EXCEPT ![s] = NextItem(s).n]
        /\ pos' = [pos EXCEPT ![s] = 0] /\ To(s, "onblob") /\ UNCHANGED <<total, got, delivered>>
    BY <1>7, <1>e DEF ReadSize, Outcomes, At
  <2>2. NextItem(s) \in Items
    BY <1>b, <1>g, <2>1
  <2>3. NextItem(s).n \in Nat /\ NextItem(s) = Size(NextItem(s).n)
    BY <2>1, <2>2, Goes
  <2>4. Takes(s, Size(NextItem(s).n))
    BY <2>1, <2>3, Goes DEF Takes
  <2>5. /\ gpc'[s] = "onblob" /\ pos'[s] = 0 /\ hdr'[s] = NextItem(s).n
        /\ rem'[s] = rem[s] - NextItem(s).n /\ UNCHANGED <<total[s], got[s], delivered[s]>>
    BY <1>a, <2>1 DEF To
  <2>6. TurnSize(s)
    BY <2>1, <2>3, <2>4, <2>5 DEF TurnSize
  <2> QED
    BY <2>6 DEF Turns
<1>8. CASE ReadSegment(s)
  <2>1. /\ gpc[s] = "onblob" /\ ReadItem(s) /\ Verifies(s, NextItem(s))
        /\ pos' = [pos EXCEPT ![s] = @ + 1] /\ delivered' = [delivered EXCEPT ![s] = @ + 1]
        /\ UNCHANGED <<gpc, total, rem, hdr, got>>
    BY <1>8, <1>e DEF ReadSegment, Outcomes, At
  <2>2. TurnSegment(s)
    BY <1>a, <2>1, Goes DEF TurnSegment, Takes, Verifies
  <2> QED
    BY <2>2 DEF Turns
<1>9. CASE OnBlobReturns(s)
  <2>1. TurnCheck(s)
    BY <1>9, <1>a DEF OnBlobReturns, At, To, TurnCheck, Keeps, counts, quicVars
  <2> QED
    BY <2>1 DEF Turns
<1>10. ASSUME NextBlob(s)
       PROVE  /\ gpc'[s] \in {"blobres", "end"} /\ got'[s] = Append(got[s], pos[s]) /\ Keeps(s)
  BY <1>a, <1>10 DEF NextBlob, To, LoopHead, Keeps
<1>11. CASE CheckAtEnd(s)
  <2>1. TurnNext(s)
    BY <1>10, <1>11, <1>a DEF CheckAtEnd, At, TurnNext, quicVars
  <2> QED
    BY <2>1 DEF Turns
<1>12. CASE CheckReads(s) \/ CheckFails(s)
  <2>1. /\ gpc[s] = "check" /\ NextBlob(s)
        /\ \/ ~AtEndOfBlob(s) /\ pos[s] = hdr[s]
           \/ pos[s] < hdr[s] /\ ReadItem(s) /\ ~Verifies(s, NextItem(s))
    BY <1>12, <1>e DEF CheckReads, CheckFails, Outcomes, At
  <2>2. pos[s] < hdr[s] => ~AtEndOfBlob(s)
    BY <1>a DEF AtEndOfBlob
  <2>3. TurnPassed(s)
    BY <1>10, <1>g, <2>1, <2>2 DEF TurnPassed
  <2> QED
    BY <2>3 DEF Turns
<1> QED
  BY <1>1, <1>2, <1>3, <1>4, <1>5, <1>6, <1>7, <1>8, <1>9, <1>11, <1>12 DEF Acts, GetterStep

(***************************************************************************)
(* What a getter has heard of the answer, and what it awaits next.         *)
(***************************************************************************)
\* The provider can serve what the getter wants, and no file has changed.
Clean(s) == FilesIntact /\ Servable(Want[s])

Past(s) == Leading(Want[s]) \o BlobStreams(ListOf(s))[Len(got[s])]
Heard(s) ==
    CASE gpc[s] = "coll" -> Opening(Want[s]) \o SubSeq(Enc(Want[s]), 1, pos[s])
      [] gpc[s] \in {"oncollection", "blobres", "end"} -> Past(s)
      [] gpc[s] = "size" -> Past(s) \o <<Found>>
      [] gpc[s] \in {"onblob", "check"} ->
           (Past(s) \o <<Found>>) \o SubSeq(Enc(Current(s)), 1, pos[s] + 1)
Awaited(s) ==
    CASE gpc[s] = "coll" -> Enc(Want[s])[pos[s] + 1]
      [] gpc[s] = "blobres" -> Found
      [] gpc[s] = "size" -> Enc(Current(s))[1]
      [] gpc[s] \in {"onblob", "check"} -> Enc(Current(s))[pos[s] + 2]
      [] gpc[s] = "end" -> Fin

\* Exactly what it has heard was read, and is what is on the stream.
Aligned(s) == downRd[s] = Len(Heard(s)) /\ Part(Heard(s), down[s])

\* The size in the header of the current blob is the right one.
RightHeader(s) == gpc[s] \in {"onblob", "check"} => hdr[s] = Segments[Current(s)]

\* The getter follows the answer: as long as on_blob reads every blob to its
\* end, or else as long as the provider sends nothing wrong.
KnownAt(s) ==
    /\ Announced(s) /\ Name(s) = Want[s] /\ Stored[Want[s]] = "collection"
    /\ total[s] = TotalBlobsSize[Want[s]]
FollowsAt(s) ==
    /\ gpc[s] = "coll" => pos[s] <= Segments[Want[s]]
    /\ Clean(s) => RightHeader(s)
    /\ (LazyBlobs = {} \/ Clean(s)) /\ RightHeader(s) => Aligned(s)
HearAt(s) == gpc[s] \in Hearing => KnownAt(s) /\ FollowsAt(s)

\* Where the getter is within the collection.
LEMMA WithinList ==
    ASSUME TypeOK, NEW s \in Streams, ProgressAt(s), gpc[s] \in Hearing,
           Stored[Want[s]] = "collection"
    PROVE  /\ Want[s] \in Collections /\ Want[s] \in Hash /\ ListOf(s) = Blobs[Want[s]]
           /\ ListOf(s) \in Seq(Hash) /\ Len(got[s]) \in 0..Len(ListOf(s)) /\ Segments[Want[s]] \in Nat
           /\ gpc[s] \in InBlobs =>
                /\ Len(got[s]) < Len(ListOf(s)) /\ Current(s) = Blobs[Want[s]][Len(got[s]) + 1]
                /\ Current(s) \in Hash /\ Segments[Current(s)] \in Nat
           /\ gpc[s] = "end" => Len(got[s]) = Len(ListOf(s))
           /\ gpc[s] \in {"coll", "oncollection"} => Len(got[s]) = 0
           /\ pos[s] \in Nat /\ hdr[s] \in Nat
<1>1. Want[s] \in Hash
  BY GetterAssumption
<1>2. Want[s] \in Collections /\ Segments[Want[s]] \in Nat /\ Blobs[Want[s]] \in Seq(Hash)
  BY <1>1, HashAssumption
<1>3. got[s] \in Seq(Nat) /\ pos[s] \in Nat /\ hdr[s] \in Nat
  BY DEF TypeOK, GetterTypeOK
<1>4. gpc[s] \in {"coll", "oncollection"} => Len(got[s]) = 0
  BY DEF ProgressAt, BeforeBlobs
<1>5. /\ gpc[s] \in InBlobs => Len(got[s]) < Len(ListOf(s))
      /\ gpc[s] = "end" => Len(got[s]) = Len(ListOf(s))
  BY DEF ProgressAt
<1>6. ListOf(s) = Blobs[Want[s]]
  BY DEF ListOf
<1>7. gpc[s] \in {"coll", "oncollection", "end"} \cup InBlobs
  BY DEF Hearing, InBlobs
<1> DEFINE L == ListOf(s)
           n == Len(got[s])
<1>8. L \in Seq(Hash) /\ n \in Nat /\ Len(L) \in Nat
  BY <1>2, <1>3, <1>6
<1>9. n \in 0..Len(L)
  <2> HIDE DEF L
  <2>1. n = 0 \/ n < Len(L) \/ n = Len(L)
    BY <1>4, <1>5, <1>7 DEF L
  <2> HIDE DEF n
  <2> QED
    BY <1>8, <2>1
<1>10. gpc[s] \in InBlobs =>
         Current(s) = Blobs[Want[s]][n + 1] /\ Current(s) \in Hash /\ Segments[Current(s)] \in Nat
  <2> SUFFICES ASSUME gpc[s] \in InBlobs
               PROVE  /\ Current(s) = Blobs[Want[s]][n + 1] /\ Current(s) \in Hash
                      /\ Segments[Current(s)] \in Nat
    OBVIOUS
  <2>1. n < Len(L)
    BY <1>5
  <2>2. Current(s) = L[n + 1]
    BY DEF Current
  <2> HIDE DEF L, n
  <2>3. n + 1 \in 1..Len(L)
    BY <1>8, <2>1
  <2>4. L[n + 1] \in Hash
    BY <1>8, <2>3
  <2> QED
    BY <1>6, <2>2, <2>4, HashAssumption DEF L
<1> QED
  BY <1>1, <1>2, <1>3, <1>4, <1>5, <1>6, <1>8, <1>9, <1>10

\* The items of the next blob, up to and with its last one, are where the
\* answer goes on.
LEMMA NextItems ==
    ASSUME NEW h \in Collections, NEW n \in 0..Len(Blobs[h]), n < Len(Blobs[h]),
           NEW k \in 0..Segments[Blobs[h][n + 1]]
    PROVE  LET X == (Leading(h) \o BlobStreams(Blobs[h])[n]) \o <<Found>>
               E == Enc(Blobs[h][n + 1])
           IN  /\ X \o SubSeq(E, 1, k) \in Seq(Items) /\ X \o SubSeq(E, 1, k + 1) \in Seq(Items)
               /\ E[k + 1] \in Items
               /\ (X \o SubSeq(E, 1, k)) \o <<E[k + 1]>> = X \o SubSeq(E, 1, k + 1)
               /\ Part(X \o SubSeq(E, 1, k + 1), Answer(h))
<1> DEFINE b == Blobs[h][n + 1]
           X == (Leading(h) \o BlobStreams(Blobs[h])[n]) \o <<Found>>
           E == Enc(b)
           m == Segments[b]
<1>1. Blobs[h] \in Seq(Hash) /\ n + 1 \in 1..Len(Blobs[h]) /\ n + 1 \in 0..Len(Blobs[h])
  BY HashAssumption
<1>2. b \in Hash /\ m \in Nat
  BY <1>1, HashAssumption
<1>3. /\ X \o SubSeq(E, 1, k) \in Seq(Items)
      /\ (X \o SubSeq(E, 1, k)) \o <<E[k + 1]>> = X \o SubSeq(E, 1, k + 1)
      /\ X \o SubSeq(E, 1, m + 1) = Leading(h) \o BlobStreams(Blobs[h])[n + 1]
  BY NextBlobFacts
<1>4. E[k + 1] \in Items
  <2>1. k + 1 \in 1..(m + 1)
    BY <1>2
  <2> QED
    BY <1>2, <2>1, ItemFacts
<1>5. X \o SubSeq(E, 1, k + 1) \in Seq(Items)
  <2> HIDE DEF X, E
  <2> QED
    BY <1>3, <1>4
<1>6. Part(X \o SubSeq(E, 1, k + 1), Answer(h))
  <2>1. CASE k < m
    <3>1. k + 1 \in 0..m
      BY <1>2, <2>1
    <3> QED
      BY <3>1, NextBlobFacts
  <2>2. CASE k = m
    <3>1. Part(Leading(h) \o BlobStreams(Blobs[h])[n + 1], Answer(h))
      BY <1>1, AnswerFacts
    <3> QED
      BY <1>3, <2>2, <3>1
  <2>3. k < m \/ k = m
    BY <1>2
  <2> QED
    BY <2>1, <2>2, <2>3
<1> QED
  BY <1>3, <1>4, <1>5, <1>6

\* What the getter awaits is what the answer goes on with.
LEMMA AwaitedNext ==
    ASSUME TypeOK, NEW s \in Streams, ProgressAt(s), gpc[s] \in Hearing \ {"oncollection"},
           Stored[Want[s]] = "collection",
           gpc[s] = "coll" => pos[s] <= Segments[Want[s]],
           gpc[s] \in {"onblob", "check"} => pos[s] < Segments[Current(s)]
    PROVE  /\ Heard(s) \in Seq(Items) /\ Awaited(s) \in Items
           /\ Part(Heard(s) \o <<Awaited(s)>>, Answer(Want[s]))
<1> DEFINE h == Want[s]
           n == Len(got[s])
<1>a. /\ h \in Collections /\ h \in Hash /\ ListOf(s) = Blobs[h] /\ n \in 0..Len(Blobs[h])
      /\ gpc[s] \in InBlobs =>
           /\ n < Len(Blobs[h]) /\ Current(s) = Blobs[h][n + 1]
           /\ Current(s) \in Hash /\ Segments[Current(s)] \in Nat
      /\ gpc[s] = "end" => n = Len(Blobs[h])
      /\ pos[s] \in Nat /\ Segments[h] \in Nat
  BY WithinList
<1>b. Past(s) = Leading(h) \o BlobStreams(Blobs[h])[n]
  BY <1>a DEF Past
<1>c. /\ Past(s) \in Seq(Items) /\ Answer(h) \in Seq(Items)
      /\ Answer(h) = (Leading(h) \o BlobStreams(Blobs[h])[Len(Blobs[h])]) \o <<Fin>>
  BY <1>a, <1>b, AnswerFacts
<1>1. CASE gpc[s] = "coll"
  <2> DEFINE e == Enc(h)
             p == SubSeq(e, 1, pos[s])
             x == e[pos[s] + 1]
  <2>1. pos[s] \in 0..Segments[h] /\ pos[s] + 1 \in 1..(Segments[h] + 1)
    BY <1>a, <1>1
  <2>2. Opening(h) \in Seq(Items) /\ p \in Seq(Items) /\ x \in Items /\ e \in Seq(Items)
        /\ p \o <<x>> = SubSeq(e, 1, pos[s] + 1)
    BY <1>a, <2>1, EncFacts, ItemFacts, AnswerFacts
  <2>3. Part(p \o <<x>>, e)
    <3>1. CASE pos[s] < Segments[h]
      <4>1. pos[s] + 1 \in 0..Segments[h]
        BY <1>a, <3>1
      <4> QED
        BY <1>a, <2>2, <4>1, EncFacts
    <3>2. CASE pos[s] = Segments[h]
      <4>1. p \o <<x>> = e
        BY <1>a, <2>1, <2>2, <3>2, EncFacts
      <4> QED
        BY <2>2, <4>1, PartFacts
    <3> QED
      BY <1>a, <2>1, <3>1, <3>2
  <2>4. Heard(s) = Opening(h) \o p /\ Awaited(s) = x
    BY <1>1 DEF Heard, Awaited
  <2>5. Part(Leading(h), Answer(h)) /\ Leading(h) = Opening(h) \o e /\ Leading(h) \in Seq(Items)
    <3>0. Blobs[h] \in Seq(Hash) /\ 0 \in 0..Len(Blobs[h])
      BY <1>a, HashAssumption
    <3>1. Leading(h) = Leading(h) \o BlobStreams(Blobs[h])[0] /\ 0 \in 0..Len(Blobs[h])
      BY <1>a, <3>0, AnswerFacts
    <3>2. /\ Part(Leading(h) \o BlobStreams(Blobs[h])[0], Answer(h))
          /\ Leading(h) \o BlobStreams(Blobs[h])[0] \in Seq(Items)
      BY <1>a, <3>1, AnswerFacts
    <3> QED
      BY <3>1, <3>2 DEF Leading
  <2> HIDE DEF p, x, e, h, n
  <2>6. p \o <<x>> \in Seq(Items) /\ <<x>> \in Seq(Items)
    BY <2>2
  <2>7. Part(Opening(h) \o (p \o <<x>>), Opening(h) \o e)
    BY <2>2, <2>3, <2>6, PartFacts
  <2>8. (Opening(h) \o p) \o <<x>> = Opening(h) \o (p \o <<x>>)
    BY <2>2, <2>6, ItemsAssoc
  <2>9. Opening(h) \o p \in Seq(Items) /\ (Opening(h) \o p) \o <<x>> \in Seq(Items)
    BY <2>2, <2>6, PartFacts
  <2>10. Part((Opening(h) \o p) \o <<x>>, Answer(h))
    BY <1>c, <2>5, <2>7, <2>8, <2>9, PartTrans
  <2> QED
    BY <2>2, <2>4, <2>9, <2>10 DEF h
<1>2. CASE gpc[s] = "blobres"
  <2>1. Heard(s) = Past(s) /\ Awaited(s) = Found
    BY <1>2 DEF Heard, Awaited
  <2>2. n < Len(Blobs[h]) /\ 0 \in 0..Segments[Blobs[h][n + 1]]
    BY <1>2, <1>a DEF InBlobs
  <2>3. Part((Leading(h) \o BlobStreams(Blobs[h])[n]) \o <<Found>>, Answer(h))
    BY <1>a, <2>2, NextBlobFacts
  <2> QED
    BY <1>b, <1>c, <2>1, <2>3, ItemFacts
<1>3. CASE gpc[s] = "size"
  <2> DEFINE X == (Leading(h) \o BlobStreams(Blobs[h])[n]) \o <<Found>>
             E == Enc(Blobs[h][n + 1])
  <2>1. Heard(s) = X /\ Awaited(s) = E[1]
    BY <1>3, <1>a, <1>b DEF Heard, Awaited, InBlobs
  <2>2. n < Len(Blobs[h]) /\ 0 \in 0..Segments[Blobs[h][n + 1]] /\ 0 + 1 = 1
    BY <1>3, <1>a DEF InBlobs
  <2>3. X \in Seq(Items) /\ X \o SubSeq(E, 1, 0) = X
    BY <1>a, <2>2, NextBlobFacts
  <2>4. /\ E[0 + 1] \in Items /\ (X \o SubSeq(E, 1, 0)) \o <<E[0 + 1]>> = X \o SubSeq(E, 1, 0 + 1)
        /\ Part(X \o SubSeq(E, 1, 0 + 1), Answer(h))
    BY <1>a, <2>2, NextItems
  <2> HIDE DEF X, E, h, n
  <2> QED
    BY <2>1, <2>2, <2>3, <2>4, Zenon DEF h
<1>4. CASE gpc[s] \in {"onblob", "check"}
  <2> DEFINE X == (Leading(h) \o BlobStreams(Blobs[h])[n]) \o <<Found>>
             E == Enc(Blobs[h][n + 1])
             k == pos[s] + 1
  <2>1. Heard(s) = X \o SubSeq(E, 1, k) /\ Awaited(s) = E[pos[s] + 2]
    BY <1>4, <1>a, <1>b DEF Heard, Awaited, InBlobs
  <2>2. n < Len(Blobs[h]) /\ k \in 0..Segments[Blobs[h][n + 1]] /\ pos[s] + 2 = k + 1
    BY <1>4, <1>a DEF InBlobs
  <2>4. /\ E[k + 1] \in Items /\ X \o SubSeq(E, 1, k) \in Seq(Items)
        /\ (X \o SubSeq(E, 1, k)) \o <<E[k + 1]>> = X \o SubSeq(E, 1, k + 1)
        /\ Part(X \o SubSeq(E, 1, k + 1), Answer(h))
    BY <1>a, <2>2, NextItems
  <2> HIDE DEF X, E, h, n, k
  <2> QED
    BY <2>1, <2>2, <2>4, Zenon DEF h
<1>5. CASE gpc[s] = "end"
  <2>1. Heard(s) = Past(s) /\ Awaited(s) = Fin
    BY <1>5 DEF Heard, Awaited
  <2>2. Heard(s) \o <<Awaited(s)>> = Answer(h)
    BY <1>a, <1>b, <1>c, <1>5, <2>1
  <2>3. Part(Answer(h), Answer(h))
    BY <1>c, PartFacts
  <2> QED
    BY <1>c, <2>1, <2>2, <2>3, ItemFacts
<1> QED
  BY <1>1, <1>2, <1>3, <1>4, <1>5 DEF Hearing

\* What the getter has heard are items.
LEMMA HeardType ==
    ASSUME TypeOK, NEW s \in Streams, ProgressAt(s), BudgetAt(s), gpc[s] \in Hearing,
           Stored[Want[s]] = "collection", RightHeader(s),
           gpc[s] = "coll" => pos[s] <= Segments[Want[s]]
    PROVE  Heard(s) \in Seq(Items)
<1> DEFINE h == Want[s]
           n == Len(got[s])
<1>a. /\ h \in Collections /\ ListOf(s) = Blobs[h] /\ n \in 0..Len(Blobs[h])
      /\ gpc[s] \in InBlobs =>
           /\ n < Len(Blobs[h]) /\ Current(s) = Blobs[h][n + 1]
           /\ Current(s) \in Hash /\ Segments[Current(s)] \in Nat
      /\ pos[s] \in Nat
  BY WithinList
<1>b. Past(s) = Leading(h) \o BlobStreams(Blobs[h])[n] /\ Past(s) \in Seq(Items)
  BY <1>a, AnswerFacts DEF Past
<1>1. CASE gpc[s] = "oncollection"
  BY <1>1, <1>b DEF Heard
<1>2. CASE gpc[s] \in {"onblob", "check"}
  <2>1. pos[s] \in 0..Segments[Blobs[h][n + 1]] /\ n < Len(Blobs[h])
    BY <1>2, <1>a DEF BudgetAt, RightHeader, InBlobs
  <2> DEFINE X == (Leading(h) \o BlobStreams(Blobs[h])[n]) \o <<Found>>
             E == Enc(Blobs[h][n + 1])
  <2>2. X \o SubSeq(E, 1, pos[s] + 1) \in Seq(Items)
    BY <1>a, <2>1, NextItems
  <2>3. Heard(s) = X \o SubSeq(E, 1, pos[s] + 1)
    BY <1>2, <1>a, <1>b DEF Heard, InBlobs
  <2> QED
    BY <2>2, <2>3
<1>3. CASE gpc[s] \notin {"oncollection", "onblob", "check"}
  BY <1>3, AwaitedNext
<1> QED
  BY <1>1, <1>2, <1>3

\* The encoding of a blob: its size, then its segments.
LEMMA EncItems ==
    ASSUME NEW h \in Hash
    PROVE  /\ Enc(h)[1] = Size(Segments[h])
           /\ \A k \in Nat : k < Segments[h] => Enc(h)[k + 2] = Data(h, k + 1)
<1>1. Segments[h] \in Nat
  BY HashAssumption
<1>2. 1 \in 1..(Segments[h] + 1)
  BY <1>1
<1>3. Enc(h)[1] = Size(Segments[h])
  BY <1>2 DEF Enc
<1>4. ASSUME NEW k \in Nat, k < Segments[h] PROVE Enc(h)[k + 2] = Data(h, k + 1)
  <2>1. k + 2 \in 1..(Segments[h] + 1) /\ k + 2 # 1 /\ (k + 2) - 1 = k + 1
    BY <1>1, <1>4
  <2> QED
    BY <2>1 DEF Enc
<1> QED
  BY <1>3, <1>4

\* A getter that follows the answer of a provider that sends nothing wrong
\* finds what it awaits.
LEMMA Awaits ==
    ASSUME Base, NEW s \in Streams, HearAt(s), Clean(s), gpc[s] \in Hearing \ {"oncollection"},
           gpc[s] \in {"onblob", "check"} => pos[s] < hdr[s], CanReadDown(s)
    PROVE  NextItem(s) = Awaited(s) /\ RightHeader(s)
<1>a. /\ TypeOK /\ ServeInv /\ ServerTypeOK /\ down[s] \in Seq(Items) /\ ProgressAt(s)
      /\ downRd[s] \in Nat /\ PartAt(s)
  BY DEF Base, TypeOK, ServerTypeOK, QuicTypeOK, BlobProgress, OrderInv, OrderAt
<1>1. KnownAt(s) /\ FollowsAt(s)
  BY DEF HearAt
<1>2. RightHeader(s) /\ Aligned(s)
  BY <1>1 DEF FollowsAt
<1>3. /\ Heard(s) \in Seq(Items) /\ Awaited(s) \in Items
      /\ Part(Heard(s) \o <<Awaited(s)>>, Answer(Want[s]))
  BY <1>a, <1>1, <1>2, AwaitedNext DEF KnownAt, FollowsAt, RightHeader
<1>4. Part(down[s], Answer(Want[s]))
  BY <1>a, <1>1 DEF PartAt, KnownAt, Clean
<1>5. Answer(Want[s]) \in Seq(Items)
  <2>1. Want[s] \in Collections /\ Len(got[s]) \in 0..Len(Blobs[Want[s]])
    BY <1>a, <1>1, WithinList DEF KnownAt
  <2> QED
    BY <2>1, AnswerFacts
<1>6. Part(Heard(s), down[s]) /\ downRd[s] = Len(Heard(s)) /\ Len(Heard(s)) < Len(down[s])
  BY <1>2 DEF Aligned, CanReadDown
<1>7. down[s][Len(Heard(s)) + 1] = Awaited(s)
  BY <1>a, <1>3, <1>4, <1>5, <1>6, PartAgrees
<1> QED
  BY <1>2, <1>6, <1>7 DEF NextItem

\* Others leave the getter where it is, and what it has heard on the stream.
LEMMA HearAside ==
    ASSUME Base, Base', NEW s \in Streams, HearAt(s), Aside(s)
    PROVE  HearAt(s)'
<1> SUFFICES ASSUME gpc'[s] \in Hearing PROVE KnownAt(s)' /\ FollowsAt(s)'
  BY DEF HearAt
<1>1. /\ UNCHANGED <<gpc[s], total[s], hdr[s], pos[s], got[s], up[s], downRd[s]>>
      /\ Part(down[s], down'[s]) /\ (FilesIntact' => FilesIntact) /\ (Announced(s) => Announced(s)')
  BY DEF Aside, Same, StreamAside
<1>2. KnownAt(s) /\ FollowsAt(s) /\ gpc[s] \in Hearing
  BY <1>1 DEF HearAt
<1>3. KnownAt(s)'
  BY <1>1, <1>2 DEF KnownAt, Name
<1>4. /\ Clean(s)' => Clean(s)
      /\ RightHeader(s)' = RightHeader(s) /\ Heard(s)' = Heard(s)
  <2>1. Clean(s)' => Clean(s)
    BY <1>1 DEF Clean, Servable
  <2>2. RightHeader(s)' = RightHeader(s) /\ Heard(s)' = Heard(s)
    BY <1>1 DEF RightHeader, Heard, Past, ListOf, Current
  <2> QED
    BY <2>1, <2>2
<1>a. /\ TypeOK /\ down[s] \in Seq(Items) /\ down'[s] \in Seq(Items) /\ ProgressAt(s) /\ BudgetAt(s)
  BY DEF Base, TypeOK, QuicTypeOK, BlobProgress, Budget
<1>5. ASSUME Aligned(s), RightHeader(s) PROVE Aligned(s)'
  <2>1. Heard(s) \in Seq(Items)
    BY <1>a, <1>2, <1>5, HeardType DEF KnownAt, FollowsAt
  <2>2. Part(Heard(s), down'[s])
    BY <1>1, <1>5, <1>a, <2>1, PartTrans DEF Aligned
  <2> QED
    BY <1>1, <1>4, <1>5, <2>2 DEF Aligned
<1>6. FollowsAt(s)'
  BY <1>1, <1>2, <1>4, <1>5 DEF FollowsAt
<1> QED
  BY <1>3, <1>6

\* What a turn adds to what the getter has heard, as long as the header of
\* the blob is right.
LEMMA HeardTurn ==
    ASSUME TypeOK, NEW s \in Streams, ProgressAt(s), BudgetAt(s), gpc[s] \in Hearing,
           Stored[Want[s]] = "collection", RightHeader(s), RightHeader(s)',
           gpc[s] = "coll" => pos[s] <= Segments[Want[s]],
           Turns(s), ~TurnPassed(s)
    PROVE  \/ Heard(s)' = Heard(s) /\ UNCHANGED downRd
           \/ \E it \in Items : Takes(s, it) /\ Heard(s)' = Heard(s) \o <<it>>
<1> DEFINE h == Want[s]
           n == Len(got[s])
           X == (Leading(h) \o BlobStreams(Blobs[h])[n]) \o <<Found>>
           E == Enc(Blobs[h][n + 1])
<1>a. /\ h \in Collections /\ h \in Hash /\ ListOf(s) = Blobs[h] /\ n \in 0..Len(Blobs[h])
      /\ gpc[s] \in InBlobs =>
           /\ n < Len(Blobs[h]) /\ Current(s) = Blobs[h][n + 1]
           /\ Current(s) \in Hash /\ Segments[Current(s)] \in Nat
      /\ gpc[s] \in {"coll", "oncollection"} => n = 0
      /\ pos[s] \in Nat /\ Segments[h] \in Nat /\ got[s] \in Seq(Nat) /\ n \in Nat
  BY WithinList DEF TypeOK, GetterTypeOK
<1>b. Past(s) = Leading(h) \o BlobStreams(Blobs[h])[n] /\ Past(s) \in Seq(Items)
  BY <1>a, AnswerFacts DEF Past
<1>c. ASSUME UNCHANGED got[s] PROVE Past(s)' = Past(s) /\ Current(s)' = Current(s)
  BY <1>c DEF Past, ListOf, Current
<1>1. CASE TurnItem(s) \/ TurnCollection(s)
  <2> DEFINE e == Enc(h)
             p == SubSeq(e, 1, pos[s])
             x == e[pos[s] + 1]
  <2>1. gpc[s] = "coll" /\ Takes(s, x) /\ UNCHANGED got[s]
    BY <1>1 DEF TurnItem, TurnCollection
  <2>2. pos[s] \in 0..Segments[h] /\ pos[s] + 1 \in 1..(Segments[h] + 1)
    BY <1>a, <2>1
  <2>3. Opening(h) \in Seq(Items) /\ p \in Seq(Items) /\ x \in Items
        /\ p \o <<x>> = SubSeq(e, 1, pos[s] + 1)
    BY <1>a, <2>2, EncFacts, ItemFacts, AnswerFacts
  <2>4. Heard(s) = Opening(h) \o p
    BY <2>1 DEF Heard
  <2>5. (Opening(h) \o p) \o <<x>> = Opening(h) \o SubSeq(e, 1, pos[s] + 1)
    <3>1. <<x>> \in Seq(Items)
      BY <2>3
    <3> HIDE DEF p, x, e, h
    <3>2. (Opening(h) \o p) \o <<x>> = Opening(h) \o (p \o <<x>>)
      BY <2>3, <3>1, ItemsAssoc
    <3> QED
      BY <2>3, <3>2
  <2>6. Heard(s)' = Opening(h) \o SubSeq(e, 1, pos[s] + 1)
    <3>1. CASE TurnItem(s)
      BY <3>1 DEF TurnItem, Heard
    <3>2. CASE TurnCollection(s)
      <4>1. gpc'[s] = "oncollection" /\ pos[s] = Segments[h] /\ n = 0
        BY <1>a, <2>1, <3>2 DEF TurnCollection
      <4>2. Heard(s)' = Past(s)
        BY <1>c, <2>1, <4>1 DEF Heard
      <4>3. Past(s) = Leading(h)
        BY <1>a, <1>b, <4>1, AnswerFacts
      <4>4. SubSeq(e, 1, pos[s] + 1) = e
        BY <1>a, <2>2, <4>1, EncFacts
      <4> QED
        BY <4>2, <4>3, <4>4 DEF Leading
    <3> QED
      BY <1>1, <3>1, <3>2
  <2> QED
    BY <2>1, <2>3, <2>4, <2>5, <2>6
<1>2. CASE TurnLoop(s)
  <2>1. Heard(s) = Past(s) /\ Heard(s)' = Past(s)' /\ UNCHANGED <<downRd, got[s]>>
    BY <1>2 DEF TurnLoop, Heard
  <2> QED
    BY <1>c, <2>1
<1>3. CASE TurnFound(s)
  <2>1. Heard(s) = Past(s) /\ Heard(s)' = Past(s)' \o <<Found>> /\ UNCHANGED got[s] /\ Takes(s, Found)
    BY <1>3 DEF TurnFound, Heard
  <2> QED
    BY <1>c, <2>1, ItemFacts
<1>4. CASE TurnSize(s)
  <2>1. PICK m \in Nat : Takes(s, Size(m)) /\ hdr'[s] = m
    BY <1>4 DEF TurnSize
  <2>2. gpc[s] = "size" /\ gpc'[s] = "onblob" /\ pos'[s] = 0 /\ UNCHANGED got[s]
    BY <1>4 DEF TurnSize
  <2>3. m = Segments[Current(s)]
    BY <1>c, <2>1, <2>2 DEF RightHeader
  <2>4. /\ Current(s) \in Hash /\ Current(s) = Blobs[h][n + 1] /\ n < Len(Blobs[h])
        /\ 0 \in 0..Segments[Blobs[h][n + 1]] /\ 0 + 1 = 1
    BY <1>a, <2>2 DEF InBlobs
  <2>5. E[1] = Size(m)
    BY <2>3, <2>4, EncItems
  <2>6. X \o SubSeq(E, 1, 0) = X
    BY <1>a, <2>4, NextBlobFacts
  <2>7. E[0 + 1] \in Items /\ (X \o SubSeq(E, 1, 0)) \o <<E[0 + 1]>> = X \o SubSeq(E, 1, 0 + 1)
    BY <1>a, <2>4, NextItems
  <2>8. Heard(s) = X
    BY <1>b, <2>2 DEF Heard
  <2>9. Heard(s)' = X \o SubSeq(E, 1, 0 + 1)
    BY <1>b, <1>c, <2>2, <2>4 DEF Heard
  <2> HIDE DEF X, E, h, n
  <2>10. Size(m) \in Items /\ Heard(s)' = Heard(s) \o <<Size(m)>>
    BY <2>4, <2>5, <2>6, <2>7, <2>8, <2>9, Zenon
  <2> QED
    BY <2>1, <2>10
<1>5. CASE TurnSegment(s)
  <2> DEFINE k == pos[s] + 1
  <2>1. /\ gpc[s] = "onblob" /\ gpc'[s] = "onblob" /\ pos'[s] = pos[s] + 1 /\ UNCHANGED got[s]
        /\ Takes(s, Data(Current(s), pos[s] + 1)) /\ pos[s] < Segments[Current(s)]
    BY <1>5 DEF TurnSegment
  <2>2. /\ Current(s) \in Hash /\ Current(s) = Blobs[h][n + 1] /\ n < Len(Blobs[h])
        /\ k \in 0..Segments[Blobs[h][n + 1]] /\ pos[s] + 2 = k + 1
    BY <1>a, <2>1 DEF InBlobs
  <2>3. E[k + 1] = Data(Current(s), pos[s] + 1)
    BY <1>a, <2>1, <2>2, EncItems
  <2>4. E[k + 1] \in Items /\ (X \o SubSeq(E, 1, k)) \o <<E[k + 1]>> = X \o SubSeq(E, 1, k + 1)
    BY <1>a, <2>2, NextItems
  <2>5. Heard(s) = X \o SubSeq(E, 1, k)
    BY <1>b, <2>1, <2>2 DEF Heard
  <2>6. Heard(s)' = X \o SubSeq(E, 1, k + 1)
    BY <1>b, <1>c, <2>1, <2>2 DEF Heard
  <2> HIDE DEF X, E, h, n, k
  <2> QED
    BY <2>1, <2>3, <2>4, <2>5, <2>6
<1>6. CASE TurnCheck(s)
  <2>1. gpc[s] = "onblob" /\ gpc'[s] = "check" /\ UNCHANGED <<pos[s], got[s], downRd>>
    BY <1>6 DEF TurnCheck
  <2> QED
    BY <1>c, <2>1 DEF Heard
<1>7. CASE TurnNext(s)
  <2>1. /\ gpc[s] = "check" /\ gpc'[s] \in {"blobres", "end"} /\ pos[s] = Segments[Current(s)]
        /\ got'[s] = Append(got[s], pos[s]) /\ UNCHANGED downRd
    BY <1>7 DEF TurnNext, AtEndOfBlob
  <2>2. /\ Current(s) = Blobs[h][n + 1] /\ n < Len(Blobs[h])
        /\ 0 \in 0..Segments[Blobs[h][n + 1]]
    BY <1>a, <2>1 DEF InBlobs
  <2>3. Len(got'[s]) = n + 1
    BY <1>a, <2>1
  <2>4. X \o SubSeq(E, 1, Segments[Blobs[h][n + 1]] + 1) = Leading(h) \o BlobStreams(Blobs[h])[n + 1]
    BY <1>a, <2>2, NextBlobFacts
  <2>5. Heard(s) = X \o SubSeq(E, 1, Segments[Blobs[h][n + 1]] + 1)
    BY <1>b, <2>1, <2>2 DEF Heard
  <2>6. Heard(s)' = Leading(h) \o BlobStreams(Blobs[h])[n + 1]
    BY <1>a, <2>1, <2>3 DEF Heard, Past, ListOf
  <2> QED
    BY <2>1, <2>4, <2>5, <2>6
<1>8. ~TurnResponse(s)
  BY DEF TurnResponse, Hearing
<1> QED
  BY <1>1, <1>2, <1>3, <1>4, <1>5, <1>6, <1>7, <1>8 DEF Turns

\* A turn keeps the getter and the stream aligned.
LEMMA TurnAligned ==
    ASSUME TypeOK, NEW s \in Streams, Aligned(s), Heard(s) \in Seq(Items), UNCHANGED down,
           \/ Heard(s)' = Heard(s) /\ UNCHANGED downRd
           \/ \E it \in Items : Takes(s, it) /\ Heard(s)' = Heard(s) \o <<it>>
    PROVE  Aligned(s)'
<1>a. down[s] \in Seq(Items) /\ downRd \in [Streams -> Nat] /\ downRd[s] \in Nat
  BY DEF TypeOK, QuicTypeOK
<1>1. CASE Heard(s)' = Heard(s) /\ UNCHANGED downRd
  BY <1>1 DEF Aligned
<1>2. CASE \E it \in Items : Takes(s, it) /\ Heard(s)' = Heard(s) \o <<it>>
  <2>1. PICK it \in Items : Takes(s, it) /\ Heard(s)' = Heard(s) \o <<it>>
    BY <1>2
  <2>2. /\ it = down[s][downRd[s] + 1] /\ it # Fin /\ downRd[s] < Len(down[s])
        /\ downRd'[s] = downRd[s] + 1
    BY <1>a, <2>1 DEF Takes, ReadItem, NextItem, CanReadDown
  <2>3. downRd[s] = Len(Heard(s)) /\ Part(Heard(s), down[s])
    BY DEF Aligned
  <2>4. it = down[s][Len(Heard(s)) + 1] /\ Len(Heard(s)) < Len(down[s])
    BY <2>2, <2>3
  <2>5. Len(Heard(s) \o <<it>>) = Len(Heard(s)) + 1 /\ Part(Heard(s) \o <<it>>, down[s])
    BY <1>a, <2>3, <2>4, PartExtends
  <2> QED
    BY <2>1, <2>2, <2>3, <2>5 DEF Aligned
<1> QED
  BY <1>1, <1>2

\* A getter that goes on leaves what it has sent and the provider's part of
\* the stream alone.
LEMMA HearingKind ==
    ASSUME ReaderTypeOK, NEW s \in Streams, Acts(s), gpc'[s] \in Hearing
    PROVE  UNCHANGED <<up, down, cside, pside, acked, stopped>>
<1>a. gpc \in [Streams -> Steps \cup Outcomes]
  BY DEF ReaderTypeOK, GetterTypeOK
<1>1. ~Setup(s) /\ ~Leaves(s) /\ ~OpenBi(s) /\ ~SendHandshake(s) /\ ~SendRequest(s) /\ ~Finished(s)
  BY <1>a DEF Setup, Leaves, OpenBi, SendHandshake, SendRequest, Finished, To, Hearing, Outcomes
<1>2. ByGetter(s) /\ Proceeds(s)
  BY <1>1, GetterKinds DEF ByGetter
<1> QED
  BY <1>2 DEF ByGetter, Proceeds

\* The first item a getter takes announces the collection it wants.
LEMMA ResponseKnown ==
    ASSUME Base, NEW s \in Streams, TalkAt(s), TurnResponse(s)
    PROVE  /\ Announced(s) /\ Name(s) = Want[s] /\ Stored[Want[s]] = "collection"
           /\ Want[s] \in Collections /\ TotalBlobsSize[Want[s]] \in Nat
           /\ total'[s] = TotalBlobsSize[Want[s]] /\ rem'[s] = TotalBlobsSize[Want[s]]
           /\ downRd[s] = 0 /\ Takes(s, FoundCollection(TotalBlobsSize[Want[s]]))
<1>a. /\ TypeOK /\ ServeInv /\ ServerTypeOK /\ down[s] \in Seq(Items) /\ OpeningAt(s) /\ SpokenAt(s)
      /\ PlaceAt(s)
  BY DEF Base, TypeOK, ServerTypeOK, QuicTypeOK, ShapeInv, ShapeAt, TalkAt
<1>1. PICK it \in Items : /\ Takes(s, it) /\ it.t = "foundcollection" /\ total'[s] = it.n
                          /\ rem'[s] = it.n
  BY DEF TurnResponse
<1>2. downRd[s] = 0
  BY <1>a DEF TurnResponse, PlaceAt, Early
<1>3. it = down[s][1] /\ 1 \in 1..Len(down[s])
  <2>1. it = down[s][0 + 1] /\ 0 < Len(down[s]) /\ Len(down[s]) \in Nat
    BY <1>1, <1>2, <1>a DEF Takes, ReadItem, CanReadDown, NextItem
  <2> QED
    BY <2>1
<1>4. Announced(s) /\ Stored[Name(s)] = "collection" /\ it.n = TotalBlobsSize[Name(s)]
  BY <1>1, <1>3, <1>a DEF OpeningAt, Opens
<1>5. Asked(s)
  BY <1>4, <1>a, AnnouncedStates DEF Told
<1>6. Name(s) = Want[s]
  BY <1>5, <1>a, WantedName
<1>7. Want[s] \in Collections /\ TotalBlobsSize[Want[s]] \in Nat
  BY <1>4, <1>6, GetterAssumption, HashAssumption
<1>8. it = FoundCollection(it.n)
  BY <1>1, Goes
<1> QED
  BY <1>1, <1>2, <1>4, <1>6, <1>7, <1>8

\* What a blob that was not read to its end would mean: that on_blob returns
\* early from it, and that the provider sent something wrong.
LEMMA PassedNot ==
    ASSUME Base, NEW s \in Streams, HearAt(s), TurnPassed(s)
    PROVE  LazyBlobs # {} /\ ~Clean(s)
<1>a. TypeOK /\ ProgressAt(s) /\ gpc[s] = "check" /\ gpc[s] \in Hearing
  BY DEF Base, BlobProgress, TurnPassed, Hearing
<1>b. pos[s] \in Nat /\ hdr[s] \in Nat /\ Current(s) \in Hash /\ Segments[Current(s)] \in Nat
  BY <1>a, WithinList DEF HearAt, KnownAt, InBlobs
<1>1. LazyBlobs # {}
  BY <1>a DEF ProgressAt, TurnPassed
<1>2. ASSUME Clean(s) PROVE FALSE
  <2>1. hdr[s] = Segments[Current(s)]
    BY <1>2, <1>a DEF HearAt, FollowsAt, RightHeader
  <2>2. pos[s] < hdr[s] /\ CanReadDown(s) /\ ~Verifies(s, NextItem(s))
    BY <2>1 DEF TurnPassed, AtEndOfBlob
  <2>3. NextItem(s) = Awaited(s)
    BY <1>2, <1>a, <2>2, Awaits
  <2>4. Awaited(s) = Data(Current(s), pos[s] + 1)
    BY <1>a, <1>b, <2>1, <2>2, EncItems DEF Awaited
  <2> QED
    BY <2>1, <2>2, <2>3, <2>4 DEF Verifies
<1> QED
  BY <1>1, <1>2

\* Every step of the getter keeps it on the answer.
LEMMA HearGetter ==
    ASSUME Base, NEW s \in Streams, TalkAt(s), HearAt(s), Acts(s), UNCHANGED providerVars
    PROVE  HearAt(s)'
<1> SUFFICES ASSUME gpc'[s] \in Hearing PROVE KnownAt(s)' /\ FollowsAt(s)'
  BY DEF HearAt
<1>a. /\ TypeOK /\ ReaderTypeOK /\ ProgressAt(s) /\ BudgetAt(s) /\ down[s] \in Seq(Items)
      /\ pos[s] \in Nat /\ hdr[s] \in Nat
  BY DEF Base, TypeOK, ReaderTypeOK, QuicTypeOK, GetterTypeOK, BlobProgress, Budget
<1>b. UNCHANGED <<up, down, log, file>>
  BY <1>a, HearingKind DEF providerVars
<1>c. gpc[s] = "coll" => pos[s] <= Segments[Want[s]]
  BY DEF HearAt, FollowsAt, Hearing
<1>d. Turns(s)
  BY <1>a, <1>c, GetterTurns
<1>e. Clean(s)' = Clean(s) /\ Announced(s)' = Announced(s) /\ Name(s)' = Name(s)
  BY <1>b DEF Clean, FilesIntact, Announced, Name
<1>1. CASE TurnResponse(s)
  <2> DEFINE h == Want[s]
  <2>1. /\ Announced(s) /\ Name(s) = h /\ Stored[h] = "collection" /\ h \in Collections
        /\ total'[s] = TotalBlobsSize[h] /\ TotalBlobsSize[h] \in Nat /\ downRd[s] = 0
        /\ Takes(s, FoundCollection(TotalBlobsSize[h]))
    BY <1>1, ResponseKnown
  <2>2. KnownAt(s)'
    BY <1>e, <2>1 DEF KnownAt
  <2>3. gpc'[s] = "coll" /\ pos'[s] = 0
    BY <1>1 DEF TurnResponse
  <2>4. Segments[h] \in Nat /\ h \in Hash
    BY <2>1, HashAssumption
  <2>5. Heard(s)' = Opening(h)
    <3>1. Heard(s)' = Opening(h) \o SubSeq(Enc(h), 1, 0)
      BY <2>3 DEF Heard
    <3>2. SubSeq(Enc(h), 1, 0) = <<>> /\ Opening(h) \in Seq(Items)
      BY <2>1, <2>4, EncFacts, ItemFacts DEF Opening
    <3>3. Opening(h) \o <<>> = Opening(h)
      BY <3>2
    <3> QED
      BY <3>1, <3>2, <3>3
  <2>6. Aligned(s)'
    <3>1. /\ down[s][1] = FoundCollection(TotalBlobsSize[h]) /\ 0 < Len(down[s])
          /\ downRd'[s] = 1
      BY <1>a, <2>1 DEF Takes, ReadItem, NextItem, CanReadDown, TypeOK, QuicTypeOK
    <3>2. Part(<<>>, down[s]) /\ <<>> \in Seq(Items) /\ Len(<<>>) = 0
      BY <1>a, PartFacts
    <3>3. Part(<<>> \o <<down[s][1]>>, down[s])
      <4>1. Len(<<>>) < Len(down[s]) /\ Len(<<>>) + 1 = 1
        BY <3>1, <3>2
      <4>2. Part(<<>> \o <<down[s][Len(<<>>) + 1]>>, down[s])
        BY <1>a, <3>2, <4>1, PartExtends, Zenon
      <4> QED
        BY <4>1, <4>2, Zenon
    <3>4. <<>> \o <<down[s][1]>> = <<down[s][1]>>
      OBVIOUS
    <3>5. Part(Opening(h), down[s])
      BY <3>1, <3>3, <3>4 DEF Opening
    <3>6. Len(Opening(h)) = 1
      BY DEF Opening
    <3> QED
      BY <1>b, <2>5, <3>1, <3>5, <3>6 DEF Aligned
  <2>7. RightHeader(s)'
    BY <2>3 DEF RightHeader
  <2>8. FollowsAt(s)'
    BY <2>3, <2>4, <2>6, <2>7 DEF FollowsAt
  <2> QED
    BY <2>2, <2>8
<1>2. CASE ~TurnResponse(s)
  <2>1. gpc[s] \in Hearing
    BY <1>2, <1>d DEF Turns, Hearing, TurnItem, TurnCollection, TurnLoop, TurnFound, TurnSize,
       TurnSegment, TurnCheck, TurnNext, TurnPassed
  <2>2. KnownAt(s) /\ FollowsAt(s)
    BY <2>1 DEF HearAt
  <2>3. total'[s] = total[s]
    BY <1>2, <1>d DEF Turns, Keeps, TurnItem, TurnCollection, TurnLoop, TurnFound, TurnSize,
       TurnSegment, TurnCheck, TurnNext, TurnPassed
  <2>4. KnownAt(s)'
    BY <1>e, <2>2, <2>3 DEF KnownAt
  <2>5. gpc'[s] = "coll" => pos'[s] <= Segments[Want[s]]
    <3>1. CASE gpc'[s] = "coll"
      <4>1. TurnItem(s)
        BY <1>2, <1>d, <3>1 DEF Turns, TurnItem, TurnCollection, TurnLoop, TurnFound, TurnSize,
           TurnSegment, TurnCheck, TurnNext, TurnPassed
      <4>2. Segments[Want[s]] \in Nat
        BY GetterAssumption, HashAssumption
      <4> QED
        BY <1>a, <1>c, <4>1, <4>2 DEF TurnItem
    <3> QED
      BY <3>1
  <2>6. ASSUME Clean(s)' PROVE RightHeader(s)'
    <3>1. RightHeader(s)
      BY <1>e, <2>2, <2>6 DEF FollowsAt
    <3>2. CASE TurnSize(s)
      <4>1. PICK m \in Nat : Takes(s, Size(m)) /\ hdr'[s] = m
        BY <3>2 DEF TurnSize
      <4>2. gpc[s] = "size" /\ UNCHANGED got[s]
        BY <3>2 DEF TurnSize
      <4>3. NextItem(s) = Awaited(s)
        BY <1>e, <2>1, <2>6, <4>1, <4>2, Awaits DEF Takes, ReadItem
      <4>4. Awaited(s) = Size(Segments[Current(s)])
        <5>1. Current(s) \in Hash
          BY <1>a, <2>1, <2>2, <4>2, WithinList DEF KnownAt, InBlobs
        <5> QED
          BY <4>2, <5>1, EncItems DEF Awaited
      <4>5. m = Segments[Current(s)]
        BY <4>1, <4>3, <4>4 DEF Takes, Size
      <4> QED
        BY <4>1, <4>2, <4>5 DEF RightHeader, Current, ListOf
    <3>3. CASE TurnSegment(s) \/ TurnCheck(s)
      <4>1. UNCHANGED <<hdr[s], got[s]>> /\ gpc[s] = "onblob"
        BY <3>3 DEF TurnSegment, TurnCheck
      <4> QED
        BY <3>1, <4>1 DEF RightHeader, Current, ListOf
    <3>4. CASE ~(TurnSize(s) \/ TurnSegment(s) \/ TurnCheck(s))
      <4>1. gpc'[s] \notin {"onblob", "check"}
        BY <1>d, <3>4 DEF Turns, TurnResponse, TurnItem, TurnCollection, TurnLoop, TurnFound,
           TurnNext, TurnPassed
      <4> QED
        BY <4>1 DEF RightHeader
    <3> QED
      BY <3>2, <3>3, <3>4
  <2>7. ASSUME LazyBlobs = {} \/ Clean(s)', RightHeader(s)' PROVE Aligned(s)'
    <3>1. ~TurnPassed(s)
      BY <1>e, <2>7, PassedNot
    <3>2. RightHeader(s)
      <4>1. CASE TurnCheck(s)
        BY <2>7, <4>1 DEF TurnCheck, RightHeader, Current, ListOf
      <4>2. CASE TurnSegment(s) \/ TurnNext(s)
        BY <4>2 DEF TurnSegment, TurnNext, AtEndOfBlob, RightHeader
      <4>3. CASE ~(TurnCheck(s) \/ TurnSegment(s) \/ TurnNext(s))
        <5>1. gpc[s] \notin {"onblob", "check"}
          BY <1>d, <3>1, <4>3 DEF Turns, TurnResponse, TurnItem, TurnCollection, TurnLoop, TurnFound,
             TurnSize
        <5> QED
          BY <5>1 DEF RightHeader
      <4> QED
        BY <4>1, <4>2, <4>3
    <3>3. Aligned(s)
      BY <1>e, <2>2, <2>7, <3>2 DEF FollowsAt
    <3>4. Heard(s) \in Seq(Items)
      BY <1>a, <1>c, <2>1, <2>2, <3>2, HeardType DEF KnownAt
    <3>5. \/ Heard(s)' = Heard(s) /\ UNCHANGED downRd
          \/ \E it \in Items : Takes(s, it) /\ Heard(s)' = Heard(s) \o <<it>>
      BY <1>a, <1>c, <1>d, <2>1, <2>2, <2>7, <3>1, <3>2, HeardTurn DEF KnownAt
    <3> QED
      BY <1>a, <1>b, <3>3, <3>4, <3>5, TurnAligned
  <2>8. FollowsAt(s)'
    BY <2>5, <2>6, <2>7 DEF FollowsAt
  <2> QED
    BY <2>4, <2>8
<1> QED
  BY <1>1, <1>2

(***************************************************************************)
(* The sizes: what was announced, what the headers took from it and what   *)
(* was handed on.                                                          *)
(***************************************************************************)
\* The size of the content of the first n blobs of bs, for each n.
DataSums(bs) ==
    LET sum[n \in 0..Len(bs)] == IF n = 0 THEN 0 ELSE sum[n - 1] + Segments[bs[n]]
    IN  sum

\* The collections in the database announce the sum of the sizes of their
\* blobs, as create_collection computes it.
TotalsExact ==
    \A h \in Collections :
        Stored[h] = "collection" => TotalBlobsSize[h] = DataSums(Blobs[h])[Len(Blobs[h])]

\* The recursive definition has the function it describes.
LEMMA DataSumsUnfold ==
    ASSUME NEW bs \in Seq(Hash)
    PROVE  DataSums(bs) =
             [n \in 0..Len(bs) |-> IF n = 0 THEN 0 ELSE DataSums(bs)[n - 1] + Segments[bs[n]]]
<1> DEFINE P(f, m) == f = [n \in 0..m |-> IF n = 0 THEN 0 ELSE f[n - 1] + Segments[bs[n]]]
           T == {m \in Nat : \E f : P(f, m)}
<1>1. 0 \in T
  <2>1. P([n \in 0..0 |-> 0], 0)
    OBVIOUS
  <2> QED
    BY <2>1
<1>2. ASSUME NEW m \in Nat, m \in T PROVE m + 1 \in T
  <2>1. PICK f : P(f, m)
    BY <1>2
  <2> DEFINE e(x, n) == x + Segments[bs[n]]
             h == [n \in 0..(m + 1) |-> IF n <= m THEN f[n] ELSE e(f[m], n)]
  <2>2. f = [n \in 0..m |-> IF n = 0 THEN 0 ELSE e(f[n - 1], n)]
    BY <2>1
  <2> HIDE DEF e, P
  <2>3. \A n \in 0..m : f[n] = IF n = 0 THEN 0 ELSE e(f[n - 1], n)
    BY <2>2
  <2>4. /\ \A n \in 0..m : h[n] = f[n]
        /\ h[m + 1] = e(f[m], m + 1)
    <3>1. \A n \in 0..m : n \in 0..(m + 1) /\ n <= m
      OBVIOUS
    <3>2. m + 1 \in 0..(m + 1) /\ ~(m + 1 <= m)
      OBVIOUS
    <3> QED
      BY <3>1, <3>2, Zenon
  <2>5. h = [n \in 0..(m + 1) |-> h[n]]
    OBVIOUS
  <2> HIDE DEF h
  <2>6. ASSUME NEW n \in 0..(m + 1)
        PROVE  h[n] = IF n = 0 THEN 0 ELSE e(h[n - 1], n)
    <3>1. CASE n = 0
      BY <2>3, <2>4, <3>1
    <3>2. CASE n # 0 /\ n <= m
      <4>1. n \in 0..m /\ n - 1 \in 0..m
        BY <3>2
      <4> QED
        BY <2>3, <2>4, <3>2, <4>1
    <3>3. CASE n = m + 1
      <4>1. n - 1 = m /\ n # 0 /\ m \in 0..m
        BY <3>3
      <4> QED
        BY <2>4, <3>3, <4>1
    <3> QED
      BY <3>1, <3>2, <3>3
  <2>7. h = [n \in 0..(m + 1) |-> IF n = 0 THEN 0 ELSE e(h[n - 1], n)]
    BY <2>5, <2>6
  <2>8. P(h, m + 1)
    BY <2>7 DEF P, e
  <2>9. \E g : P(g, m + 1)
    BY <2>8, Zenon
  <2> QED
    BY <2>9
<1>3. Nat \subseteq T
  <2> HIDE DEF T
  <2> QED
    BY <1>1, <1>2, SetInduction
<1>4. Len(bs) \in T
  <2> HIDE DEF T
  <2> QED
    BY <1>3
<1>5. PICK f : P(f, Len(bs))
  BY <1>4
<1>6. P(DataSums(bs), Len(bs))
  BY <1>5 DEF DataSums
<1> QED
  BY <1>6

\* The sums grow by the size of each blob.
LEMMA DataSumFacts ==
    ASSUME NEW bs \in Seq(Hash)
    PROVE  /\ DataSums(bs)[0] = 0
           /\ \A n \in 0..Len(bs) : DataSums(bs)[n] \in Nat
           /\ \A n \in 0..Len(bs) : n < Len(bs) =>
                DataSums(bs)[n + 1] = DataSums(bs)[n] + Segments[bs[n + 1]]
           /\ \A n \in 0..Len(bs) : DataSums(bs)[n] <= DataSums(bs)[Len(bs)]
<1> DEFINE B == DataSums(bs)
           e(n) == Segments[bs[n]]
           N == Len(bs)
<1>0. N \in Nat /\ 0 \in 0..N
  OBVIOUS
<1>1. B = [n \in 0..N |-> IF n = 0 THEN 0 ELSE B[n - 1] + e(n)]
  BY DataSumsUnfold
<1>2. ASSUME NEW n \in 1..N PROVE e(n) \in Nat
  <2>1. bs[n] \in Hash
    BY <1>2
  <2> QED
    BY <2>1, HashAssumption
<1> HIDE DEF B, e
<1>3. B[0] = 0
  BY <1>0, <1>1
<1>4. ASSUME NEW n \in 0..N, n < N PROVE B[n + 1] = B[n] + e(n + 1)
  <2>1. n + 1 \in 0..N /\ n + 1 # 0 /\ (n + 1) - 1 = n
    BY <1>0, <1>4
  <2>2. B[n + 1] = IF n + 1 = 0 THEN 0 ELSE B[(n + 1) - 1] + e(n + 1)
    BY <1>1, <2>1
  <2> QED
    BY <2>1, <2>2, Zenon
<1> HIDE DEF N
<1>5. \A n \in 0..N : B[n] \in Nat
  <2> DEFINE T == {n \in Nat : n <= N => B[n] \in Nat}
  <2>1. 0 \in T
    BY <1>3
  <2>2. ASSUME NEW n \in Nat, n \in T PROVE n + 1 \in T
    <3>1. CASE n + 1 <= N
      <4>1. n \in 0..N /\ n < N /\ n + 1 \in 1..N
        BY <1>0, <3>1
      <4>2. B[n] \in Nat /\ e(n + 1) \in Nat
        BY <1>2, <2>2, <4>1
      <4>3. B[n + 1] \in Nat
        BY <1>4, <4>1, <4>2
      <4> QED
        BY <4>3
    <3> QED
      BY <3>1
  <2>3. Nat \subseteq T
    <3> HIDE DEF T
    <3> QED
      BY <2>1, <2>2, SetInduction
  <2> QED
    BY <1>0, <2>3
<1>6. \A n \in 0..N : B[n] <= B[N]
  <2> DEFINE T == {d \in Nat : d <= N => B[N - d] <= B[N]}
  <2>1. 0 \in T
    <3>1. B[N] \in Nat /\ N - 0 = N
      BY <1>0, <1>5
    <3>2. B[N - 0] <= B[N]
      BY <3>1
    <3> QED
      BY <3>2
  <2>2. ASSUME NEW d \in Nat, d \in T PROVE d + 1 \in T
    <3>1. CASE d + 1 <= N
      <4> DEFINE n == N - (d + 1)
      <4>1. n \in 0..N /\ n < N /\ n + 1 \in 1..N /\ n + 1 = N - d /\ n + 1 \in 0..N /\ N \in 0..N
        BY <1>0, <3>1
      <4>2. B[n + 1] <= B[N]
        <5>1. d <= N => B[N - d] <= B[N]
          BY <2>2
        <5>2. d <= N
          BY <1>0, <3>1
        <5> QED
          BY <4>1, <5>1, <5>2
      <4> HIDE DEF n
      <4>3. B[n] \in Nat /\ e(n + 1) \in Nat /\ B[N] \in Nat /\ B[n + 1] = B[n] + e(n + 1)
        BY <1>2, <1>4, <1>5, <4>1
      <4>4. B[n] <= B[N]
        BY <4>2, <4>3
      <4> QED
        BY <4>4 DEF n
    <3> QED
      BY <3>1
  <2>3. Nat \subseteq T
    <3> HIDE DEF T
    <3> QED
      BY <2>1, <2>2, SetInduction
  <2>4. ASSUME NEW n \in 0..N PROVE B[n] <= B[N]
    <3>1. N - n \in Nat /\ N - n <= N /\ N - (N - n) = n
      BY <1>0
    <3>2. N - n \in T
      BY <2>3, <3>1
    <3> QED
      BY <3>1, <3>2
  <2> QED
    BY <2>4
<1> QED
  BY <1>3, <1>4, <1>5, <1>6 DEF B, e, N


\* The content of the blobs the getter is past, and what it has been told
\* and handed of the current one.
Count(s) == DataSums(ListOf(s))[Len(got[s])]
Opened(s) == gpc[s] \in {"onblob", "check"}

\* What was handed on is the content of the blobs read so far, and what
\* remains of the announced size is what the rest of them takes.
CountAt(s) ==
    gpc[s] \in Hearing =>
      /\ LazyBlobs = {} => delivered[s] = Count(s) + (IF Opened(s) THEN pos[s] ELSE 0)
      /\ Clean(s) => (rem[s] + Count(s)) + (IF Opened(s) THEN hdr[s] ELSE 0) = total[s]

\* Others leave this alone.
LEMMA CountAside ==
    ASSUME NEW s \in Streams, CountAt(s), Aside(s)
    PROVE  CountAt(s)'
<1>1. /\ UNCHANGED <<gpc[s], total[s], rem[s], hdr[s], pos[s], got[s], delivered[s]>>
      /\ (FilesIntact' => FilesIntact)
  BY DEF Aside, Same, StreamAside
<1>2. Count(s)' = Count(s) /\ Opened(s)' = Opened(s)
  BY <1>1 DEF Count, ListOf, Opened
<1>3. Clean(s)' => Clean(s)
  BY <1>1 DEF Clean, Servable
<1> QED
  BY <1>1, <1>2, <1>3 DEF CountAt

\* How the content of the blobs the getter is past changes with a turn.
LEMMA CountTurn ==
    ASSUME Base, NEW s \in Streams, HearAt(s), gpc[s] \in Hearing, Turns(s), ~TurnPassed(s)
    PROVE  /\ Count(s) \in Nat /\ Count(s)' \in Nat
           /\ TurnNext(s) => Count(s)' = Count(s) + pos[s] /\ hdr[s] = pos[s]
           /\ ~TurnNext(s) => Count(s)' = Count(s)
<1> DEFINE L == ListOf(s)
           n == Len(got[s])
           B == DataSums(L)
<1>a. TypeOK /\ ProgressAt(s) /\ Stored[Want[s]] = "collection" /\ got[s] \in Seq(Nat)
  BY DEF Base, BlobProgress, HearAt, KnownAt, TypeOK, GetterTypeOK
<1>b. L \in Seq(Hash) /\ n \in 0..Len(L) /\ pos[s] \in Nat
  BY <1>a, WithinList
<1>c. Count(s) \in Nat /\ Count(s) = B[n]
  BY <1>b, DataSumFacts DEF Count
<1>1. CASE TurnNext(s)
  <2>1. gpc[s] = "check" /\ got'[s] = Append(got[s], pos[s]) /\ pos[s] = hdr[s] /\ hdr[s] = Segments[Current(s)]
    BY <1>1 DEF TurnNext, AtEndOfBlob
  <2>2. n < Len(L) /\ Current(s) = L[n + 1]
    BY <1>a, <2>1, WithinList DEF InBlobs, ListOf
  <2>3. Len(got'[s]) = n + 1
    BY <1>a, <1>b, <2>1
  <2>4. Count(s)' = B[n + 1]
    BY <2>3 DEF Count, ListOf
  <2>5. B[n + 1] = B[n] + Segments[L[n + 1]]
    BY <1>b, <2>2, DataSumFacts
  <2>6. Count(s)' = Count(s) + pos[s]
    <3> HIDE DEF B, n, L
    <3> QED
      BY <1>c, <2>1, <2>2, <2>4, <2>5, Zenon
  <2> QED
    BY <1>1, <1>b, <1>c, <2>1, <2>6
<1>2. CASE ~TurnNext(s)
  <2>0. ~TurnResponse(s)
    BY DEF TurnResponse, Hearing
  <2>1. UNCHANGED got[s]
    BY <1>2, <2>0 DEF Turns, TurnItem, TurnCollection, TurnLoop, TurnFound, TurnSize, TurnSegment, TurnCheck
  <2>2. Count(s)' = Count(s)
    BY <2>1 DEF Count, ListOf
  <2> QED
    BY <1>2, <1>c, <2>2
<1> QED
  BY <1>1, <1>2

\* Every step of the getter keeps the count.
LEMMA CountGetter ==
    ASSUME Base, NEW s \in Streams, TalkAt(s), HearAt(s), CountAt(s), Acts(s),
           UNCHANGED providerVars
    PROVE  CountAt(s)'
<1> SUFFICES ASSUME gpc'[s] \in Hearing
             PROVE  /\ LazyBlobs = {} =>
                         delivered'[s] = Count(s)' + (IF Opened(s)' THEN pos'[s] ELSE 0)
                    /\ Clean(s)' =>
                         (rem'[s] + Count(s)') + (IF Opened(s)' THEN hdr'[s] ELSE 0) = total'[s]
  BY DEF CountAt
<1>a. /\ TypeOK /\ ReaderTypeOK /\ ProgressAt(s) /\ BudgetAt(s)
      /\ pos[s] \in Nat /\ hdr[s] \in Nat /\ rem[s] \in Nat /\ total[s] \in Nat /\ delivered[s] \in Nat
  BY DEF Base, TypeOK, ReaderTypeOK, GetterTypeOK, BlobProgress, Budget
<1>b. UNCHANGED <<up, down, log, file>>
  BY <1>a, HearingKind DEF providerVars
<1>c. gpc[s] = "coll" => pos[s] <= Segments[Want[s]]
  BY DEF HearAt, FollowsAt, Hearing
<1>d. Turns(s)
  BY <1>a, <1>c, GetterTurns
<1>e. Clean(s)' = Clean(s)
  BY <1>b DEF Clean, FilesIntact
<1>1. CASE TurnResponse(s)
  <2>1. Want[s] \in Collections /\ TotalBlobsSize[Want[s]] \in Nat /\ total'[s] = TotalBlobsSize[Want[s]]
        /\ rem'[s] = TotalBlobsSize[Want[s]]
    BY <1>1, ResponseKnown
  <2>2. gpc[s] = "response" /\ gpc'[s] = "coll" /\ UNCHANGED <<got[s], delivered[s]>>
    BY <1>1 DEF TurnResponse
  <2>3. delivered[s] = 0 /\ got[s] = <<>>
    BY <1>a, <2>2 DEF BudgetAt, ProgressAt, BeforeBlobs
  <2>4. Count(s)' = 0
    <3>1. ListOf(s) \in Seq(Hash)
      BY <2>1, HashAssumption DEF ListOf
    <3>2. Len(got'[s]) = 0
      BY <2>2, <2>3
    <3>3. DataSums(ListOf(s))[0] = 0
      BY <3>1, DataSumFacts
    <3> QED
      BY <3>2, <3>3 DEF Count, ListOf
  <2>5. ~Opened(s)'
    BY <2>2 DEF Opened
  <2> QED
    BY <2>1, <2>2, <2>3, <2>4, <2>5
<1>2. CASE TurnPassed(s)
  <2>1. LazyBlobs # {} /\ ~Clean(s)
    BY <1>2, PassedNot
  <2> QED
    BY <1>e, <2>1
<1>3. CASE ~TurnResponse(s) /\ ~TurnPassed(s)
  <2>1. gpc[s] \in Hearing
    BY <1>3, <1>d DEF Turns, Hearing, TurnItem, TurnCollection, TurnLoop, TurnFound, TurnSize,
       TurnSegment, TurnCheck, TurnNext
  <2>2. /\ Count(s) \in Nat /\ Count(s)' \in Nat
        /\ TurnNext(s) => Count(s)' = Count(s) + pos[s] /\ hdr[s] = pos[s]
        /\ ~TurnNext(s) => Count(s)' = Count(s)
    BY <1>3, <1>d, <2>1, CountTurn
  <2>3. /\ LazyBlobs = {} => delivered[s] = Count(s) + (IF Opened(s) THEN pos[s] ELSE 0)
        /\ Clean(s) => (rem[s] + Count(s)) + (IF Opened(s) THEN hdr[s] ELSE 0) = total[s]
    BY <2>1 DEF CountAt
  <2> DEFINE C == Count(s)
             D == Count(s)'
             K == Clean(s)
             Q == Clean(s)'
  <2>4. /\ C \in Nat /\ D \in Nat /\ (TurnNext(s) => D = C + pos[s] /\ hdr[s] = pos[s])
        /\ (~TurnNext(s) => D = C) /\ Q = K
    BY <1>e, <2>2
  <2>5. /\ LazyBlobs = {} => delivered[s] = C + (IF Opened(s) THEN pos[s] ELSE 0)
        /\ K => (rem[s] + C) + (IF Opened(s) THEN hdr[s] ELSE 0) = total[s]
    BY <2>3
  <2> HIDE DEF C, D, K, Q
  <2>6. /\ LazyBlobs = {} => delivered'[s] = D + (IF Opened(s)' THEN pos'[s] ELSE 0)
        /\ Q => (rem'[s] + D) + (IF Opened(s)' THEN hdr'[s] ELSE 0) = total'[s]
    <3>1. CASE TurnItem(s) \/ TurnCollection(s) \/ TurnLoop(s) \/ TurnFound(s)
      <4>1. ~Opened(s) /\ ~Opened(s)' /\ ~TurnNext(s) /\ UNCHANGED <<total[s], rem[s], delivered[s]>>
        BY <3>1 DEF TurnItem, TurnCollection, TurnLoop, TurnFound, Opened, Keeps, TurnNext
      <4> QED
        BY <2>4, <2>5, <4>1
    <3>2. CASE TurnSize(s)
      <4>1. PICK m \in Nat : m <= rem[s] /\ hdr'[s] = m /\ rem'[s] = rem[s] - m
        BY <3>2 DEF TurnSize
      <4>2. ~Opened(s) /\ Opened(s)' /\ ~TurnNext(s) /\ UNCHANGED <<total[s], delivered[s]>> /\ pos'[s] = 0
        BY <3>2 DEF TurnSize, Opened, TurnNext
      <4> QED
        BY <1>a, <2>4, <2>5, <4>1, <4>2
    <3>3. CASE TurnSegment(s)
      <4>1. /\ Opened(s) /\ Opened(s)' /\ ~TurnNext(s) /\ UNCHANGED <<total[s], rem[s], hdr[s]>>
            /\ pos'[s] = pos[s] + 1 /\ delivered'[s] = delivered[s] + 1
        BY <3>3 DEF TurnSegment, Opened, TurnNext
      <4> QED
        BY <1>a, <2>4, <2>5, <4>1
    <3>4. CASE TurnCheck(s)
      <4>1. /\ Opened(s) /\ Opened(s)' /\ ~TurnNext(s)
            /\ UNCHANGED <<total[s], rem[s], hdr[s], delivered[s], pos[s]>>
        BY <3>4 DEF TurnCheck, Opened, Keeps, TurnNext
      <4> QED
        BY <2>4, <2>5, <4>1
    <3>5. CASE TurnNext(s)
      <4>1. /\ Opened(s) /\ ~Opened(s)' /\ UNCHANGED <<total[s], rem[s], delivered[s]>>
        BY <3>5 DEF TurnNext, Opened, Keeps
      <4> QED
        BY <1>a, <2>4, <2>5, <3>5, <4>1
    <3> QED
      BY <1>3, <1>d, <3>1, <3>2, <3>3, <3>4, <3>5 DEF Turns
  <2> QED
    BY <2>6 DEF D, Q
<1> QED
  BY <1>1, <1>2, <1>3

(***************************************************************************)
(* A getter that returned Ok.                                              *)
(***************************************************************************)
\* Only a read at the end of the stream makes a getter return Ok, and only a
\* send that fails makes it return that error.
LEMMA EndsOk ==
    ASSUME ReaderTypeOK, NEW s \in Streams, Acts(s), gpc'[s] \in {"ok", "nosend"}
    PROVE  (gpc'[s] = "ok" => ReadEnd(s)) /\ (gpc'[s] = "nosend" => SendFails(s))
<1> DEFINE Two == {"ok", "nosend"}
<1>a. gpc \in [Streams -> Steps \cup Outcomes]
  BY DEF ReaderTypeOK, GetterTypeOK
<1>b. ASSUME NEW pc, To(s, pc) PROVE pc = gpc'[s]
  BY <1>a, <1>b DEF To
<1>c. ASSUME NEW o, Exit(s, o) PROVE o = gpc'[s]
  BY <1>b, <1>c DEF Exit
<1>d. ASSUME NEW o, ExitReading(s, o) PROVE o = gpc'[s]
  BY <1>c, <1>d DEF ExitReading
<1>e. LoopHead(s, 0) \notin Two /\ LoopHead(s, Len(got[s]) + 1) \notin Two
  BY DEF LoopHead
<1>1. ~(SetupFails(s) \/ EmptyRefused(s) \/ ReadFails(s) \/ CallbackFails(s)
        \/ Cancel(s))
  BY <1>c DEF SetupFails, EmptyRefused, ReadFails, CallbackFails, Cancel
<1>2. ~(Setup(s) \/ OpenBi(s) \/ SendHandshake(s) \/ SendRequest(s) \/ Finished(s)
        \/ OnCollection(s) \/ OnBlobReturns(s) \/ CheckAtEnd(s) \/ CheckFails(s))
  BY <1>b, <1>e DEF Setup, OpenBi, SendHandshake, SendRequest, Finished, OnCollection,
     OnBlobReturns, CheckAtEnd, CheckFails, NextBlob
<1>3. ~ReadResponse(s) /\ ~ReadBlobResponse(s) /\ ~ReadSize(s)
  BY <1>b, <1>d DEF ReadResponse, ReadBlobResponse, ReadSize
<1>4. ~ReadCollection(s)
  <2> SUFFICES ASSUME ReadCollection(s) PROVE FALSE
    OBVIOUS
  <2>1. gpc[s] = "coll" /\ UNCHANGED gpc
    BY <1>b, <1>d DEF ReadCollection, At
  <2> QED
    BY <2>1
<1>5. ~ReadSegment(s)
  <2> SUFFICES ASSUME ReadSegment(s) PROVE FALSE
    OBVIOUS
  <2>1. gpc[s] = "onblob" /\ UNCHANGED gpc
    BY <1>d DEF ReadSegment, At
  <2> QED
    BY <2>1
<1>6. ~CheckReads(s)
  BY <1>b, <1>d, <1>e DEF CheckReads, NextBlob
<1>7. ReadEnd(s) => gpc'[s] = "ok"
  BY <1>c DEF ReadEnd
<1>8. SendFails(s) => gpc'[s] = "nosend"
  BY <1>c DEF SendFails
<1> QED
  BY <1>1, <1>2, <1>3, <1>4, <1>5, <1>6, <1>7, <1>8 DEF Acts, GetterStep

\* What goes on after p, within the length of p and one more, ended there.
LEMMA PartEnds ==
    ASSUME NEW p \in Seq(Items), NEW q \in Seq(Items), Part(p, q), Len(p) < Len(q),
           Bounded(q, Len(p \o <<Fin>>))
    PROVE  q = p \o <<Fin>>
<1> DEFINE u == p \o <<Fin>>
           n == Len(p)
           m == Len(q)
<1>1. Fin \in Items
  BY ItemFacts
<1>2. /\ u \in Seq(Items) /\ Len(u) = n + 1
      /\ \A i \in 1..(n + 1) : u[i] = IF i <= n THEN p[i] ELSE <<Fin>>[i - n]
  BY <1>1, ConcatProperties
<1>3. n \in Nat /\ m \in Nat /\ n < m /\ \A i \in 1..n : q[i] = p[i]
  BY PartItems
<1>4. m < n + 1 \/ (m = n + 1 /\ q[n + 1] = Fin)
  BY <1>2 DEF Bounded
<1>5. m = n + 1 /\ q[n + 1] = Fin
  <2> HIDE DEF n, m
  <2> QED
    BY <1>3, <1>4
<1>6. ASSUME NEW i \in 1..(n + 1) PROVE u[i] = q[i]
  <2>1. u[i] = IF i <= n THEN p[i] ELSE <<Fin>>[i - n]
    BY <1>2
  <2>2. CASE i <= n
    <3>1. i \in 1..n
      BY <1>3, <2>2
    <3> QED
      BY <1>3, <2>1, <2>2, <3>1, Zenon
  <2>3. CASE i = n + 1
    <3>1. i - n = 1 /\ ~(i <= n)
      BY <1>3, <2>3
    <3>2. u[i] = <<Fin>>[1]
      BY <2>1, <3>1, Zenon
    <3> QED
      BY <1>5, <2>3, <3>2
  <2> QED
    BY <1>3, <2>2, <2>3
<1>7. Len(u) = Len(q)
  BY <1>2, <1>5
<1> QED
  BY <1>2, <1>5, <1>6, <1>7, SeqEqual

\* A getter that returned Ok, all of whose blobs were read to their ends,
\* was sent the answer, and handed on what was announced.
OkAt(s) ==
    gpc[s] = "ok" /\ LazyBlobs = {} =>
      /\ Name(s) = Want[s]
      /\ down[s] = Answer(Want[s])
      /\ TotalsExact => total[s] = delivered[s]

\* Nothing is sent to a getter that has returned.
LEMMA OkAside ==
    ASSUME NEW s \in Streams, TalkAt(s), OkAt(s), Aside(s)
    PROVE  OkAt(s)'
<1> SUFFICES ASSUME gpc'[s] = "ok", LazyBlobs = {}
             PROVE  /\ Name(s)' = Want[s] /\ down'[s] = Answer(Want[s])
                    /\ TotalsExact => total'[s] = delivered'[s]
  BY DEF OkAt, TotalsExact
<1>1. UNCHANGED <<gpc[s], total[s], delivered[s], up[s]>>
  BY DEF Aside, Same, StreamAside
<1>2. cside[ConnOf[s]] = "down"
  BY <1>1 DEF TalkAt, PlaceAt, Returned, Outcomes
<1>3. down'[s] = down[s]
  BY <1>2 DEF Aside, StreamAside
<1>4. Name(s)' = Name(s)
  BY <1>1 DEF Name
<1> QED
  BY <1>1, <1>3, <1>4 DEF OkAt

\* A getter that returns Ok has heard the whole answer.
LEMMA OkGetter ==
    ASSUME Base, NEW s \in Streams, HearAt(s), CountAt(s), Acts(s), UNCHANGED providerVars
    PROVE  OkAt(s)'
<1> SUFFICES ASSUME gpc'[s] = "ok", LazyBlobs = {}
             PROVE  /\ Name(s)' = Want[s] /\ down'[s] = Answer(Want[s])
                    /\ TotalsExact => total'[s] = delivered'[s]
  BY DEF OkAt, TotalsExact
<1> DEFINE h == Want[s]
           N == Len(Blobs[h])
           p == Leading(h) \o BlobStreams(Blobs[h])[N]
<1>a. /\ TypeOK /\ ReaderTypeOK /\ ProgressAt(s) /\ LengthAt(s) /\ down[s] \in Seq(Items)
      /\ downRd[s] \in Nat
  BY DEF Base, TypeOK, ReaderTypeOK, QuicTypeOK, BlobProgress, ShapeInv, ShapeAt
<1>1. ReadEnd(s)
  BY <1>a, EndsOk
<1>2. gpc[s] = "end" /\ CanReadDown(s) /\ UNCHANGED <<up, down, total, delivered>>
  BY <1>1 DEF ReadEnd, At, ReadItem, counts
<1>3. KnownAt(s) /\ FollowsAt(s)
  BY <1>2 DEF HearAt, Hearing
<1>4. h \in Collections /\ ListOf(s) = Blobs[h] /\ Len(got[s]) = N /\ Blobs[h] \in Seq(Hash)
  BY <1>a, <1>2, <1>3, WithinList DEF KnownAt, Hearing
<1>5. downRd[s] = Len(p) /\ Part(p, down[s])
  <2>1. RightHeader(s)
    BY <1>2 DEF RightHeader
  <2>2. Heard(s) = p
    BY <1>2, <1>4 DEF Heard, Past
  <2> QED
    BY <1>3, <2>1, <2>2 DEF FollowsAt, Aligned
<1>6. N \in 0..N /\ p \in Seq(Items) /\ Answer(h) = p \o <<Fin>>
  <2>1. N \in 0..N
    BY <1>4
  <2> QED
    BY <1>4, <2>1, AnswerFacts
<1>7. Bounded(down[s], Len(p \o <<Fin>>))
  <2>1. Bounded(down[s], Len(Answer(Name(s))))
    BY <1>a, <1>3 DEF KnownAt, LengthAt
  <2> QED
    BY <1>3, <1>6, <2>1 DEF KnownAt
<1>8. Len(p) < Len(down[s])
  BY <1>2, <1>5 DEF CanReadDown
<1>9. down[s] = Answer(h)
  <2> HIDE DEF p
  <2> QED
    BY <1>a, <1>5, <1>6, <1>7, <1>8, PartEnds
<1>10. Name(s)' = h
  BY <1>2, <1>3 DEF Name, KnownAt
<1>11. ASSUME TotalsExact PROVE total[s] = delivered[s]
  <2>1. ~Opened(s) /\ gpc[s] \in Hearing
    BY <1>2 DEF Opened, Hearing
  <2>2. Count(s) = DataSums(Blobs[h])[N]
    BY <1>4 DEF Count
  <2>3. Count(s) \in Nat
    BY <1>4, <1>6, <2>2, DataSumFacts
  <2>4. delivered[s] = Count(s) + 0
    BY <2>1 DEF CountAt
  <2>5. total[s] = Count(s)
    BY <1>3, <1>4, <1>11, <2>2 DEF KnownAt, TotalsExact
  <2> QED
    BY <2>3, <2>4, <2>5
<1> QED
  BY <1>2, <1>9, <1>10, <1>11

(***************************************************************************)
(* A getter that failed, though the provider can serve what it wants.      *)
(***************************************************************************)
Bad == {"lost", "invalid", "notfound", "panicked"}

\* No collection in the database is larger than a getter accepts.
TotalsFit ==
    \A h \in Collections : Stored[h] = "collection" => TotalBlobsSize[h] <= MAX_DATA_SIZE

\* The connection is gone before the answer was acknowledged, or the getter
\* could not even ask, or its request was dropped before it was announced.
Lost(s) ==
    \/ cside[ConnOf[s]] = "down" /\ ("down" \notin acked[s] \/ up[s] = <<>>)
    \/ Over(s) /\ ~Announced(s)

\* Some steps never make a getter fail in one of these ways.
LEMMA BadSteps ==
    ASSUME ReaderTypeOK, NEW s \in Streams, Acts(s), gpc'[s] \in Bad
    PROVE  \/ SetupFails(s) \/ EmptyRefused(s) \/ ReadFails(s) \/ ReadResponse(s)
           \/ ReadCollection(s) \/ ReadBlobResponse(s) \/ ReadSize(s) \/ ReadSegment(s)
<1>a. gpc \in [Streams -> Steps \cup Outcomes]
  BY DEF ReaderTypeOK, GetterTypeOK
<1>b. ASSUME NEW pc, To(s, pc) PROVE pc \in Bad
  BY <1>a, <1>b DEF To
<1>c. ASSUME NEW o, Exit(s, o) PROVE o \in Bad
  BY <1>b, <1>c DEF Exit
<1>d. ASSUME NEW o, ExitReading(s, o) PROVE o \in Bad
  BY <1>c, <1>d DEF ExitReading
<1>e. LoopHead(s, 0) \notin Bad /\ LoopHead(s, Len(got[s]) + 1) \notin Bad
  BY DEF LoopHead, Bad
<1>1. ~(SendFails(s) \/ CallbackFails(s) \/ Cancel(s) \/ ReadEnd(s))
  BY <1>c DEF SendFails, CallbackFails, Cancel, ReadEnd, Bad
<1>2. ~(Setup(s) \/ OpenBi(s) \/ SendHandshake(s) \/ SendRequest(s) \/ Finished(s)
        \/ OnBlobReturns(s))
  BY <1>b DEF Setup, OpenBi, SendHandshake, SendRequest, Finished, OnBlobReturns, Bad
<1>3. ~(OnCollection(s) \/ CheckAtEnd(s) \/ CheckFails(s))
  BY <1>b, <1>e DEF OnCollection, CheckAtEnd, CheckFails, NextBlob
<1>4. ~CheckReads(s)
  <2> SUFFICES ASSUME CheckReads(s) PROVE FALSE
    OBVIOUS
  <2>1. ExitReading(s, "callback") \/ NextBlob(s)
    BY DEF CheckReads
  <2>2. "callback" \notin Bad
    BY DEF Bad
  <2> QED
    BY <1>b, <1>d, <1>e, <2>1, <2>2 DEF NextBlob
<1> QED
  BY <1>1, <1>2, <1>3, <1>4 DEF Acts, GetterStep

\* The response to a request that can be served announces the collection, or
\* the stream ended before.
LEMMA ResponseLost ==
    ASSUME Base, TotalsFit, NEW s \in Streams, TalkAt(s), Clean(s), ReadResponse(s), gpc'[s] \in Bad
    PROVE  gpc'[s] = "lost" /\ Over(s) /\ ~Announced(s)
<1> DEFINE h == Want[s]
           it == NextItem(s)
<1>a. /\ TypeOK /\ ServeInv /\ ServerTypeOK /\ down[s] \in Seq(Items) /\ PlaceAt(s) /\ SpokenAt(s)
      /\ EndAt(s) /\ PartAt(s) /\ QuietAt(s) /\ hs[s] \in HandlerStates
      /\ gpc \in [Streams -> Steps \cup Outcomes]
  BY DEF Base, TypeOK, ServerTypeOK, ProviderTypeOK, QuicTypeOK, GetterTypeOK, OrderInv, OrderAt,
     ShapeInv, ShapeAt, TalkAt
<1>b. Told(s)
  BY <1>a, AnnouncedStates
<1>1. downRd[s] = 0 /\ CanReadDown(s)
  BY <1>a DEF ReadResponse, At, ReadItem, PlaceAt, Early
<1>2. it = down[s][1] /\ 1 \in 1..Len(down[s])
  <2>1. it = down[s][0 + 1] /\ 0 < Len(down[s]) /\ Len(down[s]) \in Nat
    BY <1>1, <1>a DEF CanReadDown, NextItem
  <2> QED
    BY <2>1
<1>c. ASSUME NEW pc, To(s, pc) PROVE gpc'[s] = pc
  BY <1>a, <1>c DEF To
<1>d. ASSUME NEW o, ExitReading(s, o) PROVE gpc'[s] = o
  BY <1>c, <1>d DEF ExitReading, Exit
<1>3. CASE Announced(s)
  <2>1. Name(s) = h
    BY <1>a, <1>b, <1>3, WantedName DEF Told
  <2>2. Part(down[s], Answer(h))
    BY <1>a, <1>3, <2>1 DEF PartAt, Clean
  <2>3. h \in Collections /\ h \in Hash /\ TotalBlobsSize[h] \in Nat /\ Blobs[h] \in Seq(Hash)
        /\ TotalBlobsSize[h] <= MAX_DATA_SIZE /\ Stored[h] = "collection"
    <3>1. Stored[h] = "collection" /\ h \in Hash
      BY GetterAssumption DEF Clean, Servable
    <3>2. h \in Collections
      BY <3>1, HashAssumption
    <3> QED
      BY <3>1, <3>2, HashAssumption DEF TotalsFit
  <2>4. Answer(h) \in Seq(Items) /\ Opening(h) \in Seq(Items) /\ Part(Opening(h), Answer(h))
    <3>1. 0 \in 0..Len(Blobs[h])
      BY <2>3
    <3> QED
      BY <2>3, <3>1, AnswerFacts
  <2>5. Answer(h)[1] = down[s][1]
    BY <1>a, <1>2, <2>2, <2>4, PartItems
  <2>6. Len(Opening(h)) = 1 /\ Opening(h)[1] = FoundCollection(TotalBlobsSize[h])
    BY DEF Opening
  <2>7. Answer(h)[1] = FoundCollection(TotalBlobsSize[h])
    <3>1. 1 \in 1..Len(Opening(h))
      BY <2>6
    <3>2. Answer(h)[1] = Opening(h)[1]
      BY <2>4, <3>1, PartItems
    <3> QED
      BY <2>6, <3>2
  <2>8. it = FoundCollection(TotalBlobsSize[h])
    BY <1>2, <2>5, <2>7
  <2>9. it.t = "foundcollection" /\ it.n = TotalBlobsSize[h] /\ it # Fin /\ it # Found /\ it # NotFound
        /\ ~Garbage(it)
    <3>1. it.t = "foundcollection" /\ it.n = TotalBlobsSize[h]
      BY <2>8 DEF FoundCollection
    <3>2. it # Fin /\ it # Found /\ it # NotFound /\ ~Garbage(it)
      BY <3>1 DEF Fin, Found, NotFound, Garbage
    <3> QED
      BY <3>1, <3>2
  <2>10. MAX_DATA_SIZE \in Nat
    BY SizeAssumption
  <2>11. ~(it.n > MAX_DATA_SIZE)
    BY <2>3, <2>9, <2>10
  <2>12. To(s, "coll")
    BY <2>9, <2>11 DEF ReadResponse
  <2> QED
    BY <1>c, <2>12 DEF Bad
<1>4. CASE ~Announced(s)
  <2>1. it = Fin
    BY <1>a, <1>2, <1>4 DEF QuietAt
  <2>2. it.t = "fin" /\ it # Found /\ it # NotFound /\ ~Garbage(it)
    BY <2>1 DEF Fin, Found, NotFound, Garbage
  <2>3. ExitReading(s, "lost")
    BY <2>1, <2>2 DEF ReadResponse
  <2>4. hs[s] \notin Unended
    BY <1>a, <1>2, <2>1 DEF EndAt
  <2>5. hs[s] \notin Serving \cup Refusing
    BY <1>b, <1>4 DEF Told
  <2>6. Over(s)
    BY <1>a, <2>4, <2>5 DEF Over, HandlerStates, Reading, Writing, Awaiting, Unended, Unsent, Sending,
       Serving, Refusing
  <2> QED
    BY <1>4, <1>d, <2>3, <2>6
<1> QED
  BY <1>3, <1>4

\* The size of the current blob fits what remains of the announced size.
LEMMA SizeFits ==
    ASSUME Base, TotalsExact, NEW s \in Streams, HearAt(s), CountAt(s), Clean(s), gpc[s] = "size"
    PROVE  /\ Segments[Current(s)] <= rem[s] /\ Segments[Current(s)] <= MAX_DATA_SIZE
           /\ Current(s) \in Hash /\ Segments[Current(s)] \in Nat
<1> DEFINE h == Want[s]
           L == Blobs[h]
           n == Len(got[s])
           B == DataSums(L)
           x == Segments[Current(s)]
<1>a. /\ TypeOK /\ ProgressAt(s) /\ BudgetAt(s) /\ rem[s] \in Nat /\ total[s] \in Nat
      /\ gpc[s] \in Hearing /\ ~Opened(s)
  BY DEF Base, TypeOK, GetterTypeOK, BlobProgress, Budget, Hearing, Opened
<1>b. KnownAt(s)
  BY <1>a DEF HearAt
<1>c. /\ h \in Collections /\ ListOf(s) = L /\ L \in Seq(Hash) /\ n \in 0..Len(L) /\ n < Len(L)
      /\ Current(s) = L[n + 1] /\ Current(s) \in Hash /\ x \in Nat
  BY <1>a, <1>b, WithinList DEF KnownAt, InBlobs
<1>d. n + 1 \in 0..Len(L)
  BY <1>c
<1>1. B[n] \in Nat /\ B[n + 1] = B[n] + x /\ B[n + 1] <= B[Len(L)]
  BY <1>c, <1>d, DataSumFacts
<1>2. total[s] = B[Len(L)]
  BY <1>b, <1>c DEF KnownAt, TotalsExact
<1>3. (rem[s] + B[n]) + 0 = total[s]
  BY <1>a, <1>c DEF CountAt, Count
<1>4. rem[s] <= total[s] /\ total[s] <= MAX_DATA_SIZE /\ MAX_DATA_SIZE \in Nat
  BY <1>a, SizeAssumption DEF BudgetAt
<1>5. x <= rem[s] /\ x <= MAX_DATA_SIZE
  <2> DEFINE b == B[n]
             c == B[n + 1]
             e == B[Len(L)]
  <2>1. b \in Nat /\ c = b + x /\ c <= e /\ total[s] = e /\ (rem[s] + b) + 0 = total[s]
    BY <1>1, <1>2, <1>3
  <2>2. x \in Nat
    BY <1>c
  <2> HIDE DEF x, b, c, e
  <2> QED
    BY <1>a, <1>4, <2>1, <2>2
<1> QED
  BY <1>c, <1>5

\* What can go wrong for a getter when the provider can serve what it wants.
LEMMA LostCause ==
    ASSUME Base, TotalsExact, TotalsFit, NEW s \in Streams, TalkAt(s), HearAt(s), CountAt(s),
           Clean(s), Acts(s), gpc'[s] \in Bad
    PROVE  gpc'[s] = "lost" /\ Lost(s)
<1>a. /\ TypeOK /\ ReaderTypeOK /\ ProgressAt(s) /\ gpc \in [Streams -> Steps \cup Outcomes]
      /\ SpokenAt(s)
  BY DEF Base, TypeOK, ReaderTypeOK, GetterTypeOK, BlobProgress, TalkAt
<1>c. ASSUME NEW pc, To(s, pc) PROVE gpc'[s] = pc /\ pc \in Bad
  BY <1>a, <1>c DEF To
<1>d. ASSUME NEW o, Exit(s, o) PROVE gpc'[s] = o
  BY <1>c, <1>d DEF Exit
<1>e. gpc[s] \in Hearing =>
        KnownAt(s) /\ FollowsAt(s) /\ RightHeader(s) /\ Stored[Want[s]] = "collection"
  BY DEF HearAt, FollowsAt, KnownAt
<1>1. CASE SetupFails(s)
  <2>1. gpc[s] = "connecting" /\ cside[ConnOf[s]] = "down" /\ Exit(s, "lost")
    BY <1>1 DEF SetupFails, At
  <2>2. up[s] = <<>>
    BY <1>a, <2>1 DEF SpokenAt, Connecting
  <2> QED
    BY <1>d, <2>1, <2>2 DEF Lost
<1>2. CASE ReadFails(s)
  <2>1. ReadDownFails(s) /\ Exit(s, "lost")
    BY <1>2 DEF ReadFails
  <2> QED
    BY <1>d, <2>1 DEF Lost, ReadDownFails
<1>3. CASE EmptyRefused(s)
  <2>1. gpc[s] = "onblob" /\ hdr[s] = 0 /\ Segments[Current(s)] # 0
    BY <1>3 DEF EmptyRefused, At
  <2> QED
    BY <1>e, <2>1 DEF Hearing, RightHeader
<1>4. CASE ReadResponse(s)
  BY <1>4, ResponseLost DEF Lost
<1>5. CASE ReadCollection(s)
  <2> DEFINE e == Enc(Want[s])[pos[s] + 1]
  <2>1. gpc[s] = "coll" /\ CanReadDown(s)
    BY <1>5 DEF ReadCollection, At, ReadItem
  <2>2. NextItem(s) = e
    BY <2>1, Awaits DEF Hearing, Awaited
  <2>3. Want[s] \in Collections /\ Want[s] \in Hash /\ Segments[Want[s]] \in Nat /\ pos[s] \in Nat
        /\ pos[s] <= Segments[Want[s]]
    BY <1>a, <1>e, <2>1, WithinList DEF Hearing, FollowsAt
  <2>4. e # Fin
    <3>1. pos[s] + 1 \in 1..(Segments[Want[s]] + 1)
      BY <2>3
    <3> QED
      BY <2>3, <3>1, NoFin
  <2>5. UNCHANGED gpc \/ To(s, "oncollection")
    BY <1>5, <2>2, <2>3, <2>4 DEF ReadCollection
  <2> QED
    BY <1>c, <2>1, <2>5 DEF Bad
<1>6. CASE ReadBlobResponse(s)
  <2>1. gpc[s] = "blobres" /\ CanReadDown(s)
    BY <1>6 DEF ReadBlobResponse, At, ReadItem
  <2>2. NextItem(s) = Found
    BY <2>1, Awaits DEF Hearing, Awaited
  <2>3. NextItem(s).t = "found" /\ NextItem(s) # NotFound /\ NextItem(s) # Fin /\ ~Garbage(NextItem(s))
    BY <2>2 DEF Found, NotFound, Fin, Garbage
  <2>4. To(s, "size")
    BY <1>6, <2>3 DEF ReadBlobResponse
  <2> QED
    BY <1>c, <2>4 DEF Bad
<1>7. CASE ReadSize(s)
  <2> DEFINE x == Segments[Current(s)]
             it == NextItem(s)
  <2>1. gpc[s] = "size" /\ CanReadDown(s)
    BY <1>7 DEF ReadSize, At, ReadItem
  <2>2. x <= rem[s] /\ x <= MAX_DATA_SIZE /\ Current(s) \in Hash /\ x \in Nat /\ rem[s] \in Nat
        /\ MAX_DATA_SIZE \in Nat
    BY <1>a, <2>1, SizeFits, SizeAssumption DEF TypeOK, GetterTypeOK
  <2>3. it = Size(x)
    <3>1. it = Enc(Current(s))[1]
      BY <2>1, Awaits DEF Hearing, Awaited
    <3> QED
      BY <2>2, <3>1, EncItems
  <2>4. it.t = "size" /\ it.n = x /\ it # Fin
    BY <2>3 DEF Size, Fin
  <2>5. ~(it.n > MAX_DATA_SIZE) /\ ~(it.n > rem[s])
    BY <2>2, <2>4
  <2>6. To(s, "onblob")
    BY <1>7, <2>4, <2>5 DEF ReadSize
  <2> QED
    BY <1>c, <2>6 DEF Bad
<1>8. CASE ReadSegment(s)
  <2>1. gpc[s] = "onblob" /\ CanReadDown(s) /\ pos[s] < hdr[s]
    BY <1>8 DEF ReadSegment, At, ReadItem
  <2>2. hdr[s] = Segments[Current(s)] /\ NextItem(s) = Enc(Current(s))[pos[s] + 2]
    BY <2>1, Awaits DEF Hearing, Awaited, RightHeader
  <2>3. Current(s) \in Hash /\ pos[s] \in Nat
    BY <1>a, <1>e, <2>1, WithinList DEF Hearing, InBlobs
  <2>4. NextItem(s) = Data(Current(s), pos[s] + 1)
    BY <2>1, <2>2, <2>3, EncItems
  <2>5. Verifies(s, NextItem(s)) /\ NextItem(s) # Fin
    BY <2>1, <2>2, <2>4, Goes DEF Verifies
  <2>6. UNCHANGED gpc
    BY <1>8, <2>5 DEF ReadSegment
  <2> QED
    BY <2>1, <2>6 DEF Bad
<1> QED
  BY <1>1, <1>2, <1>3, <1>4, <1>5, <1>6, <1>7, <1>8, <1>a, BadSteps

\* Why a getter failed that wants what the provider can serve.
DeliverAt(s) ==
    Clean(s) =>
      /\ gpc[s] \notin {"invalid", "notfound", "panicked"}
      /\ gpc[s] = "lost" => Lost(s)

\* This stays so, as nothing reaches a getter that has returned.
LEMMA DeliverAside ==
    ASSUME NEW s \in Streams, TalkAt(s), DeliverAt(s), Aside(s)
    PROVE  DeliverAt(s)'
<1>1. UNCHANGED <<gpc[s], up[s]>> /\ (FilesIntact' => FilesIntact)
  BY DEF Aside, Same, StreamAside
<1>2. Clean(s)' => Clean(s)
  BY <1>1 DEF Clean, Servable
<1>3. ASSUME gpc[s] = "lost", Lost(s) PROVE Lost(s)'
  <2>1. cside[ConnOf[s]] = "down"
    BY <1>3 DEF TalkAt, PlaceAt, Returned, Outcomes
  <2>2. cside'[ConnOf[s]] = "down" /\ acked'[s] = acked[s]
    BY <2>1 DEF Aside, LinkAside, StreamAside
  <2>3. Over(s) => UNCHANGED <<hs[s], log[s]>>
    BY DEF Aside, StreamAside
  <2>4. Over(s) /\ ~Announced(s) => Over(s)' /\ ~Announced(s)'
    BY <2>3 DEF Over, Announced
  <2> QED
    BY <1>1, <1>3, <2>2, <2>4 DEF Lost
<1> QED
  BY <1>1, <1>2, <1>3 DEF DeliverAt

\* Every step of the getter keeps it.
LEMMA DeliverGetter ==
    ASSUME Base, TotalsExact, TotalsFit, NEW s \in Streams, TalkAt(s), HearAt(s), CountAt(s),
           Acts(s), UNCHANGED providerVars
    PROVE  DeliverAt(s)'
<1>a. ReaderTypeOK /\ ConnOf[s] \in Conns /\ gpc \in [Streams -> Steps \cup Outcomes]
      /\ cside \in [Conns -> {"none", "connecting", "open", "down"}]
  BY QuicAssumption DEF Base, TypeOK, ReaderTypeOK, GetterTypeOK, QuicTypeOK
<1>1. Clean(s)' = Clean(s) /\ Over(s)' = Over(s) /\ Announced(s)' = Announced(s)
  BY DEF providerVars, Clean, FilesIntact, Over, Announced
<1>2. CASE gpc'[s] \notin Bad \/ ~Clean(s)
  BY <1>1, <1>2 DEF DeliverAt, Bad
<1>3. CASE gpc'[s] \in Bad /\ Clean(s)
  <2>1. gpc'[s] = "lost" /\ Lost(s)
    BY <1>3, LostCause
  <2>2. ~Setup(s) /\ ~Proceeds(s) /\ ~OpenBi(s) /\ ~SendHandshake(s) /\ ~SendRequest(s) /\ ~Finished(s)
    BY <1>a, <2>1 DEF Setup, Proceeds, OpenBi, SendHandshake, SendRequest, Finished, To, Hearing
  <2>3. ByGetter(s) /\ Leaves(s)
    BY <1>a, <2>2, GetterKinds DEF ByGetter
  <2>4. cside'[ConnOf[s]] = "down" /\ UNCHANGED <<acked, up>>
    BY <1>a, <2>3 DEF ByGetter, Leaves
  <2>5. Lost(s)'
    BY <1>1, <2>1, <2>4 DEF Lost
  <2> QED
    BY <2>1, <2>5 DEF DeliverAt
<1> QED
  BY <1>2, <1>3

(***************************************************************************)
(* A getter that had no reason to fail.                                    *)
(***************************************************************************)
NoCause(s) ==
    /\ ~Lossy /\ FilesIntact /\ ~cancelled /\ TokenOf[s] = AuthToken /\ Servable(Want[s])
    /\ pside[ConnOf[s]] # "refused"

\* As long as the network and the provider are up, and the getter does not
\* return, both ends of its connection stay up.
LiveAt(s) ==
    ~Lossy /\ ~cancelled /\ pside[ConnOf[s]] # "refused" /\ ~Returned(s)
      => cside[ConnOf[s]] # "down" /\ pside[ConnOf[s]] # "down"

\* Everything the getter sends arrives, and the handler reads it.
FreeAt(s) ==
    NoCause(s) /\ ~Returned(s) =>
      /\ gpc[s] = "request" => up[s] = <<Greeting(s)>>
      /\ gpc[s] \notin Connecting => up[s] = <<Greeting(s), Asking(s), Fin>>
      /\ "up" \notin stopped[s]
      /\ Over(s) => Announced(s)

\* So the getter does not fail.
OutcomeAt(s) == NoCause(s) => gpc[s] \notin Bad \cup {"nosend"}

\* A getter that takes a step has not returned.
LEMMA ActsRunning ==
    ASSUME NEW s \in Streams, Acts(s)
    PROVE  ~Returned(s)
<1>1. ~(SetupFails(s) \/ SendFails(s) \/ EmptyRefused(s) \/ ReadFails(s) \/ CallbackFails(s)
        \/ Cancel(s) \/ ReadEnd(s)) \/ ~Returned(s)
  BY GetterAssumption, PlacesDiffer DEF SetupFails, SendFails, EmptyRefused, ReadFails, CallbackFails, Cancel, ReadEnd,
     At, Returned, Outcomes
<1>2. ~(Setup(s) \/ OpenBi(s) \/ SendHandshake(s) \/ SendRequest(s) \/ Finished(s)
        \/ OnCollection(s) \/ OnBlobReturns(s) \/ CheckAtEnd(s) \/ CheckFails(s)) \/ ~Returned(s)
  BY DEF Setup, OpenBi, SendHandshake, SendRequest, Finished, OnCollection,
     OnBlobReturns, CheckAtEnd, CheckFails, At, Returned, Outcomes
<1>3. ~(ReadResponse(s) \/ ReadCollection(s) \/ ReadBlobResponse(s) \/ ReadSize(s)
        \/ ReadSegment(s) \/ CheckReads(s)) \/ ~Returned(s)
  BY DEF ReadResponse, ReadCollection, ReadBlobResponse, ReadSize, ReadSegment, CheckReads, At, Returned,
     Outcomes
<1> QED
  BY <1>1, <1>2, <1>3 DEF Acts, GetterStep

\* Others give no reason that was not there before.
LEMMA NoCauseAside ==
    ASSUME TypeOK, NEW s \in Streams, Aside(s)
    PROVE  /\ NoCause(s)' => NoCause(s)
           /\ ~cancelled' => ~cancelled
           /\ pside'[ConnOf[s]] # "refused" => pside[ConnOf[s]] # "refused"
<1>1. /\ FilesIntact' => FilesIntact
      /\ cancelled => cancelled'
      /\ pside'[ConnOf[s]] # "refused" => pside[ConnOf[s]] # "refused"
  BY DEF Aside, StreamAside, LinkAside
<1> QED
  BY <1>1 DEF NoCause, Servable

\* The connection ends only for a reason.
LEMMA LiveAside ==
    ASSUME TypeOK, NEW s \in Streams, LiveAt(s), Aside(s)
    PROVE  LiveAt(s)'
<1> SUFFICES ASSUME ~Lossy, ~cancelled', pside'[ConnOf[s]] # "refused", ~Returned(s)'
             PROVE  cside'[ConnOf[s]] # "down" /\ pside'[ConnOf[s]] # "down"
  BY DEF LiveAt
<1>1. ~cancelled /\ pside[ConnOf[s]] # "refused"
  BY NoCauseAside
<1>2. ~Returned(s)
  BY DEF Returned, Aside, Same
<1>3. cside[ConnOf[s]] # "down" /\ pside[ConnOf[s]] # "down"
  BY <1>1, <1>2 DEF LiveAt
<1> QED
  BY <1>1, <1>3 DEF Aside, LinkAside

\* A getter ends its connection only when it returns.
LEMMA LiveGetter ==
    ASSUME Base, NEW s \in Streams, LiveAt(s), Acts(s), UNCHANGED providerVars
    PROVE  LiveAt(s)'
<1> SUFFICES ASSUME ~Lossy, ~cancelled', pside'[ConnOf[s]] # "refused", ~Returned(s)'
             PROVE  cside'[ConnOf[s]] # "down" /\ pside'[ConnOf[s]] # "down"
  BY DEF LiveAt
<1>a. /\ ReaderTypeOK /\ ConnOf[s] \in Conns /\ gpc \in [Streams -> Steps \cup Outcomes]
      /\ cside \in [Conns -> {"none", "connecting", "open", "down"}]
      /\ pside \in [Conns -> {"none", "refused", "open", "down"}]
  BY QuicAssumption DEF Base, TypeOK, ReaderTypeOK, GetterTypeOK, QuicTypeOK
<1>b. ~cancelled /\ ~Returned(s)
  BY ActsRunning DEF providerVars
<1>1. CASE Setup(s)
  BY <1>1, <1>a DEF Setup, Connect
<1>2. CASE ByGetter(s)
  <2>1. UNCHANGED pside
    BY <1>2 DEF ByGetter
  <2>2. cside[ConnOf[s]] # "down" /\ pside[ConnOf[s]] # "down"
    BY <1>b, <2>1 DEF LiveAt
  <2>3. ~Leaves(s)
    BY DEF Leaves, Returned
  <2>4. UNCHANGED cside \/ cside'[ConnOf[s]] = "open"
    BY <1>2, <1>a, <2>3 DEF ByGetter, Proceeds, OpenBi, Establish, SendHandshake, SendRequest, OnlySendUp,
       Finished, conns, quicVars
  <2> QED
    BY <2>1, <2>2, <2>4
<1> QED
  BY <1>1, <1>2, <1>a, GetterKinds

\* The handler reads nothing but what the getter means to send.
LEMMA NoBadRead ==
    ASSUME Base, NEW s \in Streams, TalkAt(s), LiveAt(s), FreeAt(s), NoCause(s), ~Returned(s)
    PROVE  ~BadRead(s)
<1> SUFFICES ASSUME hs[s] \in Reading, ReadUpFails(s) \/ (CanReadUp(s) /\ ~RightFrame(s))
             PROVE  FALSE
  BY DEF BadRead
<1> DEFINE G == Greeting(s)
           A == Asking(s)
<1>a. ReadAt(s) /\ SpokenAt(s)
  BY DEF Base, ServeInv, StreamAt, TalkAt
<1>1. up[s] \in {<<>>, <<G>>, <<G, A, Fin>>}
  BY <1>a DEF SpokenAt, FreeAt
<1>2. ~ReadUpFails(s)
  BY DEF ReadUpFails, LiveAt, NoCause
<1>3. CanReadUp(s) /\ ~RightFrame(s)
  BY <1>2
<1>4. ValidHandshake(G)
  BY DEF NoCause, ValidHandshake, Greeting, Handshake
<1>5. A.t = "request"
  BY DEF Asking, Request
<1>6. Len(<<>>) = 0 /\ Len(<<G>>) = 1 /\ Len(<<G, A, Fin>>) = 3
  OBVIOUS
<1>7. <<G>>[1] = G /\ <<G, A, Fin>>[1] = G /\ <<G, A, Fin>>[2] = A /\ <<G, A, Fin>>[3] = Fin
  OBVIOUS
<1>8. upRd[s] < Len(up[s]) /\ NextFrame(s) = up[s][upRd[s] + 1]
  BY <1>3 DEF CanReadUp, NextFrame
<1> HIDE DEF G, A
<1>9. CASE hs[s] = "handshake"
  <2>1. upRd[s] = 0
    BY <1>9, <1>a DEF ReadAt
  <2>2. up[s] # <<>> /\ NextFrame(s) = up[s][1]
    BY <1>6, <1>8, <2>1
  <2>3. NextFrame(s) = G
    BY <1>1, <1>7, <2>2, Zenon
  <2> QED
    BY <1>3, <1>4, <1>9, <2>3 DEF RightFrame
<1>10. CASE hs[s] = "request"
  <2>1. upRd[s] = 1
    BY <1>10, <1>a DEF ReadAt
  <2>2. up[s] # <<>> /\ up[s] # <<G>> /\ NextFrame(s) = up[s][2]
    <3>1. 1 < Len(up[s]) /\ NextFrame(s) = up[s][1 + 1]
      BY <1>8, <2>1
    <3>2. ~(1 < 0) /\ ~(1 < 1) /\ 1 + 1 = 2
      OBVIOUS
    <3> QED
      BY <1>6, <3>1, <3>2, Zenon
  <2>3. NextFrame(s) = A
    BY <1>1, <1>7, <2>2, Zenon
  <2> QED
    BY <1>3, <1>5, <1>10, <2>3 DEF RightFrame
<1>11. CASE hs[s] = "extra"
  <2>1. upRd[s] = 2
    BY <1>11, <1>a DEF ReadAt
  <2>2. up[s] # <<>> /\ up[s] # <<G>> /\ NextFrame(s) = up[s][3]
    <3>1. 2 < Len(up[s]) /\ NextFrame(s) = up[s][2 + 1]
      BY <1>8, <2>1
    <3>2. ~(2 < 0) /\ ~(2 < 1) /\ 2 + 1 = 3
      OBVIOUS
    <3> QED
      BY <1>6, <3>1, <3>2, Zenon
  <2>3. NextFrame(s) = Fin
    BY <1>1, <1>7, <2>2, Zenon
  <2> QED
    BY <1>3, <1>11, <2>3 DEF RightFrame
<1> QED
  BY <1>9, <1>10, <1>11 DEF Reading

\* The handler does not turn away a getter that had no reason to fail.
LEMMA FreeAside ==
    ASSUME Base, NEW s \in Streams, TalkAt(s), LiveAt(s), FreeAt(s), Aside(s)
    PROVE  FreeAt(s)'
<1> SUFFICES ASSUME NoCause(s)', ~Returned(s)'
             PROVE  /\ gpc'[s] = "request" => up'[s] = <<Greeting(s)>>
                    /\ gpc'[s] \notin Connecting => up'[s] = <<Greeting(s), Asking(s), Fin>>
                    /\ "up" \notin stopped'[s]
                    /\ Over(s)' => Announced(s)'
  BY DEF FreeAt, Greeting, Asking
<1>1. UNCHANGED <<gpc[s], up[s]>>
  BY DEF Aside, Same, StreamAside
<1>2. NoCause(s)
  BY NoCauseAside DEF Base
<1>3. ~Returned(s)
  BY <1>1 DEF Returned
<1>4. ~BadRead(s)
  BY <1>2, <1>3, NoBadRead
<1>5. /\ gpc[s] = "request" => up[s] = <<Greeting(s)>>
      /\ gpc[s] \notin Connecting => up[s] = <<Greeting(s), Asking(s), Fin>>
      /\ "up" \notin stopped[s]
      /\ Over(s) => Announced(s)
  BY <1>2, <1>3 DEF FreeAt
<1>6. /\ "up" \in stopped'[s] => "up" \in stopped[s] \/ BadRead(s)
      /\ Over(s)' => Over(s) \/ Announced(s)' \/ BadRead(s)
      /\ Announced(s) => Announced(s)'
  BY DEF Aside, StreamAside
<1> QED
  BY <1>1, <1>4, <1>5, <1>6

\* What the getter itself does to the reasons.
LEMMA NoCauseGetter ==
    ASSUME Base, NEW s \in Streams, Acts(s), UNCHANGED providerVars, NoCause(s)'
    PROVE  NoCause(s)
<1>a. ReaderTypeOK /\ ConnOf[s] \in Conns /\ Unconnected
  BY QuicAssumption DEF Base, TypeOK, ReaderTypeOK, AbortInv
<1>1. FilesIntact /\ ~cancelled /\ ~Lossy /\ TokenOf[s] = AuthToken /\ Servable(Want[s])
  BY DEF NoCause, FilesIntact, Servable, providerVars
<1>2. pside[ConnOf[s]] # "refused"
  <2>1. CASE Setup(s)
    BY <1>a, <2>1 DEF Setup, Connect, Unconnected
  <2>2. CASE ByGetter(s)
    BY <2>2 DEF ByGetter, NoCause
  <2> QED
    BY <1>a, <2>1, <2>2, GetterKinds
<1> QED
  BY <1>1, <1>2 DEF NoCause

\* What the getter sends arrives.
LEMMA FreeGetter ==
    ASSUME Base, NEW s \in Streams, TalkAt(s), LiveAt(s), FreeAt(s), Acts(s), UNCHANGED providerVars
    PROVE  FreeAt(s)'
<1> SUFFICES ASSUME NoCause(s)', ~Returned(s)'
             PROVE  /\ gpc'[s] = "request" => up'[s] = <<Greeting(s)>>
                    /\ gpc'[s] \notin Connecting => up'[s] = <<Greeting(s), Asking(s), Fin>>
                    /\ "up" \notin stopped'[s]
                    /\ Over(s)' => Announced(s)'
  BY DEF FreeAt, Greeting, Asking
<1>a. /\ ReaderTypeOK /\ ConnOf[s] \in Conns /\ gpc \in [Streams -> Steps \cup Outcomes]
      /\ pside \in [Conns -> {"none", "refused", "open", "down"}]
      /\ up \in [Streams -> Seq(Frames)] /\ SpokenAt(s) /\ PlaceAt(s)
  BY QuicAssumption DEF Base, TypeOK, ReaderTypeOK, GetterTypeOK, QuicTypeOK, TalkAt
<1>b. NoCause(s) /\ ~Returned(s)
  BY NoCauseGetter, ActsRunning
<1>c. /\ gpc[s] = "request" => up[s] = <<Greeting(s)>>
      /\ gpc[s] \notin Connecting => up[s] = <<Greeting(s), Asking(s), Fin>>
      /\ "up" \notin stopped[s]
      /\ Over(s) => Announced(s)
  BY <1>b DEF FreeAt
<1>d. (Over(s) => Announced(s)) => (Over(s)' => Announced(s)')
  BY DEF Over, Announced, providerVars
<1>e. gpc[s] # "idle" => pside[ConnOf[s]] = "open"
  BY <1>a, <1>b DEF LiveAt, NoCause, PlaceAt
<1>1. CASE Setup(s)
  <2>1. gpc'[s] = "connecting" /\ UNCHANGED stopped
    BY <1>1, <1>a DEF Setup, To, Connect, wire
  <2> QED
    BY <1>c, <1>d, <2>1 DEF Connecting
<1>2. CASE ByGetter(s)
  <2>1. ~Leaves(s)
    BY DEF Leaves, Returned
  <2>2. CASE Proceeds(s)
    <3>1. gpc[s] \notin Connecting /\ gpc'[s] # "request" /\ UNCHANGED <<up, stopped>>
      BY <2>2 DEF Proceeds, Connecting, Hearing
    <3> QED
      BY <1>c, <1>d, <3>1
  <2>3. CASE OpenBi(s)
    <3>1. gpc'[s] = "connected" /\ UNCHANGED stopped
      BY <2>3, <1>a DEF OpenBi, To, Establish, wire
    <3> QED
      BY <1>c, <1>d, <3>1 DEF Connecting
  <2>4. CASE SendHandshake(s)
    <3>1. /\ gpc[s] = "connected" /\ gpc'[s] = "request" /\ UNCHANGED stopped
          /\ pside[ConnOf[s]] = "open" => up'[s] = up[s] \o <<Greeting(s)>>
      BY <2>4, <1>a DEF SendHandshake, At, To, SendUp, OnlySendUp, conns, Greeting
    <3>2. up[s] = <<>> /\ <<>> \o <<Greeting(s)>> = <<Greeting(s)>>
      BY <1>a, <3>1 DEF SpokenAt, Connecting
    <3>3. up'[s] = <<Greeting(s)>>
      BY <1>e, <3>1, <3>2
    <3> QED
      BY <1>c, <1>d, <3>1, <3>3 DEF Connecting
  <2>5. CASE SendRequest(s)
    <3>1. /\ gpc[s] = "request" /\ gpc'[s] = "finish" /\ UNCHANGED stopped
          /\ pside[ConnOf[s]] = "open" => up'[s] = up[s] \o <<Asking(s), Fin>>
      BY <2>5, <1>a DEF SendRequest, At, To, SendUp, OnlySendUp, conns, Asking
    <3>2. up[s] = <<Greeting(s)>> /\ <<Greeting(s)>> \o <<Asking(s), Fin>> = <<Greeting(s), Asking(s), Fin>>
      BY <1>c, <3>1, Joined
    <3>3. up'[s] = <<Greeting(s), Asking(s), Fin>>
      BY <1>e, <3>1, <3>2
    <3> QED
      BY <1>c, <1>d, <3>1, <3>3
  <2>6. CASE Finished(s)
    <3>1. gpc[s] = "finish" /\ gpc'[s] = "response" /\ UNCHANGED <<up, stopped>>
      BY <2>6, <1>a DEF Finished, At, To, quicVars
    <3> QED
      BY <1>c, <1>d, <3>1 DEF Connecting
  <2> QED
    BY <1>2, <2>1, <2>2, <2>3, <2>4, <2>5, <2>6 DEF ByGetter
<1> QED
  BY <1>1, <1>2, <1>a, GetterKinds

\* A getter that has returned stays as it is.
LEMMA OutcomeAside ==
    ASSUME TypeOK, NEW s \in Streams, OutcomeAt(s), Aside(s)
    PROVE  OutcomeAt(s)'
<1>1. gpc'[s] = gpc[s]
  BY DEF Aside, Same
<1> QED
  BY <1>1, NoCauseAside DEF OutcomeAt

\* Nothing makes a getter fail that has no reason to.
LEMMA OutcomeGetter ==
    ASSUME Base, TotalsExact, TotalsFit, NEW s \in Streams, TalkAt(s), HearAt(s), CountAt(s),
           LiveAt(s), FreeAt(s), Acts(s), UNCHANGED providerVars
    PROVE  OutcomeAt(s)'
<1> SUFFICES ASSUME NoCause(s)', gpc'[s] \in Bad \cup {"nosend"} PROVE FALSE
  BY DEF OutcomeAt
<1>a. ReaderTypeOK
  BY DEF Base, TypeOK, ReaderTypeOK
<1>1. NoCause(s) /\ ~Returned(s)
  BY NoCauseGetter, ActsRunning
<1>2. cside[ConnOf[s]] # "down" /\ "up" \notin stopped[s] /\ (Over(s) => Announced(s))
  BY <1>1 DEF LiveAt, FreeAt, NoCause
<1>3. CASE gpc'[s] \in Bad
  <2>1. Clean(s)
    BY <1>1 DEF NoCause, Clean
  <2>2. Lost(s)
    BY <1>3, <2>1, LostCause
  <2> QED
    BY <1>2, <2>2 DEF Lost
<1>4. CASE gpc'[s] = "nosend"
  <2>1. SendFails(s)
    BY <1>a, <1>4, EndsOk
  <2> QED
    BY <1>2, <2>1 DEF SendFails, SendUpFails
<1> QED
  BY <1>3, <1>4

(***************************************************************************)
(* What a getter has received of the blobs it is past.                     *)
(***************************************************************************)
\* Of a provider that sends nothing wrong the getter has every blob whole,
\* even one that on_blob returned early from: the check finds what is left.
GotAt(s) ==
    gpc[s] \in Hearing \cup {"ok"} =>
      /\ Stored[Want[s]] = "collection"
      /\ Clean(s) => \A i \in 1..Len(got[s]) : got[s][i] = Segments[ListOf(s)[i]]

\* Others leave this alone.
LEMMA GotAside ==
    ASSUME NEW s \in Streams, GotAt(s), Aside(s)
    PROVE  GotAt(s)'
<1>1. UNCHANGED <<gpc[s], got[s]>> /\ (FilesIntact' => FilesIntact)
  BY DEF Aside, Same, StreamAside
<1>2. Clean(s)' => Clean(s)
  BY <1>1 DEF Clean, Servable
<1> QED
  BY <1>1, <1>2 DEF GotAt, ListOf

\* Every step of the getter keeps it.
LEMMA GotGetter ==
    ASSUME Base, NEW s \in Streams, HearAt(s), HearAt(s)', GotAt(s), Acts(s), UNCHANGED providerVars
    PROVE  GotAt(s)'
<1>a. /\ TypeOK /\ ReaderTypeOK /\ ProgressAt(s) /\ got[s] \in Seq(Nat) /\ pos[s] \in Nat
  BY DEF Base, TypeOK, ReaderTypeOK, GetterTypeOK, BlobProgress
<1>e. Clean(s)' = Clean(s) /\ ListOf(s)' = ListOf(s)
  BY DEF providerVars, Clean, FilesIntact, ListOf
<1>1. CASE gpc'[s] = "ok"
  <2>1. ReadEnd(s)
    BY <1>a, <1>1, EndsOk
  <2>2. gpc[s] \in Hearing /\ UNCHANGED got
    BY <2>1 DEF ReadEnd, At, Hearing, counts
  <2> QED
    BY <1>e, <2>2 DEF GotAt
<1>2. CASE gpc'[s] \in Hearing
  <2>1. Stored[Want[s]] = "collection"
    BY <1>2 DEF HearAt, KnownAt
  <2>c. gpc[s] = "coll" => pos[s] <= Segments[Want[s]]
    BY DEF HearAt, FollowsAt, Hearing
  <2>d. Turns(s)
    BY <1>a, <1>2, <2>c, GetterTurns
  <2> SUFFICES ASSUME Clean(s)
               PROVE  \A i \in 1..Len(got'[s]) : got'[s][i] = Segments[ListOf(s)[i]]
    BY <1>e, <2>1 DEF GotAt
  <2>2. CASE TurnResponse(s)
    <3>1. got'[s] = got[s] /\ got[s] = <<>>
      BY <1>a, <2>2 DEF TurnResponse, ProgressAt, BeforeBlobs
    <3> QED
      BY <3>1
  <2>3. CASE TurnPassed(s)
    BY <2>3, PassedNot
  <2>4. CASE TurnNext(s)
    <3>1. /\ gpc[s] = "check" /\ got'[s] = Append(got[s], pos[s])
          /\ pos[s] = Segments[ListOf(s)[Len(got[s]) + 1]]
      BY <2>4 DEF TurnNext, AtEndOfBlob, Current
    <3>2. \A i \in 1..Len(got[s]) : got[s][i] = Segments[ListOf(s)[i]]
      BY <3>1 DEF GotAt, Hearing
    <3>3. ASSUME NEW i \in 1..Len(got'[s]) PROVE got'[s][i] = Segments[ListOf(s)[i]]
      <4> DEFINE n == Len(got[s])
      <4>1. n \in Nat /\ Len(got'[s]) = n + 1 /\ got'[s][n + 1] = pos[s]
        BY <1>a, <3>1
      <4>2. \A j \in 1..n : got'[s][j] = got[s][j]
        BY <1>a, <3>1
      <4>3. i \in 1..n \/ i = n + 1
        BY <4>1
      <4> QED
        BY <3>1, <3>2, <4>1, <4>2, <4>3, Zenon
    <3> QED
      BY <3>3
  <2>5. CASE ~TurnResponse(s) /\ ~TurnPassed(s) /\ ~TurnNext(s)
    <3>1. gpc[s] \in Hearing /\ UNCHANGED got[s]
      BY <2>5, <2>d DEF Turns, Hearing, TurnItem, TurnCollection, TurnLoop, TurnFound, TurnSize,
         TurnSegment, TurnCheck
    <3> QED
      BY <3>1 DEF GotAt
  <2> QED
    BY <2>2, <2>3, <2>4, <2>5
<1>3. CASE gpc'[s] \notin Hearing \cup {"ok"}
  BY <1>3 DEF GotAt
<1> QED
  BY <1>1, <1>2, <1>3

\* Without anything that happens to the files they stay as they are.
LEMMA FilesKept ==
    ASSUME Base, FileEvents = {}, FilesIntact, [Next]_vars
    PROVE  FilesIntact'
<1>a. ServeInv
  BY DEF Base
<1>1. CASE \E s \in Streams : HandlerStep(s) \/ AcceptBi(s)
  BY <1>1, <1>a, HandlerStream, AcceptKeeps DEF Frame, FilesIntact
<1>2. CASE LoopStep
  <2>1. UNCHANGED file
    BY <1>2 DEF LoopStep, Shutdown, RunStep, PollCancelled, RunEnds, RunPark, RunWake, RunAccept,
       EndpointLost, ConnectionStep, Connected, ConnectionEnds, ChangeFile, streams, tasks
  <2> QED
    BY <2>1 DEF FilesIntact
<1>3. CASE UNCHANGED providerVars
  BY <1>3 DEF providerVars, FilesIntact
<1> QED
  BY <1>1, <1>2, <1>3 DEF Next, vars, ProviderNext, LoopStep

(***************************************************************************)
(* The whole system.                                                       *)
(***************************************************************************)
PairAt(s) == TalkAt(s) /\ HearAt(s) /\ CountAt(s) /\ OkAt(s) /\ LiveAt(s) /\ FreeAt(s)
             /\ GotAt(s)
PairInv == Base /\ \A s \in Streams : PairAt(s)

FateAt(s) == DeliverAt(s) /\ OutcomeAt(s)
FateInv == \A s \in Streams : FateAt(s)

\* At first nobody has sent, read or returned anything.
LEMMA PairInit == Init => PairInv /\ FateInv
<1> SUFFICES ASSUME Init PROVE PairInv /\ FateInv
  OBVIOUS
<1>1. Base
  BY BaseInit
<1>a. QuicInit /\ ProviderInit /\ GetterInit
  BY DEF Init
<1>2. ASSUME NEW s \in Streams PROVE PairAt(s) /\ FateAt(s)
  <2>1. /\ gpc[s] = "idle" /\ up[s] = <<>> /\ downRd[s] = 0 /\ stopped[s] = {}
        /\ cside[ConnOf[s]] = "none" /\ pside[ConnOf[s]] = "none" /\ hs[s] = "none"
    BY <1>a, QuicAssumption DEF QuicInit, ProviderInit, GetterInit
  <2>2. TalkAt(s)
    BY <2>1 DEF TalkAt, SpokenAt, PlaceAt, Returned, Outcomes, Connecting
  <2>3. HearAt(s) /\ CountAt(s) /\ OkAt(s) /\ LiveAt(s) /\ GotAt(s)
    BY <2>1 DEF HearAt, CountAt, OkAt, LiveAt, GotAt, Hearing
  <2>4. FreeAt(s)
    BY <2>1 DEF FreeAt, Over, Connecting
  <2>5. FateAt(s)
    BY <2>1 DEF FateAt, DeliverAt, OutcomeAt, Bad
  <2> QED
    BY <2>2, <2>3, <2>4, <2>5 DEF PairAt
<1> QED
  BY <1>1, <1>2 DEF PairInv, FateInv

\* Every step of the system keeps what holds of a getter and its stream.
LEMMA PairStep ==
    ASSUME CollectionsFit, PairInv, [Next]_vars
    PROVE  PairInv'
<1>1. Base /\ Base' /\ ServeInv' /\ TypeOK
  BY BaseStep DEF PairInv, Base
<1>2. ASSUME NEW s \in Streams PROVE PairAt(s)'
  <2>1. TalkAt(s) /\ HearAt(s) /\ CountAt(s) /\ OkAt(s) /\ LiveAt(s) /\ FreeAt(s) /\ GotAt(s)
    BY DEF PairInv, PairAt
  <2>2. CASE Aside(s)
    <3>1. TalkAt(s)' /\ HearAt(s)' /\ CountAt(s)'
      BY <1>1, <2>1, <2>2, TalkAside, HearAside, CountAside
    <3>2. OkAt(s)' /\ LiveAt(s)' /\ FreeAt(s)' /\ GotAt(s)'
      BY <1>1, <2>1, <2>2, OkAside, LiveAside, FreeAside, GotAside
    <3> QED
      BY <3>1, <3>2 DEF PairAt
  <2>3. CASE Acts(s) /\ UNCHANGED providerVars
    <3>1. TalkAt(s)' /\ HearAt(s)' /\ CountAt(s)'
      BY <1>1, <2>1, <2>3, TalkGetter, HearGetter, CountGetter
    <3>2. OkAt(s)' /\ LiveAt(s)' /\ FreeAt(s)' /\ GotAt(s)'
      BY <1>1, <2>1, <2>3, <3>1, OkGetter, LiveGetter, FreeGetter, GotGetter
    <3> QED
      BY <3>1, <3>2 DEF PairAt
  <2> QED
    BY <1>1, <2>2, <2>3, AsideStep
<1> QED
  BY <1>1, <1>2 DEF PairInv

\* So it is an invariant.
LEMMA PairInvariant ==
    ASSUME CollectionsFit
    PROVE  Spec => []PairInv
<1>1. Init => PairInv
  BY PairInit
<1>2. PairInv /\ [Next]_vars => PairInv'
  BY PairStep
<1> QED
  BY <1>1, <1>2, PTL DEF Spec

\* And every step keeps what became of the getters, when the sizes that are
\* announced are the right ones.
LEMMA FateStep ==
    ASSUME CollectionsFit, TotalsExact, TotalsFit, PairInv, PairInv', FateInv, [Next]_vars
    PROVE  FateInv'
<1>1. Base /\ ServeInv' /\ TypeOK
  BY DEF PairInv, Base
<1>2. ASSUME NEW s \in Streams PROVE FateAt(s)'
  <2>1. TalkAt(s) /\ HearAt(s) /\ CountAt(s) /\ LiveAt(s) /\ FreeAt(s) /\ DeliverAt(s) /\ OutcomeAt(s)
    BY DEF PairInv, PairAt, FateInv, FateAt
  <2>2. CASE Aside(s)
    BY <1>1, <2>1, <2>2, DeliverAside, OutcomeAside DEF FateAt
  <2>3. CASE Acts(s) /\ UNCHANGED providerVars
    BY <1>1, <2>1, <2>3, DeliverGetter, OutcomeGetter DEF FateAt
  <2> QED
    BY <1>1, <2>2, <2>3, AsideStep
<1> QED
  BY <1>2 DEF FateInv

\* So this is an invariant too.
LEMMA FateInvariant ==
    ASSUME CollectionsFit, TotalsExact, TotalsFit
    PROVE  Spec => []FateInv
<1>1. Init => FateInv
  BY PairInit
<1>2. PairInv /\ PairInv' /\ FateInv /\ [Next]_vars => FateInv'
  BY FateStep
<1> QED
  BY <1>1, <1>2, PairInvariant, PTL DEF Spec

\* A getter all of whose blobs are read to their ends, and that returned Ok,
\* had its request answered, was sent the whole answer to its end and handed
\* on exactly as many bytes as it reports, whatever became of the files, the
\* network and the other getters meanwhile (get.rs, run; provider.rs,
\* handle_stream).
THEOREM TransferOkIsServed ==
    ASSUME CollectionsFit, TotalsExact, LazyBlobs = {}
    PROVE  Spec => []OkIsServed
<1>1. PairInv => OkIsServed
  BY DEF PairInv, PairAt, OkAt, OkIsServed
<1> QED
  BY <1>1, PairInvariant, PTL

\* A getter with the right token that asks for what the provider can serve
\* fails only for a reason outside the two: the network, the files, a
\* shutdown, or a connection refused (get.rs, run; provider.rs,
\* handle_stream).
THEOREM TransferFailureHasCause ==
    ASSUME CollectionsFit, TotalsExact, TotalsFit
    PROVE  Spec => []FailureHasCause
<1>1. FateInv => FailureHasCause
  BY DEF FateInv, FateAt, OutcomeAt, NoCause, Bad, FailureHasCause
<1> QED
  BY <1>1, FateInvariant, PTL

\* Once the provider reports a transfer completed the getter loses nothing
\* any more, however soon the provider or the network goes away (provider.rs,
\* the end of handle_stream; get.rs, run).
THEOREM TransferCompletedDelivers ==
    ASSUME CollectionsFit, TotalsExact, TotalsFit
    PROVE  Spec => []CompletedDelivers
<1>1. PairInv /\ FateInv => CompletedDelivers
  <2> SUFFICES ASSUME PairInv, FateInv, NEW s \in Streams, FilesIntact,
                      Reported(s, TransferCompleted)
               PROVE  gpc[s] \notin {"lost", "invalid", "notfound", "panicked"}
    BY DEF CompletedDelivers
  <2>a. /\ TypeOK /\ ServeInv /\ SpokenAt(s) /\ WholeAt(s) /\ ServableAt(s) /\ DeliverAt(s)
    BY DEF PairInv, PairAt, Base, TalkAt, OrderInv, OrderAt, ShapeInv, ShapeAt, FateInv, FateAt
  <2>1. log[s] = Append(RR, TransferCompleted) /\ Announced(s) /\ Asked(s)
    BY <2>a, AnnouncedStates DEF Told
  <2>2. Name(s) = Want[s] /\ up[s] = <<Greeting(s), Asking(s), Fin>>
    BY <2>a, <2>1, WantedName
  <2>3. Clean(s)
    BY <2>a, <2>1, <2>2 DEF ServableAt, Clean
  <2>4. "down" \in acked[s]
    BY <2>a, <2>1 DEF WholeAt
  <2>5. up[s] # <<>>
    BY <2>2
  <2>6. ~Lost(s)
    BY <2>1, <2>4, <2>5 DEF Lost
  <2> QED
    BY <2>3, <2>6, <2>a DEF DeliverAt
<1> QED
  BY <1>1, PairInvariant, FateInvariant, PTL

\* When nothing happens to the files, and every collection in the database
\* can be served, run returns Ok only with every blob complete, even if
\* on_blob returns early: the check after it finds what is left unread
\* (get.rs, the end of the loop over the blobs).
THEOREM TransferOkIsComplete ==
    ASSUME CollectionsFit, FileEvents = {},
           \A h \in Hash : Stored[h] = "collection" => Servable(h)
    PROVE  Spec => []OkImpliesComplete
<1>1. Init => FilesIntact
  BY DEF Init, ProviderInit, FilesIntact
<1>2. PairInv /\ FilesIntact /\ [Next]_vars => FilesIntact'
  BY FilesKept DEF PairInv
<1>3. PairInv /\ FilesIntact => OkImpliesComplete
  <2> SUFFICES ASSUME PairInv, FilesIntact, NEW s \in Streams, gpc[s] = "ok" PROVE Complete(s)
    BY DEF OkImpliesComplete
  <2>1. ProgressAt(s) /\ GotAt(s)
    BY DEF PairInv, PairAt, Base, BlobProgress
  <2>2. Want[s] \in Hash
    BY GetterAssumption
  <2>3. Clean(s)
    BY <2>1, <2>2 DEF GotAt, Clean
  <2> QED
    BY <2>1, <2>3 DEF ProgressAt, GotAt, Complete
<1> QED
  BY <1>1, <1>2, <1>3, PairInvariant, PTL DEF Spec
=============================================================================
