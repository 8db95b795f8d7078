----------------------------- MODULE OpenProofs -----------------------------
(***************************************************************************)
(* Each end facing an arbitrary other one: what ProviderProofs and         *)
(* GetterProofs show of every step, as theorems about ProviderSpec (the    *)
(* provider with any clients) and GetterSpec (a getter with any provider), *)
(* and the refinement of Fetch.                                            *)
(***************************************************************************)
EXTENDS OpenProvider, OpenGetter, ProviderProofs, GetterProofs

(***************************************************************************)
(* The provider facing arbitrary clients.                                  *)
(***************************************************************************)
\* What a client sends is added to what it has sent.
LEMMA SendsOutside ==
    ASSUME ServerTypeOK, UNCHANGED providerVars, NEW s \in Streams, NEW q \in Bursts, ClientSends(s, q)
    PROVE  Outside
<1>1. ServerTypeOK /\ q \in Seq(Frames) /\ up \in [Streams -> Seq(Frames)]
  BY ClientsAssumption DEF ServerTypeOK, QuicTypeOK
<1>2. up' = up \/ up' = [up EXCEPT ![s] = up[s] \o q]
  BY <1>1 DEF ClientSends, SendUp
<1>3. up[s] \o q \in Seq(Frames) /\ Len(up[s] \o q) >= Len(up[s])
      /\ \A k \in 1..Len(up[s]) : (up[s] \o q)[k] = up[s][k]
  BY <1>1
<1>4. up' \in [Streams -> Seq(Frames)]
  BY <1>1, <1>2, <1>3
<1>5. ASSUME NEW t \in Streams PROVE Grown(t) /\ (up'[t] = up[t] \/ t = s)
  <2>1. up'[t] = up[t] \/ (t = s /\ up'[t] = up[s] \o q)
    BY <1>1, <1>2
  <2>2. CASE up'[t] = up[t]
    BY <1>1, <2>2 DEF Grown
  <2>3. CASE t = s /\ up'[t] = up[s] \o q
    BY <1>3, <2>3 DEF Grown
  <2> QED
    BY <2>1, <2>2, <2>3
<1>6. /\ UNCHANGED <<listening, pside, cside, upRd, down, downRd, acked, stopped>>
      /\ cside[ConnOf[s]] = "open"
  BY DEF ClientSends, CanSendUp, conns
<1>7. QuicTypeOK'
  BY <1>4, <1>6 DEF ServerTypeOK, QuicTypeOK
<1> QED
  BY <1>1, <1>5, <1>6, <1>7, ClientOutside

\* Arbitrary clients keep to what the provider relies on.
LEMMA ClientsOutside ==
    ASSUME ServerTypeOK, UNCHANGED providerVars, ClientNext
    PROVE  Outside
<1>a. /\ ServerTypeOK /\ QuicTypeOK
      /\ cside \in [Conns -> {"none", "connecting", "open", "down"}]
      /\ stopped \in [Streams -> SUBSET Directions] /\ downRd \in [Streams -> Nat]
  BY DEF ServerTypeOK, QuicTypeOK
<1>1. ASSUME NEW c \in Conns, Connect(c) PROVE Outside
  BY <1>1, <1>a, ConnectOutside
<1>2. ASSUME UNCHANGED <<listening, pside, up, upRd, down, acked>>, QuicTypeOK',
             \A s \in Streams : stopped[s] \subseteq stopped'[s],
             \A c \in Conns : \/ cside'[c] = cside[c] \/ cside'[c] = "down"
                              \/ cside[c] = "connecting" /\ cside'[c] = "open"
      PROVE  Outside
  <2>1. \A s \in Streams : Grown(s) /\ up'[s] = up[s]
    BY <1>a, <1>2 DEF Grown, QuicTypeOK
  <2> QED
    BY <1>a, <1>2, <2>1, ClientOutside
<1>3. ASSUME NEW c \in Conns, Establish(c) \/ ClientCloses(c) PROVE Outside
  <2>1. UNCHANGED <<listening, pside, up, upRd, down, downRd, acked, stopped>>
    BY <1>3 DEF Establish, ClientCloses, wire
  <2>2. \/ cside' = [cside EXCEPT ![c] = "open"] /\ cside[c] = "connecting"
        \/ cside' = [cside EXCEPT ![c] = "down"]
    BY <1>3 DEF Establish, ClientCloses, DropConnection
  <2>3. QuicTypeOK'
    BY <1>a, <2>1, <2>2 DEF QuicTypeOK
  <2>4. \A d \in Conns : \/ cside'[d] = cside[d] \/ cside'[d] = "down"
                         \/ cside[d] = "connecting" /\ cside'[d] = "open"
    BY <1>a, <2>2
  <2> QED
    BY <1>2, <2>1, <2>3, <2>4
<1>4. ASSUME NEW s \in Streams, ClientReads(s) PROVE Outside
  <2>1. /\ UNCHANGED <<listening, pside, cside, up, upRd, down, acked, stopped>>
        /\ downRd' = [downRd EXCEPT ![s] = @ + 1]
    BY <1>4 DEF ClientReads, conns
  <2>2. QuicTypeOK'
    BY <1>a, <2>1 DEF QuicTypeOK
  <2> QED
    BY <1>2, <2>1, <2>2
<1>5. ASSUME NEW s \in Streams, ClientStops(s) PROVE Outside
  <2>1. /\ UNCHANGED <<listening, pside, cside, up, upRd, down, downRd, acked>>
        /\ stopped' = [stopped EXCEPT ![s] = @ \cup {"down"}]
    BY <1>5 DEF ClientStops, conns
  <2>2. QuicTypeOK' /\ \A t \in Streams : stopped[t] \subseteq stopped'[t]
    BY <1>a, <2>1 DEF QuicTypeOK, Directions
  <2> QED
    BY <1>2, <2>1, <2>2
<1>6. ASSUME NEW s \in Streams, NEW q \in Bursts, ClientSends(s, q) PROVE Outside
  BY <1>6, SendsOutside
<1> QED
  BY <1>1, <1>3, <1>4, <1>5, <1>6 DEF ClientNext

\* So every step of the system is one the proofs speak of.
LEMMA OpenStep == ServeInv /\ [OpenProviderNext]_pvars => ServerStep
<1> SUFFICES ASSUME ServeInv, [OpenProviderNext]_pvars PROVE ServerStep
  OBVIOUS
<1>1. ServerTypeOK
  BY DEF ServeInv, ServerTypeOK
<1>2. CASE (QuicNext \/ ClientNext) /\ UNCHANGED providerVars
  BY <1>1, <1>2, QuicOutside, ClientsOutside DEF ServerStep
<1>3. CASE UNCHANGED pvars
  BY <1>1, <1>3, StutterOutside DEF ServerStep
<1> QED
  BY <1>2, <1>3 DEF OpenProviderNext, ServerStep

\* The invariant of the streams holds for any clients.
LEMMA ServeInvariant == ProviderSpec => []ServeInv
<1>1. OpenProviderInit => ServeInv
  BY ServeInit DEF OpenProviderInit
<1>2. ServeInv /\ [OpenProviderNext]_pvars => ServeInv'
  BY OpenStep, ServeStep
<1> QED
  BY <1>1, <1>2, PTL DEF ProviderSpec

\* The events about every stream follow the protocol of the Event enum, with
\* any clients: one ClientConnected first, at most one RequestReceived, and
\* exactly one outcome when handle_stream returns.
THEOREM ProviderEventProtocol == ProviderSpec => []EventProtocol
<1>1. ServeInv => EventProtocol
  BY DEF ServeInv
<1> QED
  BY <1>1, ServeInvariant, PTL

\* Nothing but the end of the stream is sent before the client presented the
\* right version and token and exactly one request, and no content but the
\* requested collection and its blobs, for any clients and any number of
\* streams (provider.rs, handle_stream: the order of its reads and writes).
THEOREM ProviderAuthBeforeData == ProviderSpec => []AuthBeforeData
<1>1. ServeInv => AuthBeforeData
  <2> SUFFICES ASSUME ServeInv, NEW s \in Streams, NEW k \in DOMAIN down[s], down[s][k] # Fin
               PROVE  /\ Len(up[s]) >= 3
                      /\ up[s][1] = Handshake(VERSION, AuthToken)
                      /\ up[s][2].t = "request" /\ up[s][3] = Fin
                      /\ down[s][k].t = "data" =>
                           \/ down[s][k].h = Name(s)
                           \/ down[s][k].h \in Range(BlobsOf(s))
    BY DEF AuthBeforeData
  <2>1. k \in 1..Len(down[s])
    BY DEF ServeInv, ServerTypeOK, QuicTypeOK
  <2>2. Permitted(s, down[s][k])
    BY <2>1 DEF ServeInv, StreamAt, SentAt
  <2> QED
    BY <2>2 DEF Permitted, Asked, Requested, Greeted
<1> QED
  BY <1>1, ServeInvariant, PTL

\* The indices of every handler stay within the collection and the encoding
\* they run over, every variable keeps its type, and at most Pool blobs are
\* copied at a time, however many streams ask for one (provider.rs,
\* transfer_collection and send_blob).
THEOREM ProviderInRange == ProviderSpec => []InRange
<1>1. OpenProviderInit => PoolInv
  BY PoolInit DEF OpenProviderInit
<1>2. ServeInv /\ PoolInv /\ [OpenProviderNext]_pvars => PoolInv'
  BY OpenStep, PoolStep
<1>3. ServeInv /\ PoolInv => InRange
  BY DEF ServeInv, PoolInv, InRange, ServerTypeOK, StreamAt, IndexAt
<1> QED
  BY <1>1, <1>2, <1>3, ServeInvariant, PTL DEF ProviderSpec

\* Once the accept loop has closed the endpoint no step of any task puts
\* another item on a stream, not even for a connection that was still being
\* set up (provider.rs, the end of run).
THEOREM ProviderSilentAfterClose == ProviderSpec => NothingSentAfterClose
<1>1. OpenProviderInit => Closed
  BY DEF OpenProviderInit, ProviderInit, Closed
<1>2. ServeInv /\ Closed /\ [OpenProviderNext]_pvars => [run = "done" => UNCHANGED down]_pvars
  BY OpenStep, SilentStep
<1>3. ServeInv /\ Closed /\ [OpenProviderNext]_pvars => Closed'
  BY OpenStep, ClosedStep
<1>4. ProviderSpec => []Closed
  BY <1>1, <1>3, ServeInvariant, PTL DEF ProviderSpec
<1> QED
  BY <1>2, <1>4, ServeInvariant, PTL DEF ProviderSpec, NothingSentAfterClose

\* The causes of aborts are kept, with any clients.
LEMMA AbortInvariant == ProviderSpec => []AbortInv
<1>1. OpenProviderInit => AbortInv
  BY AbortInit DEF OpenProviderInit
<1>2. ServeInv /\ ServeInv' /\ AbortInv /\ [OpenProviderNext]_pvars => AbortInv'
  BY OpenStep, AbortStep
<1> QED
  BY <1>1, <1>2, ServeInvariant, PTL DEF ProviderSpec

\* A request that can be served, with its files as they were added, is
\* reported aborted only if the connection ended or the client stopped
\* reading, for any clients (provider.rs, the three places that emit
\* TransferAborted with a request id).
THEOREM ProviderAbortHasCause == ProviderSpec => []AbortHasCause
<1>1. ServeInv /\ AbortInv => AbortHasCause
  BY AbortLogged DEF AbortInv, CauseAt, AbortHasCause
<1> QED
  BY <1>1, ServeInvariant, AbortInvariant, PTL

\* The order of the answers is an invariant, for collections that fit.
LEMMA OrderInvariant ==
    ASSUME CollectionsFit
    PROVE  ProviderSpec => []OrderInv
<1>1. OpenProviderInit => OrderInv
  BY OrderInit DEF OpenProviderInit
<1>2. ServeInv /\ ServeInv' /\ AbortInv /\ OrderInv /\ [OpenProviderNext]_pvars => OrderInv'
  BY OpenStep, OrderStep DEF AbortInv
<1> QED
  BY <1>1, <1>2, ServeInvariant, AbortInvariant, PTL DEF ProviderSpec

\* While the files are as they were added, what a client was sent of a
\* collection that can be served is always a beginning of the answer, without
\* gap or repetition, whatever any client does (provider.rs,
\* transfer_collection and send_blob).
THEOREM ProviderAnswersInOrder ==
    ASSUME CollectionsFit
    PROVE  ProviderSpec => []AnswerInOrder
<1>1. ServeInv /\ OrderInv => AnswerInOrder
  <2> SUFFICES ASSUME ServeInv, OrderInv, NEW s \in Streams, FilesIntact,
                      Reported(s, RequestReceived), Servable(Name(s))
               PROVE  IsPrefix(down[s], Answer(Name(s)))
    BY DEF AnswerInOrder
  <2>1. Announced(s) /\ Asked(s)
    BY AnnouncedStates DEF Told
  <2>2. Name(s) \in Collections /\ Blobs[Name(s)] \in Seq(Hash)
    BY <2>1, AskedName DEF ServeInv, Servable
  <2>3. Answer(Name(s)) \in Seq(Items)
    <3>1. 0 \in 0..Len(Blobs[Name(s)])
      BY <2>2
    <3> QED
      BY <2>2, <3>1, AnswerFacts
  <2>4. down[s] \in Seq(Items) /\ Part(down[s], Answer(Name(s)))
    BY <2>1 DEF OrderInv, OrderAt, PartAt, ServeInv, ServerTypeOK, QuicTypeOK
  <2> QED
    BY <2>3, <2>4, PartIsPrefix
<1> QED
  BY <1>1, ServeInvariant, OrderInvariant, PTL

\* A transfer is reported completed only when all of the answer, to the last
\* item of the last blob, was sent and the client's end has acknowledged it
\* (provider.rs, the end of handle_stream after transfer_collection).
THEOREM ProviderCompletedSendsAll ==
    ASSUME CollectionsFit
    PROVE  ProviderSpec => []CompletedSendsAll
<1>1. ServeInv /\ OrderInv => CompletedSendsAll
  BY AnnouncedStates DEF Told, CompletedSendsAll, OrderInv, OrderAt, WholeAt
<1> QED
  BY <1>1, ServeInvariant, OrderInvariant, PTL

(***************************************************************************)
(* A getter facing an arbitrary provider.                                  *)
(***************************************************************************)
\* Every variable starts with its type.
LEMMA InitTyped == OpenGetterInit => ReaderTypeOK
BY DEF OpenGetterInit, QuicInit, GetterInit, ReaderTypeOK, QuicTypeOK, GetterTypeOK, Steps

\* Whatever the provider does leaves the state well typed.
LEMMA ProviderTyped == ReaderTypeOK /\ ProviderMoves /\ UNCHANGED getterVars => ReaderTypeOK'
<1> SUFFICES ASSUME ReaderTypeOK, ProviderMoves, UNCHANGED getterVars
             PROVE  ReaderTypeOK'
  OBVIOUS
<1>1. GetterTypeOK'
  BY DEF ReaderTypeOK, GetterTypeOK, getterVars
<1>2. ASSUME NEW s \in Streams, NEW it \in ProviderItems, ProviderSends(s, it)
      PROVE  ReaderTypeOK'
  <2>1. down[s] \in Seq(Items) /\ <<it>> \in Seq(Items)
    BY ItemsAssumption DEF ReaderTypeOK, QuicTypeOK
  <2>2. down[s] \o <<it>> \in Seq(Items)
    BY <2>1
  <2>3. down' \in [Streams -> Seq(Items)]
    BY <1>2, <2>1, <2>2 DEF ReaderTypeOK, QuicTypeOK, ProviderSends, SendDown
  <2> QED
    BY <1>1, <1>2, <2>3 DEF ReaderTypeOK, QuicTypeOK, ProviderSends, conns
<1>3. CASE \E s \in Streams : ProviderStops(s)
  BY <1>1, <1>3 DEF ReaderTypeOK, QuicTypeOK, ProviderStops, Directions, conns
<1>4. CASE \E c \in Conns : ProviderCloses(c)
  BY <1>1, <1>4 DEF ReaderTypeOK, QuicTypeOK, ProviderCloses, wire
<1> QED
  BY <1>2, <1>3, <1>4 DEF ProviderMoves

\* Every variable of the getter and of the transport keeps its type; the
\* remaining budget in particular never falls below zero.
THEOREM GetterTypeCorrect == GetterSpec => []ReaderTypeOK
<1>1. ReaderTypeOK /\ [OpenGetterNext]_gvars => ReaderTypeOK'
  <2>1. ReaderTypeOK /\ UNCHANGED gvars => ReaderTypeOK'
    BY DEF ReaderTypeOK, QuicTypeOK, GetterTypeOK, gvars, quicVars, getterVars
  <2> QED
    BY <2>1, QuicTyped, ProviderTyped, GetterTyped DEF OpenGetterNext
<1> QED
  BY InitTyped, <1>1, PTL DEF GetterSpec

\* The budget is an invariant.
LEMMA BudgetInvariant == GetterSpec => []Budget
<1>1. OpenGetterInit => Budget
  BY SizeAssumption DEF OpenGetterInit, GetterInit, Budget, BudgetAt
<1>2. ReaderTypeOK /\ ReaderTypeOK' /\ Budget /\ [OpenGetterNext]_gvars => Budget'
  <2>1. Budget /\ UNCHANGED getterVars => Budget'
    BY DEF Budget, BudgetAt, getterVars
  <2> QED
    BY <2>1, BudgetStep DEF OpenGetterNext, gvars
<1> QED
  BY GetterTypeCorrect, <1>1, <1>2, PTL DEF GetterSpec

\* Whatever sizes a provider announces, the getter hands on at most the
\* total it was told, and it is told at most MAX_DATA_SIZE (get.rs, the
\* three size checks of run).
THEOREM GetterWithinBudget == GetterSpec => []WithinBudget
<1>1. ReaderTypeOK /\ Budget => WithinBudget
  BY SizeAssumption DEF ReaderTypeOK, GetterTypeOK, Budget, BudgetAt, WithinBudget
<1> QED
  BY GetterTypeCorrect, BudgetInvariant, <1>1, PTL

\* What the pc says about the blobs is an invariant.
LEMMA ProgressInvariant == GetterSpec => []BlobProgress
<1>1. OpenGetterInit => BlobProgress
  BY DEF OpenGetterInit, GetterInit, BlobProgress, ProgressAt, BeforeBlobs, InBlobs
<1>2. ReaderTypeOK /\ ReaderTypeOK' /\ BlobProgress /\ [OpenGetterNext]_gvars => BlobProgress'
  <2>1. BlobProgress /\ UNCHANGED getterVars => BlobProgress'
    BY DEF BlobProgress, ProgressAt, ListOf, AtEndOfBlob, Current, getterVars
  <2> QED
    BY <2>1, ProgressStep DEF OpenGetterNext, gvars
<1> QED
  BY GetterTypeCorrect, <1>1, <1>2, PTL DEF GetterSpec

\* run returns Ok only when every blob of the collection was reached, and
\* every blob that on_blob reads to its end was delivered completely, in
\* order and verified - whatever the provider sends, for every collection
\* and every set of blobs on_blob gives up early (get.rs, the loop of run).
THEOREM GetterDiligent == GetterSpec => []DiligentComplete
<1>1. BlobProgress => DiligentComplete
  BY DEF BlobProgress, ProgressAt, DiligentComplete
<1> QED
  BY ProgressInvariant, <1>1, PTL

\* If on_blob reads every blob to its end, Ok means the whole collection.
THEOREM GetterComplete ==
    ASSUME LazyBlobs = {}
    PROVE  GetterSpec => []OkImpliesComplete
<1>1. DiligentComplete => OkImpliesComplete
  BY DEF DiligentComplete, OkImpliesComplete, Complete
<1> QED
  BY GetterDiligent, <1>1, PTL


(***************************************************************************)
(* The getter implements Fetch, the promise it makes to its caller: every  *)
(* step of OpenGetter is a step of Fetch or changes nothing the caller can *)
(* see.                                                                    *)
(***************************************************************************)

\* What the caller sees of the getter on s: the mapping of the refinement.
ResultAt(s) == IF gpc[s] = "ok" THEN "ok"
               ELSE IF Returned(s) THEN "failed" ELSE "pending"
BlobPartAt(s) == IF gpc[s] \in {"onblob", "check"} THEN pos[s] ELSE 0

\* The caller of s sees the same before and after.
Unseen(s) == ResultAt(s)' = ResultAt(s) /\ got'[s] = got[s] /\ BlobPartAt(s)' = BlobPartAt(s)

\* What the caller of s sees of each step of Fetch.
SeesSegment(s) ==
    /\ ResultAt(s) = "pending" /\ ResultAt(s)' = "pending"
    /\ Want[s] \in Collections /\ Len(got[s]) < Len(ListOf(s))
    /\ BlobPartAt(s) < Segments[Current(s)]
    /\ got'[s] = got[s] /\ BlobPartAt(s)' = BlobPartAt(s) + 1
SeesBlob(s) ==
    /\ ResultAt(s) = "pending" /\ ResultAt(s)' = "pending"
    /\ Want[s] \in Collections /\ Len(got[s]) < Len(ListOf(s))
    /\ BlobPartAt(s) = Segments[Current(s)] \/ Current(s) \in LazyBlobs
    /\ got'[s] = Append(got[s], BlobPartAt(s)) /\ BlobPartAt(s)' = 0
SeesOk(s) ==
    /\ ResultAt(s) = "pending" /\ ResultAt(s)' = "ok"
    /\ Want[s] \in Collections /\ Len(got[s]) = Len(ListOf(s))
    /\ got'[s] = got[s] /\ BlobPartAt(s)' = BlobPartAt(s)
SeesFailure(s) ==
    /\ ResultAt(s) = "pending" /\ ResultAt(s)' = "failed"
    /\ got'[s] = got[s] /\ BlobPartAt(s)' = 0

Sees(s) == Unseen(s) \/ SeesSegment(s) \/ SeesBlob(s) \/ SeesOk(s) \/ SeesFailure(s)

\* Nothing of what any caller sees changes: a stuttering step of Fetch.
LEMMA UnseenStutters ==
    ASSUME ReaderTypeOK, ReaderTypeOK', \A s \in Streams : Unseen(s)
    PROVE  UNCHANGED F!fetchVars
<1>1. got' = got
  BY DEF ReaderTypeOK, GetterTypeOK, Unseen
<1>2. \A s \in Streams : ResultAt(s)' = ResultAt(s) /\ BlobPartAt(s)' = BlobPartAt(s)
  BY DEF Unseen
<1> QED
  BY <1>1, <1>2 DEF F!fetchVars, ResultAt, BlobPartAt

\* What one caller sees, and no other does, is a step of Fetch.
LEMMA SeenIsFetch ==
    ASSUME ReaderTypeOK, ReaderTypeOK', NEW s \in Streams, Sees(s),
           \A t \in Streams \ {s} : Unseen(t)
    PROVE  [F!Next]_(F!fetchVars)
<1> DEFINE R == [t \in Streams |-> ResultAt(t)]
           P == [t \in Streams |-> BlobPartAt(t)]
<1>1. /\ got \in [Streams -> Seq(Nat)] /\ got' \in [Streams -> Seq(Nat)]
      /\ \A t \in Streams \ {s} : got'[t] = got[t]
  BY DEF ReaderTypeOK, GetterTypeOK, Unseen
<1>2. /\ R' = [R EXCEPT ![s] = ResultAt(s)']
      /\ P' = [P EXCEPT ![s] = BlobPartAt(s)']
  BY DEF Unseen
<1>3. got' = [got EXCEPT ![s] = got'[s]]
  BY <1>1
<1>4. R[s] = ResultAt(s) /\ P[s] = BlobPartAt(s)
  OBVIOUS
<1>r. R = [t \in Streams |-> R[t]] /\ P = [t \in Streams |-> P[t]]
  OBVIOUS
<1>n. (\E t \in Streams : F!DeliverSegment(t) \/ F!CompleteBlob(t) \/ F!Succeed(t) \/ F!Fail(t))
      => F!Next
  BY DEF F!Next
<1>5. CASE Unseen(s)
  BY <1>5, UnseenStutters
<1>6. CASE SeesSegment(s)
  <2>1. R' = R /\ got' = got /\ P' = [P EXCEPT ![s] = @ + 1]
    <3>1. /\ ResultAt(s)' = R[s] /\ BlobPartAt(s)' = P[s] + 1 /\ got'[s] = got[s]
      BY <1>4, <1>6 DEF SeesSegment
    <3> HIDE DEF R, P
    <3>2. got' = got
      BY <1>1, <1>3, <3>1
    <3>3. P' = [P EXCEPT ![s] = @ + 1]
      BY <1>2, <3>1, Zenon
    <3>4. R' = R
      BY <1>2, <3>1, <1>r
    <3> QED BY <3>2, <3>3, <3>4
  <2>2. F!DeliverSegment(s)
    BY <1>4, <1>6, <2>1 DEF SeesSegment, F!DeliverSegment, F!Expecting, F!NextSize,
       F!NextHash, ResultAt, BlobPartAt, ListOf, Current
  <2> QED
    BY <1>n, <2>2
<1>7. CASE SeesBlob(s)
  <2>1. R' = R /\ got' = [got EXCEPT ![s] = Append(@, P[s])] /\ P' = [P EXCEPT ![s] = 0]
    <3>1. /\ ResultAt(s)' = R[s] /\ BlobPartAt(s)' = 0 /\ got'[s] = Append(got[s], P[s])
      BY <1>4, <1>7 DEF SeesBlob
    <3> HIDE DEF R, P
    <3>2. got' = [got EXCEPT ![s] = Append(@, P[s])]
      BY <1>3, <3>1, Zenon
    <3>3. P' = [P EXCEPT ![s] = 0]
      BY <1>2, <3>1, Zenon
    <3>4. R' = R
      BY <1>2, <3>1, <1>r
    <3> QED BY <3>2, <3>3, <3>4
  <2>2. F!CompleteBlob(s)
    BY <1>4, <1>7, <2>1 DEF SeesBlob, F!CompleteBlob, F!Expecting, F!NextSize,
       F!NextHash, ResultAt, BlobPartAt, ListOf, Current
  <2> QED
    BY <1>n, <2>2
<1>8. CASE SeesOk(s)
  <2>1. R' = [R EXCEPT ![s] = "ok"] /\ got' = got /\ P' = P
    <3>1. /\ ResultAt(s)' = "ok" /\ BlobPartAt(s)' = P[s] /\ got'[s] = got[s]
      BY <1>4, <1>8 DEF SeesOk
    <3> HIDE DEF R, P
    <3>2. got' = got
      BY <1>1, <1>3, <3>1
    <3>3. P' = P
      BY <1>2, <3>1, <1>r
    <3>4. R' = [R EXCEPT ![s] = "ok"]
      BY <1>2, <3>1, Zenon
    <3> QED BY <3>2, <3>3, <3>4
  <2>2. F!Succeed(s)
    BY <1>4, <1>8, <2>1 DEF SeesOk, F!Succeed, ResultAt, BlobPartAt, ListOf
  <2> QED
    BY <1>n, <2>2
<1>9. CASE SeesFailure(s)
  <2>1. R' = [R EXCEPT ![s] = "failed"] /\ got' = got /\ P' = [P EXCEPT ![s] = 0]
    BY <1>1, <1>2, <1>3, <1>4, <1>9 DEF SeesFailure
  <2>2. F!Fail(s)
    BY <1>4, <1>9, <2>1 DEF SeesFailure, F!Fail, ResultAt, BlobPartAt
  <2> QED
    BY <1>n, <2>2
<1> QED
  BY <1>5, <1>6, <1>7, <1>8, <1>9 DEF Sees

\* A return of run other than Ok: the caller sees a failure.
LEMMA ExitIsFailure ==
    ASSUME ReaderTypeOK, NEW s \in Streams, gpc[s] \in Steps, NEW o \in Outcomes \ {"ok"},
           (Exit(s, o) /\ OnlyExit(s)) \/ ExitReading(s, o)
    PROVE  SeesFailure(s)
<1>1. gpc'[s] = o /\ got' = got
  BY DEF ReaderTypeOK, GetterTypeOK, Exit, OnlyExit, ExitReading, To, counts
<1> QED
  BY <1>1 DEF SeesFailure, ResultAt, BlobPartAt, Returned, Steps, Outcomes

\* Every step of the getter on s is one its caller may see.
LEMMA StepSeen ==
    ASSUME ReaderTypeOK, ReaderTypeOK', BlobProgress, NEW s \in Streams,
           Setup(s) \/ GetterStep(s) \/ CallbackFails(s) \/ Cancel(s)
    PROVE  Sees(s)
<1> USE DEF Steps, Outcomes
<1>a. ProgressAt(s)
  BY DEF BlobProgress
<1>b. GetterTypeOK /\ GetterTypeOK'
  BY DEF ReaderTypeOK
<1>d. ASSUME gpc[s] \in Steps, NEW o \in Outcomes \ {"ok"},
             (Exit(s, o) /\ OnlyExit(s)) \/ ExitReading(s, o)
      PROVE  Sees(s)
  BY <1>d, ExitIsFailure DEF Sees
<1>e. ASSUME NEW p \in Steps, NEW q \in Steps, gpc[s] = p, To(s, q), got' = got,
             pos' = pos, p \in {"onblob", "check"} <=> q \in {"onblob", "check"}
      PROVE  Sees(s)
  <2>1. gpc'[s] = q
    BY <1>b, <1>e DEF To, GetterTypeOK
  <2> QED
    BY <1>e, <2>1 DEF Sees, Unseen, ResultAt, BlobPartAt, Returned
<1>1. CASE SetupFails(s) \/ SendFails(s) \/ EmptyRefused(s) \/ ReadFails(s)
           \/ CallbackFails(s) \/ Cancel(s)
  BY <1>1, <1>d, GetterAssumption DEF SetupFails, SendFails, EmptyRefused, ReadFails,
     CallbackFails, Cancel, At
<1>2. CASE Setup(s) \/ OpenBi(s) \/ SendHandshake(s) \/ SendRequest(s) \/ Finished(s)
           \/ OnBlobReturns(s)
  BY <1>2, <1>e DEF Setup, OpenBi, SendHandshake, SendRequest, Finished, OnBlobReturns,
     OnlySendUp, At, counts
<1>3. CASE OnCollection(s)
  BY <1>3, <1>e DEF OnCollection, LoopHead, At, counts
<1>4. CASE ReadResponse(s)
  <2>1. CASE To(s, "coll") /\ UNCHANGED got
    <3>1. gpc'[s] = "coll" /\ gpc[s] = "response"
      BY <1>4, <1>b, <2>1 DEF ReadResponse, At, To, GetterTypeOK
    <3> QED
      BY <2>1, <3>1 DEF Sees, Unseen, ResultAt, BlobPartAt, Returned
  <2> QED
    BY <1>4, <1>d, <2>1 DEF ReadResponse, At
<1>5. CASE ReadCollection(s)
  <2>1. CASE UNCHANGED <<gpc, got>>
    BY <1>5, <2>1 DEF ReadCollection, At, Sees, Unseen, ResultAt, BlobPartAt, Returned
  <2>2. CASE To(s, "oncollection") /\ UNCHANGED counts
    BY <1>5, <1>e, <2>2 DEF ReadCollection, At, counts
  <2> QED
    BY <1>5, <1>d, <2>1, <2>2 DEF ReadCollection, At
<1>6. CASE ReadBlobResponse(s)
  <2>1. CASE To(s, "size") /\ UNCHANGED counts
    BY <1>6, <1>e, <2>1 DEF ReadBlobResponse, At, counts
  <2> QED
    BY <1>6, <1>d, <2>1 DEF ReadBlobResponse, At
<1>7. CASE ReadSize(s)
  <2>1. CASE pos' = [pos EXCEPT ![s] = 0] /\ To(s, "onblob") /\ UNCHANGED got
    <3>1. gpc'[s] = "onblob" /\ gpc[s] = "size" /\ pos'[s] = 0
      BY <1>7, <1>b, <2>1 DEF ReadSize, At, To, GetterTypeOK
    <3> QED
      BY <2>1, <3>1 DEF Sees, Unseen, ResultAt, BlobPartAt, Returned
  <2> QED
    BY <1>7, <1>d, <2>1 DEF ReadSize, At
<1>8. CASE ReadSegment(s)
  <2>1. CASE /\ Verifies(s, NextItem(s)) /\ pos' = [pos EXCEPT ![s] = @ + 1]
             /\ UNCHANGED <<gpc, got>>
    <3>1. gpc[s] = "onblob" /\ gpc'[s] = "onblob" /\ pos'[s] = pos[s] + 1
      BY <1>8, <1>b, <2>1 DEF ReadSegment, At, GetterTypeOK
    <3>2. pos[s] < Segments[Current(s)]
      BY <2>1 DEF Verifies
    <3>3. Want[s] \in Collections /\ Len(got[s]) < Len(ListOf(s))
      BY <1>a, <3>1 DEF ProgressAt, InBlobs
    <3> QED
      BY <2>1, <3>1, <3>2, <3>3 DEF Sees, SeesSegment, ResultAt, BlobPartAt, Returned
  <2> QED
    BY <1>8, <1>d, <2>1 DEF ReadSegment, At
<1>9. CASE At(s, "check") /\ NextBlob(s)
  <2>1. gpc[s] = "check" /\ gpc'[s] \in {"blobres", "end"}
    BY <1>9, <1>b DEF At, NextBlob, To, LoopHead, GetterTypeOK
  <2>2. got'[s] = Append(got[s], pos[s])
    BY <1>9, <1>b DEF NextBlob, GetterTypeOK
  <2>3. /\ Want[s] \in Collections /\ Len(got[s]) < Len(ListOf(s))
        /\ pos[s] = Segments[Current(s)] \/ Current(s) \in LazyBlobs
    BY <1>a, <2>1 DEF ProgressAt, InBlobs, AtEndOfBlob
  <2> QED
    BY <2>1, <2>2, <2>3 DEF Sees, SeesBlob, ResultAt, BlobPartAt, Returned
<1>10. CASE CheckAtEnd(s) \/ CheckFails(s)
  BY <1>9, <1>10 DEF CheckAtEnd, CheckFails
<1>11. CASE CheckReads(s)
  BY <1>9, <1>11, <1>d DEF CheckReads, At
<1>12. CASE ReadEnd(s)
  <2>1. gpc[s] = "end" /\ gpc'[s] = "ok" /\ got' = got
    BY <1>12, <1>b DEF ReadEnd, Exit, At, To, counts, GetterTypeOK
  <2>2. Want[s] \in Collections /\ Len(got[s]) = Len(ListOf(s))
    BY <1>a, <2>1 DEF ProgressAt
  <2> QED
    BY <2>1, <2>2 DEF Sees, SeesOk, ResultAt, BlobPartAt, Returned
<1> QED
  BY <1>1, <1>2, <1>3, <1>4, <1>5, <1>6, <1>7, <1>8, <1>10, <1>11, <1>12
  DEF GetterStep

\* The getter implements Fetch against every provider: the caller gets the
\* segments of each blob once, in order and verified, moves to the next blob
\* only when one is complete or it gave it up itself, and is told Ok only
\* after the last one (get.rs, run and its caller's callbacks).
THEOREM GetterImplementsFetch == GetterSpec => ImplementsFetch
<1>1. OpenGetterInit => F!Init
  BY DEF OpenGetterInit, GetterInit, F!Init, Returned, Outcomes
<1>2. ReaderTypeOK /\ ReaderTypeOK' /\ BlobProgress /\ [OpenGetterNext]_gvars
      => [F!Next]_(F!fetchVars)
  <2> SUFFICES ASSUME ReaderTypeOK, ReaderTypeOK', BlobProgress, [OpenGetterNext]_gvars
               PROVE  [F!Next]_(F!fetchVars)
    OBVIOUS
  <2>1. CASE UNCHANGED getterVars
    BY <2>1, UnseenStutters DEF getterVars, Unseen, ResultAt, BlobPartAt, Returned
  <2>2. CASE GetterNext
    <3>1. PICK s \in Streams : Setup(s) \/ GetterStep(s) \/ CallbackFails(s) \/ Cancel(s)
      BY <2>2 DEF GetterNext
    <3>2. Sees(s)
      BY <3>1, StepSeen
    <3>3. \A t \in Streams \ {s} : Unseen(t)
      BY <3>1, OthersSame DEF Same, Unseen, ResultAt, BlobPartAt, Returned
    <3> QED
      BY <3>2, <3>3, SeenIsFetch
  <2> QED
    BY <2>1, <2>2 DEF OpenGetterNext, gvars
<1>3. GetterSpec => [][F!Next]_(F!fetchVars)
  BY <1>2, GetterTypeCorrect, ProgressInvariant, PTL DEF GetterSpec
<1> QED
  BY <1>1, <1>3, PTL DEF GetterSpec, ImplementsFetch, F!Spec
=============================================================================
