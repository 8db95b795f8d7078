---------------------------- MODULE GetterProofs ----------------------------
(***************************************************************************)
(* What every step of a getter keeps, for every database, every number of  *)
(* getters and everything a provider can send: the types, the budget and   *)
(* the progress through the blobs.  OpenProofs draws the theorems about a  *)
(* getter facing an arbitrary provider, TransferProofs those about one     *)
(* facing the provider of this repository.                                 *)
(***************************************************************************)
EXTENDS Getter, TLAPS

\* Items and frames: the facts about their types that the proofs use.
LEMMA ItemTypes ==
    /\ Fin \in Items
    /\ \A it \in Items : it.t \in {"foundcollection", "size"} => it.n \in Nat
BY DEF Items, Fin

\* The frames a getter sends are frames.
LEMMA FrameTypes ==
    /\ Fin \in Frames
    /\ \A h \in Hash : Request(h) \in Frames
    /\ \A t \in Tokens : Handshake(VERSION, t) \in Frames
BY DEF Frames, Fin, Request, Handshake

\* What a reader takes off a stream is an item.
LEMMA NextItemType ==
    ASSUME NEW s \in Streams, QuicTypeOK, CanReadDown(s)
    PROVE  NextItem(s) \in Items
<1>1. down[s] \in Seq(Items) /\ downRd[s] \in Nat
  BY DEF QuicTypeOK
<1>2. downRd[s] + 1 \in 1..Len(down[s])
  BY <1>1 DEF CanReadDown
<1> QED
  BY <1>1, <1>2 DEF NextItem

(***************************************************************************)
(* Type correctness.                                                       *)
(***************************************************************************)
\* Every step of the transport leaves the state well typed.
LEMMA QuicTyped == ReaderTypeOK /\ QuicNext /\ UNCHANGED getterVars => ReaderTypeOK'
<1> SUFFICES ASSUME ReaderTypeOK, QuicNext, UNCHANGED getterVars
             PROVE  ReaderTypeOK'
  OBVIOUS
<1>1. GetterTypeOK'
  BY DEF ReaderTypeOK, GetterTypeOK, getterVars
<1>2. CASE \E s \in Streams, d \in Directions : Ack(s, d)
  BY <1>1, <1>2 DEF ReaderTypeOK, QuicTypeOK, Ack, Directions, conns
<1>3. CASE \E c \in Conns : CloseReachesProvider(c)
  BY <1>1, <1>3 DEF ReaderTypeOK, QuicTypeOK, CloseReachesProvider, wire
<1>4. CASE \E c \in Conns : CloseReachesClient(c)
  BY <1>1, <1>4 DEF ReaderTypeOK, QuicTypeOK, CloseReachesClient, wire
<1>5. CASE \E c \in Conns : NetworkFails(c)
  BY <1>1, <1>5 DEF ReaderTypeOK, QuicTypeOK, NetworkFails, wire
<1> QED
  BY <1>2, <1>3, <1>4, <1>5 DEF QuicNext, Deliver

\* run returns: only the pc and the client's end of the connection change.
LEMMA ExitTyped ==
    ASSUME ReaderTypeOK, NEW s \in Streams, NEW o \in Outcomes, Exit(s, o), OnlyExit(s)
    PROVE  ReaderTypeOK'
BY QuicAssumption
DEF ReaderTypeOK, QuicTypeOK, GetterTypeOK, Exit, OnlyExit, To, DropConnection, wire, counts

\* A read that makes run return.
LEMMA ExitReadingTyped ==
    ASSUME ReaderTypeOK, NEW s \in Streams, NEW o \in Outcomes, ReadItem(s), ExitReading(s, o)
    PROVE  ReaderTypeOK'
<1>1. downRd' \in [Streams -> Nat]
  BY DEF ReaderTypeOK, QuicTypeOK, ReadItem
<1>2. cside' \in [Conns -> {"none", "connecting", "open", "down"}]
  BY QuicAssumption DEF ReaderTypeOK, QuicTypeOK, ExitReading, Exit, DropConnection
<1>3. gpc' \in [Streams -> Steps \cup Outcomes]
  BY DEF ReaderTypeOK, GetterTypeOK, ExitReading, Exit, To
<1> QED
  BY <1>1, <1>2, <1>3 DEF ReaderTypeOK, QuicTypeOK, GetterTypeOK, ExitReading, counts

\* A read after which run goes on leaves the transport typed.
LEMMA ReadTyped ==
    ASSUME ReaderTypeOK, NEW s \in Streams, ReadItem(s), OnlyReadDown
    PROVE  QuicTypeOK'
BY DEF ReaderTypeOK, QuicTypeOK, ReadItem, OnlyReadDown, conns

\* The steps that connect and send keep the types.
LEMMA SendTyped ==
    ASSUME ReaderTypeOK, NEW s \in Streams, NEW q \in Seq(Frames), SendUp(s, q), OnlySendUp,
           NEW pc \in Steps, To(s, pc)
    PROVE  ReaderTypeOK'
<1>1. up[s] \in Seq(Frames)
  BY DEF ReaderTypeOK, QuicTypeOK
<1>2. up[s] \o q \in Seq(Frames)
  BY <1>1
<1>3. up' \in [Streams -> Seq(Frames)]
  BY <1>1, <1>2 DEF ReaderTypeOK, QuicTypeOK, SendUp
<1> QED
  BY <1>3 DEF ReaderTypeOK, QuicTypeOK, GetterTypeOK, OnlySendUp, To, conns, counts

\* Every step of a getter keeps the types.
LEMMA GetterTyped == ReaderTypeOK /\ GetterNext => ReaderTypeOK'
<1> SUFFICES ASSUME ReaderTypeOK, NEW s \in Streams,
                    Setup(s) \/ GetterStep(s) \/ CallbackFails(s) \/ Cancel(s)
             PROVE  ReaderTypeOK'
  BY DEF GetterNext
<1> USE DEF Steps, Outcomes
<1>a. LoopHead(s, 0) \in Steps /\ LoopHead(s, Len(got[s]) + 1) \in Steps
  BY DEF LoopHead
<1>b. QuicTypeOK /\ GetterTypeOK
  BY DEF ReaderTypeOK
<1>1. CASE Setup(s)
  BY <1>1, QuicAssumption
  DEF ReaderTypeOK, QuicTypeOK, GetterTypeOK, Setup, Connect, At, To, wire, counts
<1>2. CASE OpenBi(s)
  BY <1>2, QuicAssumption
  DEF ReaderTypeOK, QuicTypeOK, GetterTypeOK, OpenBi, Establish, At, To, wire, counts
<1>3. CASE SetupFails(s)
  BY <1>3, ExitTyped DEF SetupFails
<1>4. CASE SendHandshake(s)
  <2>1. <<Handshake(VERSION, TokenOf[s])>> \in Seq(Frames)
    BY FrameTypes, GetterAssumption
  <2> QED
    BY <1>4, <2>1, SendTyped DEF SendHandshake
<1>5. CASE SendRequest(s)
  <2>1. <<Request(Want[s]), Fin>> \in Seq(Frames)
    BY FrameTypes, GetterAssumption
  <2> QED
    BY <1>5, <2>1, SendTyped DEF SendRequest
<1>6. CASE Finished(s)
  BY <1>6 DEF ReaderTypeOK, QuicTypeOK, GetterTypeOK, Finished, To, quicVars, counts
<1>7. CASE SendFails(s)
  BY <1>7, ExitTyped DEF SendFails
<1>8. CASE ReadResponse(s)
  <2>1. ReadItem(s)
    BY <1>8 DEF ReadResponse
  <2>2. NextItem(s) \in Items
    BY <1>b, <2>1, NextItemType DEF ReadItem
  <2>3. CASE \E o \in Outcomes : ExitReading(s, o)
    BY <2>1, <2>3, ExitReadingTyped
  <2>4. CASE /\ NextItem(s).t = "foundcollection"
             /\ total' = [total EXCEPT ![s] = NextItem(s).n]
             /\ rem' = [rem EXCEPT ![s] = NextItem(s).n]
             /\ pos' = [pos EXCEPT ![s] = 0]
             /\ To(s, "coll") /\ OnlyReadDown /\ UNCHANGED <<hdr, got, delivered>>
    <3>1. NextItem(s).n \in Nat
      BY <2>2, <2>4, ItemTypes
    <3>2. QuicTypeOK'
      BY <2>1, <2>4, ReadTyped
    <3>3. GetterTypeOK'
      BY <1>b, <2>4, <3>1 DEF GetterTypeOK, To
    <3> QED
      BY <3>2, <3>3 DEF ReaderTypeOK
  <2> QED
    BY <1>8, <2>3, <2>4 DEF ReadResponse
<1>9. CASE ReadCollection(s)
  <2>1. ReadItem(s)
    BY <1>9 DEF ReadCollection
  <2>2. CASE \E o \in Outcomes : ExitReading(s, o)
    BY <2>1, <2>2, ExitReadingTyped
  <2>3. CASE OnlyReadDown /\ pos' = [pos EXCEPT ![s] = @ + 1]
             /\ UNCHANGED <<gpc, total, rem, hdr, got, delivered>>
    <3>1. QuicTypeOK'
      BY <2>1, <2>3, ReadTyped
    <3> QED
      BY <1>b, <2>3, <3>1 DEF ReaderTypeOK, GetterTypeOK
  <2>4. CASE OnlyReadDown /\ To(s, "oncollection") /\ UNCHANGED counts
    <3>1. QuicTypeOK'
      BY <2>1, <2>4, ReadTyped
    <3> QED
      BY <1>b, <2>4, <3>1 DEF ReaderTypeOK, GetterTypeOK, To, counts
  <2> QED
    BY <1>9, <2>2, <2>3, <2>4 DEF ReadCollection
<1>10. CASE OnCollection(s)
  BY <1>10, <1>a DEF ReaderTypeOK, QuicTypeOK, GetterTypeOK, OnCollection, To, quicVars, counts
<1>11. CASE ReadBlobResponse(s)
  <2>1. ReadItem(s)
    BY <1>11 DEF ReadBlobResponse
  <2>2. CASE \E o \in Outcomes : ExitReading(s, o)
    BY <2>1, <2>2, ExitReadingTyped
  <2>3. CASE OnlyReadDown /\ To(s, "size") /\ UNCHANGED counts
    <3>1. QuicTypeOK'
      BY <2>1, <2>3, ReadTyped
    <3> QED
      BY <1>b, <2>3, <3>1 DEF ReaderTypeOK, GetterTypeOK, To, counts
  <2> QED
    BY <1>11, <2>2, <2>3 DEF ReadBlobResponse
<1>12. CASE ReadSize(s)
  <2>1. ReadItem(s)
    BY <1>12 DEF ReadSize
  <2>2. NextItem(s) \in Items
    BY <1>b, <2>1, NextItemType DEF ReadItem
  <2>3. CASE \E o \in Outcomes : ExitReading(s, o)
    BY <2>1, <2>3, ExitReadingTyped
  <2>4. CASE /\ NextItem(s).t = "size" /\ NextItem(s).n <= rem[s]
             /\ rem' = [rem EXCEPT ![s] = @ - NextItem(s).n]
             /\ hdr' = [hdr EXCEPT ![s] = NextItem(s).n]
             /\ pos' = [pos EXCEPT ![s] = 0]
             /\ To(s, "onblob") /\ OnlyReadDown /\ UNCHANGED <<total, got, delivered>>
    <3>1. NextItem(s).n \in Nat
      BY <2>2, <2>4, ItemTypes
    <3>2. QuicTypeOK'
      BY <2>1, <2>4, ReadTyped
    <3>3. rem[s] - NextItem(s).n \in Nat
      BY <1>b, <2>4, <3>1 DEF GetterTypeOK
    <3>4. GetterTypeOK'
      BY <1>b, <2>4, <3>1, <3>3 DEF GetterTypeOK, To
    <3> QED
      BY <3>2, <3>4 DEF ReaderTypeOK
  <2> QED
    BY <1>12, <2>3, <2>4 DEF ReadSize
<1>13. CASE ReadSegment(s)
  <2>1. ReadItem(s)
    BY <1>13 DEF ReadSegment
  <2>2. CASE \E o \in Outcomes : ExitReading(s, o)
    BY <2>1, <2>2, ExitReadingTyped
  <2>3. CASE OnlyReadDown /\ pos' = [pos EXCEPT ![s] = @ + 1]
             /\ delivered' = [delivered EXCEPT ![s] = @ + 1]
             /\ UNCHANGED <<gpc, total, rem, hdr, got>>
    <3>1. QuicTypeOK'
      BY <2>1, <2>3, ReadTyped
    <3> QED
      BY <1>b, <2>3, <3>1 DEF ReaderTypeOK, GetterTypeOK
  <2> QED
    BY <1>13, <2>2, <2>3 DEF ReadSegment
<1>14. CASE EmptyRefused(s)
  BY <1>14, ExitTyped DEF EmptyRefused
<1>15. CASE OnBlobReturns(s)
  BY <1>15 DEF ReaderTypeOK, QuicTypeOK, GetterTypeOK, OnBlobReturns, To, quicVars, counts
<1>16. ASSUME NextBlob(s)
       PROVE  GetterTypeOK'
  <2>1. got[s] \in Seq(Nat) /\ pos[s] \in Nat
    BY <1>b DEF GetterTypeOK
  <2>2. Append(got[s], pos[s]) \in Seq(Nat)
    BY <2>1
  <2> QED
    BY <1>16, <1>a, <1>b, <2>2 DEF GetterTypeOK, NextBlob, To
<1>17. CASE CheckAtEnd(s) \/ CheckFails(s)
  BY <1>16, <1>17 DEF ReaderTypeOK, QuicTypeOK, CheckAtEnd, CheckFails, quicVars
<1>18. CASE CheckReads(s)
  <2>1. ReadItem(s)
    BY <1>18 DEF CheckReads
  <2>2. CASE \E o \in Outcomes : ExitReading(s, o)
    BY <2>1, <2>2, ExitReadingTyped
  <2>3. CASE NextBlob(s) /\ OnlyReadDown
    BY <1>16, <2>1, <2>3, ReadTyped DEF ReaderTypeOK
  <2> QED
    BY <1>18, <2>2, <2>3 DEF CheckReads
<1>19. CASE ReadEnd(s)
  <2>1. downRd' \in [Streams -> Nat]
    BY <1>b, <1>19 DEF ReadEnd, ReadItem, QuicTypeOK
  <2>2. cside' \in [Conns -> {"none", "connecting", "open", "down"}]
    BY <1>b, <1>19, QuicAssumption DEF ReadEnd, Exit, DropConnection, QuicTypeOK
  <2>3. stopped' \in [Streams -> SUBSET Directions]
    <3>1. stopped' = stopped \/ stopped' = [stopped EXCEPT ![s] = @ \cup {"down"}]
      BY <1>19 DEF ReadEnd
    <3>2. stopped[s] \cup {"down"} \in SUBSET Directions
      BY <1>b DEF QuicTypeOK, Directions
    <3> QED
      BY <1>b, <3>1, <3>2 DEF QuicTypeOK
  <2>4. gpc' \in [Streams -> Steps \cup Outcomes]
    BY <1>b, <1>19 DEF ReadEnd, Exit, To, GetterTypeOK
  <2> QED
    BY <1>b, <1>19, <2>1, <2>2, <2>3, <2>4
    DEF ReaderTypeOK, QuicTypeOK, GetterTypeOK, ReadEnd, counts
<1>20. CASE ReadFails(s)
  BY <1>20, ExitTyped DEF ReadFails
<1>21. CASE CallbackFails(s)
  BY <1>21, ExitTyped DEF CallbackFails
<1>22. CASE Cancel(s)
  BY <1>22, ExitTyped DEF Cancel
<1> QED
  BY <1>1, <1>2, <1>3, <1>4, <1>5, <1>6, <1>7, <1>8, <1>9, <1>10, <1>11, <1>12,
     <1>13, <1>14, <1>15, <1>17, <1>18, <1>19, <1>20, <1>21, <1>22
  DEF GetterStep

\* What an action of the getter on s leaves alone: the other getters.
Same(t) == UNCHANGED <<gpc[t], total[t], rem[t], hdr[t], pos[t], got[t], delivered[t]>>

\* A way of run to return leaves all its numbers as they are.
Exits(s) == gpc'[s] \in Outcomes /\ UNCHANGED counts

\* Both forms of a return are exits in this sense.
LEMMA ExitIsExit ==
    ASSUME ReaderTypeOK, NEW s \in Streams, NEW o \in Outcomes,
           (Exit(s, o) /\ OnlyExit(s)) \/ ExitReading(s, o)
    PROVE  Exits(s)
BY DEF ReaderTypeOK, GetterTypeOK, Exits, Exit, OnlyExit, ExitReading, To, counts

\* A step of one getter leaves the numbers of the others alone.
LEMMA OthersSame ==
    ASSUME ReaderTypeOK, NEW s \in Streams, NEW t \in Streams, s # t,
           Setup(s) \/ GetterStep(s) \/ CallbackFails(s) \/ Cancel(s)
    PROVE  Same(t)
<1> USE DEF ReaderTypeOK, GetterTypeOK, Same, To, counts
<1>1. ASSUME NEW o, Exit(s, o), UNCHANGED counts PROVE Same(t)
  BY <1>1 DEF Exit
<1>2. ASSUME NEW o, ExitReading(s, o) PROVE Same(t)
  BY <1>2 DEF Exit, ExitReading
<1>3. CASE SetupFails(s) \/ SendFails(s) \/ EmptyRefused(s) \/ ReadFails(s)
           \/ CallbackFails(s) \/ Cancel(s) \/ ReadEnd(s)
  BY <1>1, <1>3 DEF SetupFails, SendFails, EmptyRefused, ReadFails, CallbackFails,
     Cancel, ReadEnd, OnlyExit
<1>4. CASE Setup(s) \/ OpenBi(s) \/ SendHandshake(s) \/ SendRequest(s) \/ Finished(s)
           \/ OnCollection(s) \/ OnBlobReturns(s)
  BY <1>4 DEF Setup, OpenBi, SendHandshake, SendRequest, Finished, OnCollection,
     OnBlobReturns, OnlySendUp
<1>5. CASE ReadResponse(s)
  BY <1>2, <1>5 DEF ReadResponse
<1>6. CASE ReadCollection(s)
  BY <1>2, <1>6 DEF ReadCollection
<1>7. CASE ReadBlobResponse(s)
  BY <1>2, <1>7 DEF ReadBlobResponse
<1>8. CASE ReadSize(s)
  BY <1>2, <1>8 DEF ReadSize
<1>9. CASE ReadSegment(s)
  BY <1>2, <1>9 DEF ReadSegment
<1>10. CASE CheckAtEnd(s) \/ CheckFails(s)
  BY <1>10 DEF CheckAtEnd, CheckFails, NextBlob
<1>11. CASE CheckReads(s)
  BY <1>2, <1>11 DEF CheckReads, NextBlob
<1> QED
  BY <1>3, <1>4, <1>5, <1>6, <1>7, <1>8, <1>9, <1>10, <1>11 DEF GetterStep

(***************************************************************************)
(* The budget.  What was handed on plus what the current header still      *)
(* allows fits into what the accepted headers took from the announced      *)
(* total.                                                                  *)
(***************************************************************************)
BudgetAt(s) ==
    /\ total[s] <= MAX_DATA_SIZE
    /\ rem[s] <= total[s]
    /\ delivered[s] + rem[s] <= total[s]
    /\ gpc[s] \in {"onblob", "check"} =>
         /\ pos[s] <= hdr[s]
         /\ delivered[s] + rem[s] + (hdr[s] - pos[s]) <= total[s]
    /\ gpc[s] \in {"idle", "connecting", "connected", "request", "finish", "response"}
         => delivered[s] = 0

Budget == \A s \in Streams : BudgetAt(s)

\* A step that leaves the numbers alone and starts no blob keeps the budget.
LEMMA BudgetKept ==
    ASSUME NEW s \in Streams, BudgetAt(s),
           UNCHANGED <<total[s], rem[s], hdr[s], pos[s], delivered[s]>>,
           \/ gpc'[s] = gpc[s]
           \/ gpc[s] = "onblob" /\ gpc'[s] = "check"
           \/ /\ gpc'[s] \notin {"onblob", "check", "idle"}
              /\ \/ gpc[s] \in {"idle", "connecting", "connected", "request", "finish"}
                 \/ gpc'[s] \notin {"connecting", "connected", "request", "finish",
                                    "response"}
    PROVE  BudgetAt(s)'
BY DEF BudgetAt

\* Every step of a getter keeps the budget.
LEMMA BudgetStep == ReaderTypeOK /\ ReaderTypeOK' /\ Budget /\ GetterNext => Budget'
<1> SUFFICES ASSUME ReaderTypeOK, ReaderTypeOK', Budget, NEW s \in Streams, NEW t \in Streams,
                    Setup(s) \/ GetterStep(s) \/ CallbackFails(s) \/ Cancel(s)
             PROVE  BudgetAt(t)'
  BY DEF GetterNext, Budget
<1>a. BudgetAt(s) /\ BudgetAt(t)
  BY DEF Budget
<1>b. CASE s # t
  BY <1>a, <1>b, OthersSame, BudgetKept DEF Same
<1> SUFFICES BudgetAt(s)'
  BY <1>b
<1>c. GetterTypeOK /\ GetterTypeOK'
  BY DEF ReaderTypeOK
<1>d. ASSUME Exits(s) PROVE BudgetAt(s)'
  BY <1>a, <1>d, BudgetKept DEF Exits, counts, Outcomes
<1>e. ASSUME NEW o \in Outcomes, ExitReading(s, o) PROVE BudgetAt(s)'
  BY <1>d, <1>e, ExitIsExit
<1>1. CASE SetupFails(s) \/ SendFails(s) \/ EmptyRefused(s) \/ ReadFails(s)
           \/ CallbackFails(s) \/ Cancel(s)
  BY <1>1, <1>d, ExitIsExit DEF SetupFails, SendFails, EmptyRefused, ReadFails,
     CallbackFails, Cancel, Outcomes
<1>2. CASE Setup(s) \/ OpenBi(s) \/ SendHandshake(s) \/ SendRequest(s) \/ Finished(s)
           \/ OnCollection(s) \/ OnBlobReturns(s)
  BY <1>2, <1>a, <1>c, BudgetKept DEF Setup, OpenBi, SendHandshake, SendRequest, Finished,
     OnCollection, OnBlobReturns, OnlySendUp, At, To, LoopHead, counts, GetterTypeOK
<1>3. CASE ReadResponse(s)
  <2>1. NextItem(s) \in Items
    BY <1>3, NextItemType DEF ReaderTypeOK, ReadResponse, ReadItem
  <2>2. CASE /\ NextItem(s).t = "foundcollection" /\ NextItem(s).n <= MAX_DATA_SIZE
             /\ total' = [total EXCEPT ![s] = NextItem(s).n]
             /\ rem' = [rem EXCEPT ![s] = NextItem(s).n]
             /\ To(s, "coll") /\ UNCHANGED delivered
    <3>1. NextItem(s).n \in Nat
      BY <2>1, <2>2, ItemTypes
    <3>2. delivered[s] = 0
      BY <1>3, <1>a DEF BudgetAt, ReadResponse, At
    <3>3. total'[s] = NextItem(s).n /\ rem'[s] = NextItem(s).n
          /\ gpc'[s] = "coll" /\ delivered'[s] = 0
      BY <1>c, <2>2, <3>2 DEF To, GetterTypeOK
    <3> QED
      BY <2>2, <3>1, <3>3, SizeAssumption DEF BudgetAt
  <2> QED
    BY <1>3, <1>e, <2>2 DEF ReadResponse, Outcomes
<1>4. CASE ReadCollection(s)
  <2>1. CASE \/ gpc' = gpc /\ UNCHANGED <<total, rem, hdr, delivered>>
             \/ To(s, "oncollection") /\ UNCHANGED counts
    BY <1>4, <1>a, <1>c, <2>1
    DEF BudgetAt, ReadCollection, At, To, counts, GetterTypeOK
  <2> QED
    BY <1>4, <1>e, <2>1 DEF ReadCollection, Outcomes
<1>5. CASE ReadBlobResponse(s)
  <2>1. CASE To(s, "size") /\ UNCHANGED counts
    BY <1>5, <1>a, <1>c, <2>1, BudgetKept DEF To, counts, GetterTypeOK
  <2> QED
    BY <1>5, <1>e, <2>1 DEF ReadBlobResponse, Outcomes
<1>6. CASE ReadSize(s)
  <2>1. NextItem(s) \in Items
    BY <1>6, NextItemType DEF ReaderTypeOK, ReadSize, ReadItem
  <2>2. CASE /\ NextItem(s).t = "size" /\ NextItem(s).n <= rem[s]
             /\ rem' = [rem EXCEPT ![s] = @ - NextItem(s).n]
             /\ hdr' = [hdr EXCEPT ![s] = NextItem(s).n]
             /\ pos' = [pos EXCEPT ![s] = 0]
             /\ To(s, "onblob") /\ UNCHANGED <<total, delivered>>
    <3>1. NextItem(s).n \in Nat
      BY <2>1, <2>2, ItemTypes
    <3>2. /\ rem'[s] = rem[s] - NextItem(s).n /\ hdr'[s] = NextItem(s).n
          /\ pos'[s] = 0 /\ gpc'[s] = "onblob"
          /\ UNCHANGED <<total[s], delivered[s]>>
      BY <1>c, <2>2 DEF To, GetterTypeOK
    <3>3. rem[s] \in Nat /\ delivered[s] \in Nat /\ total[s] \in Nat
      BY <1>c DEF GetterTypeOK
    <3> QED
      BY <1>a, <2>2, <3>1, <3>2, <3>3, SizeAssumption DEF BudgetAt
  <2> QED
    BY <1>6, <1>e, <2>2 DEF ReadSize, Outcomes
<1>7. CASE ReadSegment(s)
  <2>1. CASE /\ pos' = [pos EXCEPT ![s] = @ + 1]
             /\ delivered' = [delivered EXCEPT ![s] = @ + 1]
             /\ UNCHANGED <<gpc, total, rem, hdr>>
    <3>1. /\ pos'[s] = pos[s] + 1 /\ delivered'[s] = delivered[s] + 1
          /\ UNCHANGED <<gpc[s], total[s], rem[s], hdr[s]>>
      BY <1>c, <2>1 DEF GetterTypeOK
    <3>2. gpc[s] = "onblob" /\ pos[s] < hdr[s]
      BY <1>7 DEF ReadSegment, At
    <3>3. /\ rem[s] \in Nat /\ delivered[s] \in Nat /\ total[s] \in Nat
          /\ pos[s] \in Nat /\ hdr[s] \in Nat
      BY <1>c DEF GetterTypeOK
    <3> QED
      BY <1>a, <3>1, <3>2, <3>3, SizeAssumption DEF BudgetAt
  <2> QED
    BY <1>7, <1>e, <2>1 DEF ReadSegment, Outcomes
<1>8. ASSUME NextBlob(s), At(s, "check") PROVE BudgetAt(s)'
  BY <1>8, <1>a, <1>c, BudgetKept DEF NextBlob, To, LoopHead, GetterTypeOK
<1>9. CASE CheckAtEnd(s) \/ CheckFails(s)
  BY <1>8, <1>9 DEF CheckAtEnd, CheckFails
<1>10. CASE CheckReads(s)
  BY <1>8, <1>10, <1>e DEF CheckReads, Outcomes
<1>11. CASE ReadEnd(s)
  BY <1>11, <1>c, <1>d DEF ReadEnd, Exit, Exits, To, Outcomes, counts, GetterTypeOK
<1> QED
  BY <1>1, <1>2, <1>3, <1>4, <1>5, <1>6, <1>7, <1>9, <1>10, <1>11 DEF GetterStep

(***************************************************************************)
(* Completeness.  The blobs past the check are complete unless on_blob     *)
(* gave them up, and how many there are follows from the pc.               *)
(***************************************************************************)
BeforeBlobs == {"idle", "connecting", "connected", "request", "finish", "response",
                "coll", "oncollection"}
InBlobs == {"blobres", "size", "onblob", "check"}

ProgressAt(s) ==
    /\ gpc[s] \in BeforeBlobs => got[s] = <<>>
    /\ gpc[s] \in InBlobs \cup {"oncollection", "end", "ok"} => Want[s] \in Collections
    /\ gpc[s] \in InBlobs => Len(got[s]) < Len(ListOf(s))
    /\ gpc[s] = "check" => AtEndOfBlob(s) \/ Current(s) \in LazyBlobs
    /\ gpc[s] \in {"end", "ok"} => Len(got[s]) = Len(ListOf(s))
    /\ \A i \in 1..Len(got[s]) :
         ListOf(s)[i] \notin LazyBlobs => got[s][i] = Segments[ListOf(s)[i]]

BlobProgress == \A s \in Streams : ProgressAt(s)

\* Steps of one getter that keep what it has.
LEMMA ProgressKept ==
    ASSUME NEW s \in Streams, ProgressAt(s), UNCHANGED <<got[s], hdr[s], pos[s]>>,
           \/ gpc'[s] = gpc[s]
           \/ gpc[s] \in BeforeBlobs /\ gpc'[s] \in BeforeBlobs \ {"oncollection"}
           \/ gpc'[s] \in Outcomes \ {"ok"}
    PROVE  ProgressAt(s)'
BY DEF ProgressAt, ListOf, AtEndOfBlob, Current, BeforeBlobs, InBlobs, Outcomes

\* Every step of a getter keeps BlobProgress.
LEMMA ProgressStep == ReaderTypeOK /\ ReaderTypeOK' /\ BlobProgress /\ GetterNext => BlobProgress'
<1> SUFFICES ASSUME ReaderTypeOK, ReaderTypeOK', BlobProgress, NEW s \in Streams, NEW t \in Streams,
                    Setup(s) \/ GetterStep(s) \/ CallbackFails(s) \/ Cancel(s)
             PROVE  ProgressAt(t)'
  BY DEF GetterNext, BlobProgress
<1>a. ProgressAt(s) /\ ProgressAt(t)
  BY DEF BlobProgress
<1>b. CASE s # t
  BY <1>a, <1>b, OthersSame, ProgressKept DEF Same
<1> SUFFICES ProgressAt(s)'
  BY <1>b
<1>c. GetterTypeOK /\ GetterTypeOK'
  BY DEF ReaderTypeOK
<1>d. ASSUME NEW o \in Outcomes \ {"ok"},
             (Exit(s, o) /\ OnlyExit(s)) \/ ExitReading(s, o)
      PROVE  ProgressAt(s)'
  BY <1>a, <1>c, <1>d, ProgressKept
  DEF Exit, OnlyExit, ExitReading, To, counts, GetterTypeOK
<1>1. CASE SetupFails(s) \/ SendFails(s) \/ EmptyRefused(s) \/ ReadFails(s)
           \/ CallbackFails(s) \/ Cancel(s)
  BY <1>1, <1>d DEF SetupFails, SendFails, EmptyRefused, ReadFails,
     CallbackFails, Cancel, Outcomes
<1>2. CASE Setup(s) \/ OpenBi(s) \/ SendHandshake(s) \/ SendRequest(s) \/ Finished(s)
  BY <1>2, <1>a, <1>c, ProgressKept DEF Setup, OpenBi, SendHandshake, SendRequest, Finished,
     OnlySendUp, At, To, counts, GetterTypeOK, BeforeBlobs
<1>3. CASE ReadResponse(s)
  <2>1. CASE To(s, "coll") /\ UNCHANGED got
    BY <1>3, <1>a, <1>c, <2>1
    DEF ReadResponse, At, To, GetterTypeOK, ProgressAt, BeforeBlobs, InBlobs, ListOf
  <2> QED
    BY <1>3, <1>d, <2>1 DEF ReadResponse, Outcomes
<1>4. CASE ReadCollection(s)
  <2>1. CASE UNCHANGED <<gpc, got>>
    BY <1>4, <1>a, <2>1 DEF ReadCollection, At, ProgressAt, BeforeBlobs, InBlobs, ListOf
  <2>2. CASE Want[s] \in Collections /\ To(s, "oncollection") /\ UNCHANGED counts
    BY <1>4, <1>a, <1>c, <2>2
    DEF ReadCollection, At, To, counts, GetterTypeOK, ProgressAt, BeforeBlobs, InBlobs, ListOf
  <2> QED
    BY <1>4, <1>d, <2>1, <2>2 DEF ReadCollection, Outcomes
<1>l. Want[s] \in Collections => Len(ListOf(s)) \in Nat
  BY HashAssumption DEF ListOf
<1>5. CASE OnCollection(s)
  <2>1. got[s] = <<>> /\ got'[s] = <<>> /\ Want[s] \in Collections
    BY <1>5, <1>a DEF OnCollection, At, ProgressAt, BeforeBlobs, counts
  <2>2. gpc'[s] = IF 0 < Len(ListOf(s)) THEN "blobres" ELSE "end"
    BY <1>5, <1>c DEF OnCollection, To, LoopHead, GetterTypeOK
  <2> QED
    BY <1>l, <2>1, <2>2 DEF ProgressAt, BeforeBlobs, InBlobs, ListOf
<1>6. CASE ReadBlobResponse(s)
  <2>1. CASE To(s, "size") /\ UNCHANGED counts
    BY <1>6, <1>a, <1>c, <2>1
    DEF ReadBlobResponse, At, To, counts, GetterTypeOK, ProgressAt, BeforeBlobs, InBlobs, ListOf
  <2> QED
    BY <1>6, <1>d, <2>1 DEF ReadBlobResponse, Outcomes
<1>7. CASE ReadSize(s)
  <2>1. CASE To(s, "onblob") /\ UNCHANGED got
    BY <1>7, <1>a, <1>c, <2>1
    DEF ReadSize, At, To, GetterTypeOK, ProgressAt, BeforeBlobs, InBlobs, ListOf
  <2> QED
    BY <1>7, <1>d, <2>1 DEF ReadSize, Outcomes
<1>8. CASE ReadSegment(s)
  <2>1. CASE UNCHANGED <<gpc, got>>
    BY <1>8, <1>a, <2>1 DEF ReadSegment, At, ProgressAt, BeforeBlobs, InBlobs, ListOf
  <2> QED
    BY <1>8, <1>d, <2>1 DEF ReadSegment, Outcomes
<1>9. CASE OnBlobReturns(s)
  BY <1>9, <1>a, <1>c
  DEF OnBlobReturns, At, To, counts, GetterTypeOK, ProgressAt, BeforeBlobs, InBlobs,
      AtEndOfBlob, Current, ListOf
<1>11. CASE At(s, "check") /\ NextBlob(s)
  <2> DEFINE n == Len(got[s])
             Done(q, i) == ListOf(s)[i] \notin LazyBlobs => q[i] = Segments[ListOf(s)[i]]
  <2>1. gpc[s] = "check" /\ NextBlob(s)
    BY <1>11 DEF At
  <2>2. Want[s] \in Collections /\ n < Len(ListOf(s)) /\ \A i \in 1..n : Done(got[s], i)
    BY <1>a, <2>1 DEF ProgressAt, InBlobs
  <2>3. got[s] \in Seq(Nat) /\ pos[s] \in Nat /\ n \in Nat
    BY <1>c DEF GetterTypeOK
  <2>4. got'[s] = Append(got[s], pos[s])
        /\ gpc'[s] = IF n + 1 < Len(ListOf(s)) THEN "blobres" ELSE "end"
    BY <1>c, <2>1 DEF NextBlob, To, LoopHead, GetterTypeOK
  <2>5. ListOf(s)[n + 1] \notin LazyBlobs => pos[s] = Segments[ListOf(s)[n + 1]]
    BY <1>a, <2>1 DEF ProgressAt, AtEndOfBlob, Current
  <2>6. Len(got'[s]) = n + 1
    BY <2>3, <2>4
  <2>7. ASSUME NEW i \in 1..(n + 1) PROVE Done(got'[s], i)
    BY <2>2, <2>3, <2>4, <2>5
  <2>8. Len(ListOf(s)) \in Nat
    BY <1>l, <2>2
  <2> QED
    BY <2>2, <2>3, <2>4, <2>6, <2>7, <2>8 DEF ProgressAt, BeforeBlobs, InBlobs, ListOf
<1>12. CASE CheckAtEnd(s) \/ CheckFails(s)
  BY <1>11, <1>12 DEF CheckAtEnd, CheckFails
<1>13. CASE CheckReads(s)
  BY <1>11, <1>13, <1>d DEF CheckReads, Outcomes
<1>14. CASE ReadEnd(s)
  BY <1>14, <1>a, <1>c
  DEF ReadEnd, Exit, At, To, counts, GetterTypeOK, ProgressAt, BeforeBlobs, InBlobs, ListOf
<1> QED
  BY <1>1, <1>2, <1>3, <1>4, <1>5, <1>6, <1>7, <1>8, <1>9, <1>12, <1>13, <1>14
  DEF GetterStep

=============================================================================
