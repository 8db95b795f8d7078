------------------------------- MODULE Getter -------------------------------
(***************************************************************************)
(* The getter (get.rs): `run' for the stream s, one per getter and per     *)
(* connection.  Its pc is gpc[s]; it ends in one of the Outcomes, and then *)
(* the connection is dropped with everything else it owns.                 *)
(*                                                                         *)
(* A segment is handed to the caller only after the bao decoder verified   *)
(* it against the hash.  on_blob is a callback of the caller: a diligent   *)
(* one reads to the end of the blob, a lazy one may return before.         *)
(***************************************************************************)
EXTENDS Quic

CONSTANTS
    Want,        \* Want[s]: the hash the getter on s asks for
    TokenOf,     \* TokenOf[s]: the token it presents
    LazyBlobs,   \* the blobs on_blob may return early from, unread to the end
    FailingCalls \* the callbacks that may return an error

ASSUME GetterAssumption ==
    /\ Want \in [Streams -> Hash]
    /\ TokenOf \in [Streams -> Tokens]
    /\ LazyBlobs \subseteq Hash
    /\ FailingCalls \subseteq {"connected", "oncollection", "onblob"}

VARIABLES
    gpc,       \* gpc[s]: where run is, or how it returned
    total,     \* total[s]: total_blobs_size, later Stats.data_len
    rem,       \* rem[s]: remaining_size
    hdr,       \* hdr[s]: the announced size of the current blob
    pos,       \* pos[s]: items read of the current encoding
    got,       \* got[s]: for each blob past the check, the segments delivered
    delivered  \* delivered[s]: segments handed to on_blob so far

getterVars == <<gpc, total, rem, hdr, pos, got, delivered>>
gvars == <<quicVars, getterVars>>
counts == <<total, rem, hdr, pos, got, delivered>>

Steps == {"idle", "connecting", "connected", "request", "finish", "response",
          "coll", "oncollection", "blobres", "size", "onblob", "check", "end"}
Outcomes == {"ok", "nosend", "lost", "invalid", "notfound", "callback",
             "panicked", "cancelled"}

GetterTypeOK ==
    /\ gpc \in [Streams -> Steps \cup Outcomes]
    /\ total \in [Streams -> Nat]
    /\ rem \in [Streams -> Nat]
    /\ hdr \in [Streams -> Nat]
    /\ pos \in [Streams -> Nat]
    /\ got \in [Streams -> Seq(Nat)]
    /\ delivered \in [Streams -> Nat]
ReaderTypeOK == QuicTypeOK /\ GetterTypeOK

GetterInit ==
    /\ gpc = [s \in Streams |-> "idle"]
    /\ total = [s \in Streams |-> 0]
    /\ rem = [s \in Streams |-> 0]
    /\ hdr = [s \in Streams |-> 0]
    /\ pos = [s \in Streams |-> 0]
    /\ got = [s \in Streams |-> <<>>]
    /\ delivered = [s \in Streams |-> 0]

ListOf(s) == Blobs[Want[s]]
Current(s) == ListOf(s)[Len(got[s]) + 1]

At(s, pc) == gpc[s] = pc
To(s, pc) == gpc' = [gpc EXCEPT ![s] = pc]

\* run returns: the connection and both halves of the stream are dropped.
Exit(s, outcome) == To(s, outcome) /\ DropConnection(ConnOf[s])
OnlyExit(s) == UNCHANGED <<listening, pside, wire, counts>>

(***************************************************************************)
(* Connecting and sending the request.                                     *)
(***************************************************************************)
Setup(s) ==
    /\ At(s, "idle") /\ To(s, "connecting")
    /\ Connect(ConnOf[s]) /\ UNCHANGED counts

OpenBi(s) ==
    /\ At(s, "connecting") /\ To(s, "connected")
    /\ Establish(ConnOf[s]) /\ UNCHANGED counts

SetupFails(s) ==
    /\ At(s, "connecting") /\ cside[ConnOf[s]] = "down"
    /\ Exit(s, "lost") /\ OnlyExit(s)

OnlySendUp == UNCHANGED <<conns, upRd, down, downRd, acked, stopped, counts>>

\* on_connected has returned; the handshake is written.
SendHandshake(s) ==
    /\ At(s, "connected") /\ CanSendUp(s)
    /\ SendUp(s, <<Handshake(VERSION, TokenOf[s])>>)
    /\ To(s, "request") /\ OnlySendUp

\* The request, and finish() of the sending half.
SendRequest(s) ==
    /\ At(s, "request") /\ CanSendUp(s)
    /\ SendUp(s, <<Request(Want[s]), Fin>>)
    /\ To(s, "finish") /\ OnlySendUp

Finished(s) ==
    /\ At(s, "finish") /\ "up" \in acked[s]
    /\ To(s, "response") /\ UNCHANGED <<quicVars, counts>>

SendFails(s) ==
    /\ \/ gpc[s] \in {"connected", "request"} /\ SendUpFails(s)
       \/ /\ At(s, "finish")
          /\ \/ cside[ConnOf[s]] = "down" /\ "up" \notin acked[s]
             \/ "up" \in stopped[s]
    /\ Exit(s, "nosend") /\ OnlyExit(s)

CallbackFails(s) ==
    /\ gpc[s] \in FailingCalls
    /\ Exit(s, "callback") /\ OnlyExit(s)

(***************************************************************************)
(* Reading.  Each step takes the next item off the stream; the end of the  *)
(* stream stays where it is.                                               *)
(***************************************************************************)
ReadItem(s) ==
    /\ CanReadDown(s)
    /\ downRd' = [downRd EXCEPT ![s] = IF NextItem(s) = Fin THEN @ ELSE @ + 1]
OnlyReadDown == UNCHANGED <<conns, up, upRd, down, acked, stopped>>
ExitReading(s, outcome) ==
    /\ Exit(s, outcome)
    /\ UNCHANGED <<listening, pside, up, upRd, down, acked, stopped, counts>>

\* An item that is no message, taken for one: its first bytes are the length
\* of a message that does not decode, or that the stream ends before.
Garbage(item) == item.t \in {"size", "data", "corrupt"}

ReadResponse(s) ==
    /\ At(s, "response") /\ ReadItem(s)
    /\ LET it == NextItem(s) IN
       \/ /\ it.t = "foundcollection" /\ it.n <= MAX_DATA_SIZE
          /\ total' = [total EXCEPT ![s] = it.n]
          /\ rem' = [rem EXCEPT ![s] = it.n]
          /\ pos' = [pos EXCEPT ![s] = 0]
          /\ To(s, "coll") /\ OnlyReadDown /\ UNCHANGED <<hdr, got, delivered>>
       \/ it.t = "foundcollection" /\ it.n > MAX_DATA_SIZE /\ ExitReading(s, "invalid")
       \/ it = Found /\ ExitReading(s, "invalid")
       \/ it = NotFound /\ ExitReading(s, "notfound")
       \/ it = Fin /\ ExitReading(s, "lost")
       \/ Garbage(it) /\ \E o \in {"invalid", "panicked"} : ExitReading(s, o)

\* read_bao_encoded reads the whole encoding before it is decoded.
ReadCollection(s) ==
    /\ At(s, "coll") /\ ReadItem(s)
    /\ LET it == NextItem(s)
           last == pos[s] = Segments[Want[s]]
       IN
       \/ /\ it = Enc(Want[s])[pos[s] + 1] /\ ~last
          /\ pos' = [pos EXCEPT ![s] = @ + 1]
          /\ OnlyReadDown /\ UNCHANGED <<gpc, total, rem, hdr, got, delivered>>
       \/ /\ it = Enc(Want[s])[pos[s] + 1] /\ last
          /\ Want[s] \in Collections
          /\ To(s, "oncollection") /\ OnlyReadDown /\ UNCHANGED counts
       \/ /\ it = Enc(Want[s])[pos[s] + 1] /\ last
          /\ Want[s] \notin Collections
          /\ ExitReading(s, "invalid")
       \/ it = Fin /\ ExitReading(s, "lost")
       \/ it \notin {Enc(Want[s])[pos[s] + 1], Fin} /\ ExitReading(s, "invalid")

\* Mutant of LoopHead: the last blob is not fetched.
LoopHeadShort(s, n) == IF n + 1 < Len(ListOf(s)) THEN "blobres" ELSE "end"

LoopHead(s, n) == IF n < Len(ListOf(s)) THEN "blobres" ELSE "end"

OnCollection(s) ==
    /\ At(s, "oncollection")
    /\ To(s, LoopHead(s, 0)) /\ UNCHANGED <<quicVars, counts>>

\* handle_blob_response
ReadBlobResponse(s) ==
    /\ At(s, "blobres") /\ ReadItem(s)
    /\ LET it == NextItem(s) IN
       \/ it = Found /\ To(s, "size") /\ OnlyReadDown /\ UNCHANGED counts
       \/ it.t = "foundcollection" /\ ExitReading(s, "invalid")
       \/ it = NotFound /\ ExitReading(s, "notfound")
       \/ it = Fin /\ ExitReading(s, "lost")
       \/ Garbage(it) /\ \E o \in {"invalid", "panicked"} : ExitReading(s, o)

\* Mutants of ReadSize: the size is not compared with what remains; what
\* remains is not updated.
ReadSizeUnchecked(s) ==
    /\ At(s, "size") /\ ReadItem(s)
    /\ LET it == NextItem(s) IN
       \/ /\ it.t = "size" /\ it.n <= MAX_DATA_SIZE
          /\ rem' = [rem EXCEPT ![s] = @ - it.n]
          /\ hdr' = [hdr EXCEPT ![s] = it.n]
          /\ pos' = [pos EXCEPT ![s] = 0]
          /\ To(s, "onblob") /\ OnlyReadDown /\ UNCHANGED <<total, got, delivered>>
       \/ (it.t = "size" => it.n > MAX_DATA_SIZE) /\ ExitReading(s, "invalid")

ReadSizeUncounted(s) ==
    /\ At(s, "size") /\ ReadItem(s)
    /\ LET it == NextItem(s) IN
       \/ /\ it.t = "size" /\ it.n <= MAX_DATA_SIZE /\ it.n <= rem[s]
          /\ hdr' = [hdr EXCEPT ![s] = it.n]
          /\ pos' = [pos EXCEPT ![s] = 0]
          /\ To(s, "onblob") /\ OnlyReadDown /\ UNCHANGED <<total, rem, got, delivered>>
       \/ (it.t = "size" => it.n > rem[s]) /\ ExitReading(s, "invalid")

\* read_size: the header is not verified yet, but must fit what remains of
\* the announced total.
ReadSize(s) ==
    /\ At(s, "size") /\ ReadItem(s)
    /\ LET it == NextItem(s) IN
       \/ /\ it.t = "size" /\ it.n <= MAX_DATA_SIZE /\ it.n <= rem[s]
          /\ rem' = [rem EXCEPT ![s] = @ - it.n]
          /\ hdr' = [hdr EXCEPT ![s] = it.n]
          /\ pos' = [pos EXCEPT ![s] = 0]
          /\ To(s, "onblob") /\ OnlyReadDown /\ UNCHANGED <<total, got, delivered>>
       \/ it.t = "size" /\ (it.n > MAX_DATA_SIZE \/ it.n > rem[s])
          /\ ExitReading(s, "invalid")
       \/ it = Fin /\ ExitReading(s, "lost")
       \/ it.t # "size" /\ it # Fin /\ ExitReading(s, "invalid")

\* What the decoder accepts next: a wrong header makes every segment fail.
Verifies(s, it) ==
    /\ hdr[s] = Segments[Current(s)]
    /\ pos[s] < hdr[s]
    /\ it = Data(Current(s), pos[s] + 1)

\* on_blob reads a segment.
ReadSegment(s) ==
    /\ At(s, "onblob") /\ ReadItem(s) /\ pos[s] < hdr[s]
    /\ \/ /\ Verifies(s, NextItem(s))
          /\ pos' = [pos EXCEPT ![s] = @ + 1]
          /\ delivered' = [delivered EXCEPT ![s] = @ + 1]
          /\ OnlyReadDown /\ UNCHANGED <<gpc, total, rem, hdr, got>>
       \/ NextItem(s) = Fin /\ ExitReading(s, "lost")
       \/ ~Verifies(s, NextItem(s)) /\ NextItem(s) # Fin /\ ExitReading(s, "invalid")

\* The size zero is verified by a read at the end of the blob.
EmptyRefused(s) ==
    /\ At(s, "onblob") /\ hdr[s] = 0 /\ Segments[Current(s)] # 0
    /\ Exit(s, "invalid") /\ OnlyExit(s)

AtEndOfBlob(s) == pos[s] = hdr[s] /\ hdr[s] = Segments[Current(s)]

\* Mutant of OnBlobReturns: reading ends where the decoder has not ended.
OnBlobReturnsEarly(s) ==
    /\ At(s, "onblob")
    /\ To(s, "check") /\ UNCHANGED <<quicVars, counts>>

OnBlobReturns(s) ==
    /\ At(s, "onblob") /\ (AtEndOfBlob(s) \/ Current(s) \in LazyBlobs)
    /\ To(s, "check") /\ UNCHANGED <<quicVars, counts>>

\* The loop goes on with the next blob, or ends.
NextBlob(s) ==
    /\ got' = [got EXCEPT ![s] = Append(@, pos[s])]
    /\ To(s, LoopHead(s, Len(got[s]) + 1))
    /\ UNCHANGED <<total, rem, hdr, pos, delivered>>

\* The check that on_blob read everything: one more byte is read.  Only if
\* that succeeds is the blob known to be unread; every error passes.
CheckAtEnd(s) ==
    /\ At(s, "check") /\ AtEndOfBlob(s)
    /\ NextBlob(s) /\ UNCHANGED quicVars

\* Mutant of CheckReads: a byte that can still be read is no error.
CheckReadsLenient(s) ==
    /\ At(s, "check") /\ pos[s] < hdr[s] /\ ReadItem(s)
    /\ NextBlob(s) /\ OnlyReadDown

CheckReads(s) ==
    /\ At(s, "check") /\ pos[s] < hdr[s] /\ ReadItem(s)
    /\ \/ Verifies(s, NextItem(s)) /\ ExitReading(s, "callback")
       \/ ~Verifies(s, NextItem(s)) /\ NextBlob(s) /\ OnlyReadDown

\* A wrong size of zero is refused by the decoder without reading.
CheckFails(s) ==
    /\ At(s, "check") /\ ~AtEndOfBlob(s) /\ pos[s] = hdr[s]
    /\ NextBlob(s) /\ UNCHANGED quicVars

\* After the last blob: data that follows is logged, the result is Ok.
ReadEnd(s) ==
    /\ At(s, "end") /\ ReadItem(s)
    /\ \/ NextItem(s) = Fin /\ UNCHANGED stopped
       \/ NextItem(s) # Fin /\ stopped' = [stopped EXCEPT ![s] = @ \cup {"down"}]
    /\ Exit(s, "ok")
    /\ UNCHANGED <<listening, pside, up, upRd, down, acked, counts>>

\* Mutant of ReadFails: the loss of the connection is not noticed between
\* two blobs.
ReadFailsBlind(s) ==
    /\ gpc[s] \in {"response", "coll", "size", "onblob", "check", "end"}
    /\ gpc[s] \in {"onblob", "check"} => pos[s] < hdr[s]
    /\ ReadDownFails(s)
    /\ Exit(s, "lost") /\ OnlyExit(s)

\* The connection is lost.  In the check this error passes as well, but the
\* next read of the stream, with nothing in between, meets it again.
ReadFails(s) ==
    /\ gpc[s] \in {"response", "coll", "blobres", "size", "onblob", "check", "end"}
    /\ gpc[s] \in {"onblob", "check"} => pos[s] < hdr[s]
    /\ ReadDownFails(s)
    /\ Exit(s, "lost") /\ OnlyExit(s)

\* The caller drops the future of run.
Cancel(s) ==
    /\ gpc[s] \in Steps \ {"idle"}
    /\ Exit(s, "cancelled") /\ OnlyExit(s)

GetterStep(s) ==
    \/ OpenBi(s) \/ SetupFails(s) \/ SendHandshake(s) \/ SendRequest(s)
    \/ Finished(s) \/ SendFails(s)
    \/ ReadResponse(s) \/ ReadCollection(s) \/ OnCollection(s)
    \/ ReadBlobResponse(s) \/ ReadSize(s) \/ ReadSegment(s) \/ EmptyRefused(s)
    \/ OnBlobReturns(s) \/ CheckAtEnd(s) \/ CheckReads(s) \/ CheckFails(s)
    \/ ReadEnd(s) \/ ReadFails(s)

GetterNext ==
    \E s \in Streams : Setup(s) \/ GetterStep(s) \/ CallbackFails(s) \/ Cancel(s)

\* The runtime polls a getter that can make progress, and callbacks return.
GetterFairness == \A s \in Streams : WF_gvars(GetterStep(s))

(***************************************************************************)
(* Safety.                                                                 *)
(***************************************************************************)
Returned(s) == gpc[s] \in Outcomes

Complete(s) ==
    /\ Want[s] \in Collections
    /\ Len(got[s]) = Len(ListOf(s))
    /\ \A i \in 1..Len(got[s]) : got[s][i] = Segments[ListOf(s)[i]]

\* run returns Ok only if every blob of the collection was handed to on_blob
\* completely and verified, whatever the provider sends and whenever it
\* stops.
OkImpliesComplete == \A s \in Streams : gpc[s] = "ok" => Complete(s)

\* What is left of that when on_blob returns early from some blobs: the
\* result is Ok only if every blob was reached, and every blob that on_blob
\* does read to its end arrived completely - an early return from one blob,
\* and the error that the check lets pass, never cost another one.
DiligentComplete ==
    \A s \in Streams :
        gpc[s] = "ok" =>
            /\ Want[s] \in Collections
            /\ Len(got[s]) = Len(ListOf(s))
            /\ \A i \in 1..Len(got[s]) :
                 ListOf(s)[i] \notin LazyBlobs => got[s][i] = Segments[ListOf(s)[i]]

\* The getter never hands on more than the provider announced, nor accepts
\* an announcement above the limit, even though the sizes in the blob
\* headers are not verified when they are used.
WithinBudget ==
    \A s \in Streams : delivered[s] <= total[s] /\ total[s] <= MAX_DATA_SIZE

\* The getter implements Fetch, the promise to its caller.
F == INSTANCE Fetch WITH
       Getters <- Streams,
       result <- [s \in Streams |-> IF gpc[s] = "ok" THEN "ok"
                                    ELSE IF Returned(s) THEN "failed" ELSE "pending"],
       part <- [s \in Streams |-> IF gpc[s] \in {"onblob", "check"} THEN pos[s] ELSE 0]
ImplementsFetch == F!Spec

(***************************************************************************)
(* Liveness: a provider can keep a getter waiting as long as it keeps the  *)
(* connection and the stream open, and no longer.                          *)
(***************************************************************************)
ReturnsWhenStreamEnds ==
    \A s \in Streams :
        (pside[ConnOf[s]] \in {"down", "refused"} \/ Ended(down[s])) ~> Returned(s)
=============================================================================
