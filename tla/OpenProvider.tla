---------------------------- MODULE OpenProvider ----------------------------
(***************************************************************************)
(* A provider serving clients of which nothing is assumed but that they    *)
(* speak QUIC: they send any frames in any order, read or not, stop        *)
(* reading, close.  What the provider promises must hold for all of them.  *)
(***************************************************************************)
EXTENDS Provider

CONSTANTS
    Bursts,     \* bound: the sequences of frames clients send at a time
    MaxFrames,  \* bound: frames sent on one stream
    ClientMoves \* bound: what else clients do, of "read", "stop", "close"

ASSUME ClientsAssumption ==
    /\ Bursts \subseteq Seq(Frames) /\ MaxFrames \in Nat
    /\ ClientMoves \subseteq {"read", "stop", "close"}

ClientSends(s, q) ==
    /\ CanSendUp(s)
    /\ ~Ended(up[s]) /\ Len(up[s]) + Len(q) <= MaxFrames
    /\ SendUp(s, q)
    /\ UNCHANGED <<conns, upRd, down, downRd, acked, stopped>>

ClientReads(s) ==
    /\ "read" \in ClientMoves
    /\ cside[ConnOf[s]] = "open" /\ "down" \notin stopped[s]
    /\ CanReadDown(s)
    /\ downRd' = [downRd EXCEPT ![s] = @ + 1]
    /\ UNCHANGED <<conns, up, upRd, down, acked, stopped>>

ClientStops(s) ==
    /\ "stop" \in ClientMoves
    /\ cside[ConnOf[s]] = "open" /\ up[s] # <<>>
    /\ "down" \notin stopped[s] /\ "down" \notin acked[s]
    /\ stopped' = [stopped EXCEPT ![s] = @ \cup {"down"}]
    /\ UNCHANGED <<conns, up, upRd, down, downRd, acked>>

ClientCloses(c) ==
    /\ "close" \in ClientMoves
    /\ cside[c] \in {"connecting", "open"}
    /\ DropConnection(c)
    /\ UNCHANGED <<listening, pside, wire>>

ClientNext ==
    \/ \E c \in Conns : Connect(c) \/ Establish(c) \/ ClientCloses(c)
    \/ \E s \in Streams : ClientReads(s) \/ ClientStops(s)
    \/ \E s \in Streams, q \in Bursts : ClientSends(s, q)

OpenProviderInit == QuicInit /\ ProviderInit

OpenProviderNext ==
    \/ ProviderNext
    \/ (QuicNext \/ ClientNext) /\ UNCHANGED providerVars

ProviderSpec == OpenProviderInit /\ [][OpenProviderNext]_pvars
FairProviderSpec == ProviderSpec /\ ProviderFairness /\ QuicFairness
=============================================================================
