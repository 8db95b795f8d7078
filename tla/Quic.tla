-------------------------------- MODULE Quic --------------------------------
(***************************************************************************)
(* The QUIC transport (the quinn crate), as provider.rs and get.rs use it. *)
(* External code: modelled from its use.                                   *)
(*                                                                         *)
(* Each end of a connection has its own view of it, which is how the end   *)
(* that has not yet seen a close goes on.  A stream direction is the       *)
(* sequence of what was put on the wire plus the number of pieces the      *)
(* receiving application has read.  Streams are reliable and ordered while *)
(* the connection lasts; when an end is down, what it has not read may or  *)
(* may not have arrived, unless the end of the stream was acknowledged.    *)
(***************************************************************************)
EXTENDS Protocol

CONSTANTS
    Conns,           \* connections
    Streams,         \* bidirectional streams, opened by the client
    ConnOf,          \* ConnOf[s]: the connection of a stream
    Window,          \* flow control: unread items the client's end accepts
    MAX_CONNECTIONS, \* connections a provider's endpoint keeps open
    Lossy            \* TRUE iff the network may fail

ASSUME QuicAssumption ==
    /\ ConnOf \in [Streams -> Conns]
    /\ Window \in Nat \ {0}
    /\ MAX_CONNECTIONS \in Nat
    /\ Lossy \in BOOLEAN

VARIABLES
    listening, \* the provider's endpoint takes new connections
    pside,     \* pside[c]: the provider's end of a connection
    cside,     \* cside[c]: the client's end
    up,        \* up[s]: the frames the client sent
    upRd,      \* upRd[s]: how many of them the provider has read
    down,      \* down[s]: the items the provider sent
    downRd,    \* downRd[s]: how many of them the client has read
    acked,     \* acked[s]: the directions whose end the receiver acknowledged
    stopped    \* stopped[s]: the directions whose receiver stopped reading

wire == <<up, upRd, down, downRd, acked, stopped>>
conns == <<listening, pside, cside>>
quicVars == <<listening, pside, cside, up, upRd, down, downRd, acked, stopped>>

Directions == {"up", "down"}

QuicTypeOK ==
    /\ listening \in BOOLEAN
    /\ pside \in [Conns -> {"none", "refused", "open", "down"}]
    /\ cside \in [Conns -> {"none", "connecting", "open", "down"}]
    /\ up \in [Streams -> Seq(Frames)]
    /\ upRd \in [Streams -> Nat]
    /\ down \in [Streams -> Seq(Items)]
    /\ downRd \in [Streams -> Nat]
    /\ acked \in [Streams -> SUBSET Directions]
    /\ stopped \in [Streams -> SUBSET Directions]

QuicInit ==
    /\ listening = TRUE
    /\ pside = [c \in Conns |-> "none"]
    /\ cside = [c \in Conns |-> "none"]
    /\ up = [s \in Streams |-> <<>>]
    /\ upRd = [s \in Streams |-> 0]
    /\ down = [s \in Streams |-> <<>>]
    /\ downRd = [s \in Streams |-> 0]
    /\ acked = [s \in Streams |-> {}]
    /\ stopped = [s \in Streams |-> {}]

(***************************************************************************)
(* Stream operations, used inside the actions of the two ends.             *)
(***************************************************************************)
Ended(q) == q # <<>> /\ q[Len(q)] \in {Fin, Short}

\* What an end puts on the wire reaches a peer whose end is still up.
SendUp(s, q) ==
    up' = [up EXCEPT ![s] = IF pside[ConnOf[s]] = "open" THEN @ \o q ELSE @]
SendDown(s, q) ==
    down' = [down EXCEPT ![s] = IF cside[ConnOf[s]] = "open" THEN @ \o q ELSE @]

\* A writer of the provider: room for one more item, or an error.
Credit(s) == (downRd[s] + Window) - Len(down[s])
CanSendDown(s) ==
    /\ pside[ConnOf[s]] = "open"
    /\ "down" \notin stopped[s]
    /\ Len(down[s]) < downRd[s] + Window
SendDownFails(s) == pside[ConnOf[s]] = "down" \/ "down" \in stopped[s]

\* A writer of the client.
CanSendUp(s)   == cside[ConnOf[s]] = "open" /\ "up" \notin stopped[s]
SendUpFails(s) == cside[ConnOf[s]] = "down" \/ "up" \in stopped[s]

\* Readers: the next piece, or an error once the own end is down and the
\* rest of the stream is not known to have arrived.
CanReadUp(s)     == upRd[s] < Len(up[s])
ReadUpFails(s)   == pside[ConnOf[s]] = "down" /\ "up" \notin acked[s]
CanReadDown(s)   == downRd[s] < Len(down[s])
ReadDownFails(s) == cside[ConnOf[s]] = "down" /\ "down" \notin acked[s]

NextFrame(s) == up[s][upRd[s] + 1]
NextItem(s)  == down[s][downRd[s] + 1]

\* Dropping a SendStream that was not finished finishes it.
DropWriter(s) ==
    down' = [down EXCEPT ![s] =
               IF /\ pside[ConnOf[s]] = "open" /\ cside[ConnOf[s]] = "open"
                  /\ "down" \notin stopped[s] /\ ~Ended(@)
               THEN Append(@, Fin) ELSE @]

(***************************************************************************)
(* Steps of the transport itself.                                          *)
(***************************************************************************)
LiveConns == {c \in Conns : pside[c] = "open"}

\* A client starts to connect; the endpoint queues or refuses it.
Connect(c) ==
    /\ cside[c] = "none"
    /\ cside' = [cside EXCEPT ![c] = "connecting"]
    /\ pside' = [pside EXCEPT ![c] =
                   IF listening /\ Cardinality(LiveConns) < MAX_CONNECTIONS
                   THEN "open" ELSE "refused"]
    /\ UNCHANGED <<listening, wire>>

\* The client's end is established.
Establish(c) ==
    /\ cside[c] = "connecting" /\ pside[c] = "open"
    /\ cside' = [cside EXCEPT ![c] = "open"]
    /\ UNCHANGED <<listening, pside, wire>>

\* The client drops its last handle of the connection, or closes it.
DropConnection(c) == cside' = [cside EXCEPT ![c] = "down"]

\* The receiving transport acknowledges everything up to the end of stream.
Ack(s, d) ==
    /\ pside[ConnOf[s]] = "open" /\ cside[ConnOf[s]] = "open"
    /\ d \notin acked[s]
    /\ Ended(IF d = "up" THEN up[s] ELSE down[s])
    /\ acked' = [acked EXCEPT ![s] = @ \cup {d}]
    /\ UNCHANGED <<conns, up, upRd, down, downRd, stopped>>

\* A close of one end, or its idle timeout, is noticed by the other.
CloseReachesProvider(c) ==
    /\ cside[c] = "down" /\ pside[c] = "open"
    /\ pside' = [pside EXCEPT ![c] = "down"]
    /\ UNCHANGED <<listening, cside, wire>>

CloseReachesClient(c) ==
    /\ pside[c] \in {"down", "refused"} /\ cside[c] \in {"connecting", "open"}
    /\ cside' = [cside EXCEPT ![c] = "down"]
    /\ UNCHANGED <<listening, pside, wire>>

\* The network fails for good: one end times out first.
NetworkFails(c) ==
    /\ Lossy
    /\ pside[c] = "open" /\ cside[c] \in {"connecting", "open"}
    /\ \/ pside' = [pside EXCEPT ![c] = "down"] /\ UNCHANGED cside
       \/ cside' = [cside EXCEPT ![c] = "down"] /\ UNCHANGED pside
    /\ UNCHANGED <<listening, wire>>

Deliver ==
    \/ \E s \in Streams, d \in Directions : Ack(s, d)
    \/ \E c \in Conns : CloseReachesProvider(c) \/ CloseReachesClient(c)

QuicNext == Deliver \/ \E c \in Conns : NetworkFails(c)

\* Packets are retransmitted until acknowledged, and a peer that is gone is
\* noticed at the latest by the idle timeout.
QuicFairness == WF_quicVars(Deliver)
=============================================================================
