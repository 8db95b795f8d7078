----------------------------- MODULE OpenGetter -----------------------------
(***************************************************************************)
(* A getter facing a provider of which nothing is assumed but that it      *)
(* speaks QUIC: it sends any items in any order, at any time stops,        *)
(* finishes or closes.  It cannot invent content: a segment Data(h, i) is  *)
(* the i-th segment of the content with hash h.                            *)
(***************************************************************************)
EXTENDS Getter

CONSTANT
    ProviderItems \* bound: the items providers send

ASSUME ItemsAssumption == ProviderItems \subseteq Items

\* One item is in flight at a time: the getter reads them one by one.
ProviderSends(s, it) ==
    /\ pside[ConnOf[s]] = "open" /\ cside[ConnOf[s]] = "open"
    /\ gpc[s] \notin {"connected", "request", "oncollection"}
    /\ ~Ended(down[s]) /\ downRd[s] = Len(down[s])
    /\ SendDown(s, <<it>>)
    /\ UNCHANGED <<conns, up, upRd, downRd, acked, stopped>>

ProviderStops(s) ==
    /\ pside[ConnOf[s]] = "open" /\ up[s] # <<>> /\ "up" \notin stopped[s]
    /\ stopped' = [stopped EXCEPT ![s] = @ \cup {"up"}]
    /\ UNCHANGED <<conns, up, upRd, down, downRd, acked>>

ProviderCloses(c) ==
    /\ pside[c] = "open"
    /\ pside' = [pside EXCEPT ![c] = "down"]
    /\ UNCHANGED <<listening, cside, wire>>

ProviderMoves ==
    \/ \E s \in Streams, it \in ProviderItems : ProviderSends(s, it)
    \/ \E s \in Streams : ProviderStops(s)
    \/ \E c \in Conns : ProviderCloses(c)

OpenGetterInit == QuicInit /\ GetterInit

OpenGetterNext ==
    \/ GetterNext
    \/ (QuicNext \/ ProviderMoves) /\ UNCHANGED getterVars

GetterSpec == OpenGetterInit /\ [][OpenGetterNext]_gvars
FairGetterSpec == GetterSpec /\ GetterFairness /\ QuicFairness
=============================================================================
