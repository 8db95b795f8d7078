----------------------------- MODULE MCProvider -----------------------------
(***************************************************************************)
(* Instances of OpenProvider for TLC.  Collection C lists two stored blobs *)
(* (the second empty), D a stored and a missing one; x is not stored.      *)
(***************************************************************************)
EXTENDS OpenProvider

MCHash == {"C", "D", "a", "e", "x"}
MCCollections == {"C", "D"}
MCBlobs == ("C" :> <<"a", "e">>) @@ ("D" :> <<"a", "x">>)
MCTotal == ("C" :> 2) @@ ("D" :> 3)
MCSegments == ("C" :> 1) @@ ("D" :> 1) @@ ("a" :> 2) @@ ("e" :> 0) @@ ("x" :> 1)
MCStored == ("C" :> "collection") @@ ("D" :> "collection")
            @@ ("a" :> "blob") @@ ("e" :> "blob") @@ ("x" :> "absent")
MCTokens == {"token", "other"}

\* A smaller database for the runs with two streams: one collection, one blob.
SmallHash == {"C", "a"}
SmallCollections == {"C"}
SmallBlobs == ("C" :> <<"a">>)
SmallTotal == ("C" :> 1)
SmallSegments == ("C" :> 0) @@ ("a" :> 1)
SmallStored == ("C" :> "collection") @@ ("a" :> "blob")

\* One connection with one stream, or two streams on one connection.
OneStream == {"s1"}
TwoStreams == {"s1", "s2"}
SameConn == [s \in Streams |-> "c1"]

\* Every kind of frame at every place; or a client that follows the protocol.
AnyFrame == {Handshake(VERSION, "token"), Handshake(VERSION, "other"),
             Handshake(VERSION + 1, "token"), Request("C"), Request("D"),
             Request("a"), Request("x"), Malformed, Short, Fin}
OneByOne == {<<f>> : f \in AnyFrame}
GoodRequest == {<<Handshake(VERSION, "token"), Request("C"), Fin>>}
=============================================================================
