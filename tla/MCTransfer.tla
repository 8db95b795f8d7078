----------------------------- MODULE MCTransfer -----------------------------
(***************************************************************************)
(* Instances of Transfer for TLC.                                          *)
(***************************************************************************)
EXTENDS Transfer

MCHash == {"C", "a", "b"}
MCBlobs == ("C" :> <<"a", "b">>)
MCTotal == ("C" :> 2)
MCSegments == ("C" :> 1) @@ ("a" :> 1) @@ ("b" :> 1)
MCStored == ("C" :> "collection") @@ ("a" :> "blob") @@ ("b" :> "blob")

\* A collection with one blob, for liveness.
SmallBlobs == ("C" :> <<"a">>)
SmallTotal == ("C" :> 1)
SmallSegments == ("C" :> 0) @@ ("a" :> 1) @@ ("b" :> 1)
SmallStored == ("C" :> "collection") @@ ("a" :> "blob") @@ ("b" :> "absent")

\* The same with a collection of no segments, for the run with two getters.
PairSegments == ("C" :> 0) @@ ("a" :> 1) @@ ("b" :> 1)

OneConn == ("s1" :> "c1")
OwnConn == ("s1" :> "c1") @@ ("s2" :> "c2")
WantC == [s \in Streams |-> "C"]
WantCandA == ("s1" :> "C") @@ ("s2" :> "a")
RightToken == [s \in Streams |-> "token"]
=============================================================================
