------------------------------ MODULE MCGetter ------------------------------
(***************************************************************************)
(* Instances of OpenGetter for TLC.  Collection C lists a blob of two      *)
(* segments, an empty one and one of one segment; b is not a collection.   *)
(***************************************************************************)
EXTENDS OpenGetter, TLC

MCHash == {"C", "a", "b", "e"}
MCBlobs == ("C" :> <<"a", "e", "b">>)
MCTotal == ("C" :> 3)
MCSegments == ("C" :> 1) @@ ("a" :> 2) @@ ("e" :> 0) @@ ("b" :> 1)
MCStored == [h \in MCHash |-> "absent"]

MCConnOf == [s \in Streams |-> "c1"]
WantC == [s \in Streams |-> "C"]
MCTokenOf == [s \in Streams |-> "token"]

\* Announced sizes that are too small, right, too large and over the limit.
MCItems == {NotFound, Found, Corrupt, Fin}
           \cup {FoundCollection(n) : n \in {2, 3, 5}} \cup {Size(n) : n \in {0, 1, 2, 5}}
           \cup {Data("C", 1), Data("a", 1), Data("a", 2), Data("b", 1)}
=============================================================================
