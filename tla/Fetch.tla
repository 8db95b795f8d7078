-------------------------------- MODULE Fetch --------------------------------
(***************************************************************************)
(* What a getter promises its caller, without any network: the blobs of    *)
(* the collection arrive in order, each segment once and verified; the     *)
(* result is Ok only if every blob arrived, completely unless the caller   *)
(* itself gave it up early; failing is always allowed.                     *)
(***************************************************************************)
EXTENDS Naturals, Sequences

CONSTANTS
    Getters, Want, Collections, Blobs, Segments,
    LazyBlobs \* the blobs a caller may stop reading early

VARIABLES
    result, \* result[g]: "pending", "ok" or "failed"
    got,    \* got[g]: how much arrived of each blob that is done with
    part    \* part[g]: segments of the next blob that have arrived

fetchVars == <<result, got, part>>

Init ==
    /\ result = [g \in Getters |-> "pending"]
    /\ got = [g \in Getters |-> <<>>]
    /\ part = [g \in Getters |-> 0]

Expecting(g) ==
    /\ result[g] = "pending"
    /\ Want[g] \in Collections
    /\ Len(got[g]) < Len(Blobs[Want[g]])
NextHash(g) == Blobs[Want[g]][Len(got[g]) + 1]
NextSize(g) == Segments[NextHash(g)]

DeliverSegment(g) ==
    /\ Expecting(g) /\ part[g] < NextSize(g)
    /\ part' = [part EXCEPT ![g] = @ + 1]
    /\ UNCHANGED <<result, got>>

CompleteBlob(g) ==
    /\ Expecting(g) /\ (part[g] = NextSize(g) \/ NextHash(g) \in LazyBlobs)
    /\ got' = [got EXCEPT ![g] = Append(@, part[g])]
    /\ part' = [part EXCEPT ![g] = 0]
    /\ UNCHANGED result

Succeed(g) ==
    /\ result[g] = "pending"
    /\ Want[g] \in Collections /\ Len(got[g]) = Len(Blobs[Want[g]])
    /\ result' = [result EXCEPT ![g] = "ok"]
    /\ UNCHANGED <<got, part>>

\* What has arrived of the current blob is given up.
Fail(g) ==
    /\ result[g] = "pending"
    /\ result' = [result EXCEPT ![g] = "failed"]
    /\ part' = [part EXCEPT ![g] = 0]
    /\ UNCHANGED got

Next == \E g \in Getters :
    DeliverSegment(g) \/ CompleteBlob(g) \/ Succeed(g) \/ Fail(g)

Spec == Init /\ [][Next]_fetchVars
=============================================================================
