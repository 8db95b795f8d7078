------------------------------ MODULE Transfer ------------------------------
(***************************************************************************)
(* The whole system: one provider and several getters, each with its own   *)
(* connection and stream, over the QUIC transport.  Getters come at any    *)
(* time and may be cancelled; the provider may be shut down at any time.   *)
(***************************************************************************)
EXTENDS Provider, Getter

ASSUME OneStreamPerConnection ==
    \A s, t \in Streams : ConnOf[s] = ConnOf[t] => s = t

vars == <<quicVars, providerVars, getterVars>>

Init == QuicInit /\ ProviderInit /\ GetterInit

Next ==
    \/ ProviderNext /\ UNCHANGED getterVars
    \/ GetterNext /\ UNCHANGED providerVars
    \/ QuicNext /\ UNCHANGED <<providerVars, getterVars>>

Spec == Init /\ [][Next]_vars
FairSpec == Spec /\ ProviderFairness /\ GetterFairness /\ QuicFairness

TypeOK == QuicTypeOK /\ ProviderTypeOK /\ GetterTypeOK

(***************************************************************************)
(* Safety of the two ends together.                                        *)
(***************************************************************************)

\* Once the provider reports a transfer completed the data is safe: however
\* soon it shuts down (test_server_close does so on this event), the
\* getter, if its own callbacks agree, goes on to the end.  The one failure
\* left is a getter that has not learnt yet that its request was sent.
CompletedDelivers ==
    \A s \in Streams :
        FilesIntact /\ Reported(s, TransferCompleted)
          => gpc[s] \notin {"lost", "invalid", "notfound", "panicked"}

\* A getter that returned Ok was sent the whole answer it asked for, and the
\* number of bytes it reports is the number it handed on.
OkIsServed ==
    \A s \in Streams :
        gpc[s] = "ok" => /\ Name(s) = Want[s]
                         /\ down[s] = Answer(Want[s])
                         /\ total[s] = delivered[s]

\* A getter with the right token asking for what the provider can serve
\* fails only if the provider was shut down, or refused the connection.
FailureHasCause ==
    \A s \in Streams :
        gpc[s] \in {"nosend", "lost", "invalid", "notfound", "panicked"}
          => \/ Lossy \/ ~FilesIntact \/ cancelled
             \/ TokenOf[s] # AuthToken
             \/ ~Servable(Want[s])
             \/ pside[ConnOf[s]] = "refused"

(***************************************************************************)
(* Liveness: every getter that starts returns, whatever the network, the   *)
(* files, the provider and its own callbacks do.  (Handlers that contend   *)
(* for a blocking thread are the subject of HandlersSettle.)               *)
(***************************************************************************)
GettersReturn == \A s \in Streams : (gpc[s] # "idle") ~> Returned(s)
=============================================================================
