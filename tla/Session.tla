------------------------------ MODULE Session ------------------------------
(***************************************************************************)
(* From a ticket to an accepted request: a provider hands out a text, the  *)
(* text reaches a getter, perhaps damaged, the getter connects to whoever  *)
(* listens at the address by then, both sides check certificates, and the  *)
(* request is read from the stream and answered.                           *)
(*                                                                         *)
(* Providers come and go at their addresses: one that was restarted has    *)
(* another token and, without a key file, another identity.  Other TLS     *)
(* servers may listen there too, and other clients may connect.            *)
(***************************************************************************)
EXTENDS Framing, Certificate

CONSTANTS
    Providers,    \* Providers[i]: key, certKey, token, addr, the hash of its
                  \* collection and the size of the blobs, of a provider
    OtherServers, \* what other TLS servers present: addr, chain, dss
    OtherClients, \* what other clients present: chain, dss
    Symbols,      \* bound: symbols a damaged text may get
    Cuts          \* bound: how many bytes other clients send before they finish

ProviderIds == DOMAIN Providers

ASSUME SessionAssumption ==
    /\ \A i \in ProviderIds :
         LET p == Providers[i] IN
         /\ p.key \in PublicKeys /\ p.token \in Keys /\ p.hash \in Keys /\ p.addr \in Addrs
         /\ p.size \in Nat /\ VarintLen(p.size) \in 1..10
    /\ \A o \in OtherServers \cup OtherClients : IsChain(o.chain)
    /\ Symbols \subseteq 0..64 /\ Cuts \subseteq 0..(2 * PREFIX + 2 * KEY + 4)
    /\ MAX_MESSAGE_SIZE > 12 /\ MAX_MESSAGE_SIZE > KEY + 2

VERSION == 1
None == [kind |-> "none"]

VARIABLES
    listener, \* what listens at the address: none, a provider or a server
    issued,   \* the ticket that was handed out, as a record
    issuer,   \* history: the provider that made it
    form,     \* as one text ("ticket") or as the arguments of get ("get")
    text,     \* its text, or its texts
    damaged,  \* history: the text was changed on the way
    parsed,   \* what the getter makes of it
    pc,       \* where the session is, or how it ended
    tls,      \* the TLS handshake: who verified what, and the verdict
    stage     \* what is read from the stream: "handshake", "request", "response"

sessionVars == <<listener, issued, issuer, form, text, damaged, parsed, pc, tls, stage>>
vars == <<sessionVars, frameVars>>

Own == Providers[listener.id]

Init ==
    /\ listener = None /\ issued = None /\ issuer = 0 /\ parsed = None /\ tls = None
    /\ form \in {"ticket", "get"}
    /\ text = <<>> /\ damaged = FALSE /\ pc = "start" /\ stage = "handshake"
    /\ FramingInit

(***************************************************************************)
(* Who listens.                                                            *)
(***************************************************************************)
Listen(i) ==
    /\ pc \in {"start", "text"} /\ listener = None
    /\ listener' = [kind |-> "provider", id |-> i, addr |-> Providers[i].addr]
    /\ UNCHANGED <<issued, issuer, form, text, damaged, parsed, pc, tls, stage, frameVars>>

ListenOther(o) ==
    /\ pc = "text" /\ listener = None
    /\ listener' = [kind |-> "other", id |-> o, addr |-> o.addr]
    /\ UNCHANGED <<issued, issuer, form, text, damaged, parsed, pc, tls, stage, frameVars>>

StopListening ==
    /\ pc = "text" /\ listener # None
    /\ listener' = None
    /\ UNCHANGED <<issued, issuer, form, text, damaged, parsed, pc, tls, stage, frameVars>>

(***************************************************************************)
(* The text: Provider::ticket, or the three values a provider prints.      *)
(***************************************************************************)
Issue ==
    /\ pc = "start" /\ listener # None
    /\ issued' = [hash |-> Own.hash, peer |-> Own.key, addr |-> Own.addr, token |-> Own.token]
    /\ issuer' = listener.id
    /\ text' = IF form = "ticket" THEN TicketText(issued')
               ELSE [hash |-> CidText(Own.hash), peer |-> KeyText(Own.key), token |-> KeyText(Own.token)]
    /\ pc' = "text"
    /\ UNCHANGED <<listener, form, damaged, parsed, tls, stage, frameVars>>

\* A symbol is changed, the end is lost, or a symbol is added.
Damaged(t) ==
    {[t EXCEPT ![i] = c] : i \in 1..Len(t), c \in Symbols}
    \cup {SubSeq(t, 1, i) : i \in 0..(Len(t) - 1)}
    \cup {Append(t, c) : c \in Symbols}

Damage ==
    /\ pc = "text" /\ ~damaged
    /\ \/ form = "ticket" /\ \E t \in Damaged(text) \ {text} : text' = t
       \/ form = "get" /\ \E t \in Damaged(text.hash.body), p \in {"b", "u", "x"} :
              /\ <<p, t>> # <<text.hash.prefix, text.hash.body>>
              /\ text' = [text EXCEPT !.hash = [prefix |-> p, body |-> t]]
       \/ form = "get" /\ \E t \in Damaged(text.peer) \ {text.peer} : text' = [text EXCEPT !.peer = t]
       \/ form = "get" /\ \E t \in Damaged(text.token) \ {text.token} : text' = [text EXCEPT !.token = t]
    /\ damaged' = TRUE
    /\ UNCHANGED <<listener, issued, issuer, form, parsed, pc, tls, stage, frameVars>>

\* main: the arguments of get, or the ticket of get-ticket.
ParseGet ==
    Then(ParseCid(text.hash), LAMBDA hash, r1 :
    Then(ParsePeer(text.peer), LAMBDA peer, r2 :
    Then(ParseKey(text.token), LAMBDA token, r3 :
         Took([hash |-> hash, peer |-> peer, addr |-> issued.addr, token |-> token], <<>>))))
ParseArgs == IF form = "ticket" THEN ParseTicket(text) ELSE ParseGet

ParseText ==
    /\ pc = "text"
    /\ \/ ParseArgs.ok /\ parsed' = ParseArgs.v /\ pc' = "connect"
       \/ ~ParseArgs.ok /\ pc' = "badtext" /\ UNCHANGED parsed
    /\ UNCHANGED <<listener, issued, issuer, form, text, damaged, tls, stage, frameVars>>

(***************************************************************************)
(* setup: connecting and the TLS handshake.  Both sides check the other's  *)
(* certificate; the getter makes a new key for every connection.           *)
(***************************************************************************)
Chain == IF listener.kind = "provider" THEN <<Generate(Own.key, Own.certKey)>> ELSE listener.id.chain
Dss == IF listener.kind = "provider"
       THEN [scheme |-> "ECDSA_NISTP256_SHA256", by |-> Own.certKey] ELSE listener.id.dss
GetterChain == <<Generate("getter", "getter cert")>>
GetterDss == [scheme |-> "ECDSA_NISTP256_SHA256", by |-> "getter cert"]

ServerVerified(chain, dss, peer) ==
    VerifyServerCert(chain, <<peer>>) = "" /\ VerifyTls13Signature(chain[1], dss)
ClientVerified(chain, dss) == VerifyClientCert(chain) = "" /\ VerifyTls13Signature(chain[1], dss)

\* The messages.  A hash has its length in front, a token has not.
HandshakeMsg(token) == Varint(VERSION) \o token
RequestMsg(hash) == Varint(1) \o Lp(hash)
ResponseMsg(id, hash) == Varint(id) \o IF hash = Own.hash THEN Varint(2) \o Varint(Own.size) ELSE Varint(0)

HandshakeFrom(b) ==
    Then(TakeVarint(b, 10), LAMBDA version, r : Then(TakeBytes(r, KEY),
         LAMBDA token, r2 : Took([version |-> version, token |-> token], r2)))
RequestFrom(b) ==
    Then(TakeVarint(b, 10), LAMBDA id, r : Then(TakeLp(r), LAMBDA hash, r2 :
         IF Len(hash) = KEY THEN Took([id |-> id, name |-> hash], r2) ELSE Fail))
ResponseFrom(b) ==
    Then(TakeVarint(b, 10), LAMBDA id, r : Then(TakeVarint(r, 5), LAMBDA variant, r2 :
         IF variant = 2 THEN Then(TakeVarint(r2, 10), LAMBDA sum, r3 : Took("found", r3))
         ELSE IF variant < 2 THEN Took("notfound", r2) ELSE Fail))

\* The getter encodes both into a buffer of POSTCARD_MAX_SIZE, which counts
\* 10 bytes for a number and KEY for a hash.
Sendable(msg) == Len(msg) <= 10 + KEY /\ CanWrite(msg)
Upload(token, hash) == Written(HandshakeMsg(token)) \o Written(RequestMsg(hash))

Reachable == listener # None /\ listener.addr = parsed.addr

Connect ==
    /\ pc = "connect" /\ Reachable
    /\ LET ok == ServerVerified(Chain, Dss, parsed.peer) IN
       /\ tls' = [kind |-> "server", chain |-> Chain, dss |-> Dss, peer |-> parsed.peer, ok |-> ok]
       /\ IF ok /\ listener.kind = "provider" /\ ClientVerified(GetterChain, GetterDss)
                /\ Sendable(HandshakeMsg(parsed.token)) /\ Sendable(RequestMsg(parsed.hash))
          THEN /\ pc' = "reading" /\ rpc' = "prefix"
               /\ bytes' = Upload(parsed.token, parsed.hash)
          ELSE /\ pc' = IF ok THEN "elsewhere" ELSE "refused"
               /\ UNCHANGED <<rpc, bytes>>
    /\ UNCHANGED <<listener, issued, issuer, form, text, damaged, parsed, stage, rd, size, limit, buf>>

NoConnection ==
    /\ pc = "connect" /\ ~Reachable
    /\ pc' = "lost"
    /\ UNCHANGED <<listener, issued, issuer, form, text, damaged, parsed, tls, stage, frameVars>>

\* Another client with the ticket: another build, with certificates of its
\* own, or one that dies; it finishes its stream after n bytes, the last of
\* which may be one too many.
OtherClient(client, n) ==
    /\ pc = "text" /\ listener.kind = "provider" /\ ~damaged /\ form = "ticket"
    /\ LET ok == ClientVerified(client.chain, client.dss) IN
       /\ tls' = [kind |-> "client", chain |-> client.chain, dss |-> client.dss, ok |-> ok]
       /\ IF ok THEN /\ pc' = "reading" /\ rpc' = "prefix" /\ parsed' = issued
                     /\ bytes' = SubSeq(Append(Upload(issued.token, issued.hash), 0), 1, n)
                ELSE pc' = "refused" /\ UNCHANGED <<rpc, bytes, parsed>>
    /\ UNCHANGED <<listener, issued, issuer, form, text, damaged, stage, rd, size, limit, buf>>

(***************************************************************************)
(* The provider reads handshake and request and answers.                   *)
(***************************************************************************)
Reading(s) == pc = "reading" /\ stage = s
OnlyFrames == UNCHANGED <<listener, issued, issuer, form, text, damaged, parsed, tls>>

Read == pc = "reading" /\ ReadStep /\ UNCHANGED sessionVars

\* ensure: the version and the token are the provider's own.
Accepted(m) == m.ok /\ m.v = [version |-> VERSION, token |-> Own.token]

\* Mutant of HandshakeRead: the buffer keeps the handshake.
HandshakeReadKept ==
    /\ Reading("handshake") /\ rpc = "message"
    /\ \/ /\ Accepted(HandshakeFrom(Message))
          /\ stage' = "request" /\ rpc' = "prefix" /\ UNCHANGED <<pc, buf>>
       \/ /\ ~Accepted(HandshakeFrom(Message))
          /\ pc' = "refused" /\ UNCHANGED <<stage, rpc, buf>>
    /\ OnlyFrames /\ UNCHANGED <<bytes, rd, size, limit>>

\* read_handshake
HandshakeRead ==
    /\ Reading("handshake") /\ rpc = "message"
    /\ \/ /\ Accepted(HandshakeFrom(Message))
          /\ stage' = "request" /\ rpc' = "prefix" /\ buf' = Drop(buf, size) /\ UNCHANGED pc
       \/ /\ ~Accepted(HandshakeFrom(Message))
          /\ pc' = "refused" /\ UNCHANGED <<stage, rpc, buf>>
    /\ OnlyFrames /\ UNCHANGED <<bytes, rd, size, limit>>

\* read_request, the look-up of the hash, and the response on the stream's
\* other direction, where the getter reads into a buffer of its own.
RequestRead ==
    /\ Reading("request") /\ rpc = "message"
    /\ LET m == RequestFrom(Message) IN
       IF m.ok /\ Left = 0
       THEN /\ stage' = "response" /\ rpc' = "prefix" /\ UNCHANGED pc
            /\ bytes' = Written(ResponseMsg(m.v.id, m.v.name)) /\ rd' = 0 /\ buf' = <<>>
       ELSE pc' = "refused" /\ UNCHANGED <<stage, rpc, bytes, rd, buf>>
    /\ OnlyFrames /\ UNCHANGED <<size, limit>>

\* The getter: read_lp_data splits the message off, then it is decoded.
ResponseRead ==
    /\ Reading("response") /\ rpc = "message"
    /\ LET m == ResponseFrom(Message) IN
       pc' = IF m.ok THEN m.v ELSE "refused"
    /\ buf' = Drop(buf, size)
    /\ OnlyFrames /\ UNCHANGED <<stage, bytes, rd, size, limit, rpc>>

\* No message: an error of the handler; a panic ends it as well.
ReadEnds ==
    /\ pc = "reading" /\ rpc \in {"none", "panicked"}
    /\ pc' = IF rpc = "none" THEN "refused" ELSE "panicked"
    /\ OnlyFrames /\ UNCHANGED <<stage, frameVars>>

Next ==
    \/ \E i \in ProviderIds : Listen(i)
    \/ \E o \in OtherServers : ListenOther(o)
    \/ StopListening \/ Issue \/ Damage \/ ParseText
    \/ Connect \/ NoConnection
    \/ \E c \in OtherClients, n \in Cuts : OtherClient(c, n)
    \/ Read \/ HandshakeRead \/ RequestRead \/ ResponseRead \/ ReadEnds

Spec == Init /\ [][Next]_vars

(***************************************************************************)
(* Properties.                                                             *)
(***************************************************************************)

\* A getter is answered only by the provider its ticket names, which holds
\* the private key and the token in it, and the answer is about the hash in
\* it - whatever happened to the text, and whoever listens at the address
\* now; from an undamaged text that is the provider that made it.
AnsweredAsNamed ==
    pc \in {"found", "notfound"} =>
        /\ Own.token = parsed.token
        /\ tls.kind = "server" => Own.key = parsed.peer
        /\ pc = "found" <=> Own.hash = parsed.hash
        /\ ~damaged => parsed = issued

\* The verdicts on certificates are those of the specification the code
\* follows: for the peer that was asked for on the getter's side, for
\* any peer on the provider's.
VerdictsExact ==
    /\ tls.kind = "server" => (tls.ok <=> Proves(tls.chain, tls.dss, tls.peer))
    /\ tls.kind = "client" =>
         (tls.ok <=> \E i \in DOMAIN tls.chain :
                       \E e \in DOMAIN tls.chain[i].exts :
                           Proves(tls.chain, tls.dss, tls.chain[i].exts[e].host))

\* A text that lost its end is refused, and one that was changed is refused
\* or taken for something else, except for what the formats do not look at:
\* the case of a CID and what follows a ticket.
DamageIsSeen ==
    damaged /\ parsed # None =>
        IF form = "ticket"
        THEN LET sent == TicketText(issued) IN
             Len(text) >= Len(sent) /\ (parsed = issued => IsPrefix(sent, text))
        ELSE /\ Len(text.hash.body) = CidLen
             /\ Len(text.peer) = Len(KeyText(issued.peer))
             /\ Len(text.token) = Len(KeyText(issued.token))
             /\ parsed = issued =>
                  /\ text.peer = KeyText(issued.peer) /\ text.token = KeyText(issued.token)
                  /\ [text.hash EXCEPT !.body = AnyCase(text.hash.body)] = CidText(issued.hash)

\* A getter with the text as it was handed out, while the provider that made
\* it listens, is answered with its collection: encoding, checks, framing
\* and decoding lose nothing on the way.
RefusalHasCause ==
    /\ pc = "badtext" => damaged
    /\ pc \in {"refused", "elsewhere", "lost", "panicked", "notfound"} =>
         \/ damaged \/ tls.kind = "client"
         \/ listener.kind # "provider" \/ listener.id # issuer

\* However the stream cuts the bytes into reads, and whatever an earlier
\* message left in the buffer, the reader hands on the messages as they
\* were written, in their order.
MessagesAsWritten ==
    pc = "reading" /\ rpc = "message" =>
        Message = CASE stage = "handshake" -> HandshakeMsg(parsed.token)
                    [] stage = "request" -> RequestMsg(parsed.hash)
                    [] OTHER -> ResponseMsg(1, parsed.hash)
=============================================================================
