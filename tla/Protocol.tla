------------------------------ MODULE Protocol ------------------------------
(***************************************************************************)
(* What travels on one bidirectional stream between a getter and a         *)
(* provider (protocol.rs), and the data both sides know by hash.           *)
(*                                                                         *)
(* Bytes are abstracted to the pieces the code tells apart.  A `frame' is  *)
(* one length-prefixed message of the getter, an `item' one message or one *)
(* bao segment of the provider.  Sizes count segments: a blob of n         *)
(* segments is encoded as its size followed by n data segments.            *)
(***************************************************************************)
EXTENDS Naturals, Sequences, FiniteSets

CONSTANTS
    Hash,           \* hashes that can be asked for or stored
    Collections,    \* the hashes whose content decodes as a Collection
    Blobs,          \* Blobs[h]: the hashes a collection lists, in order
    TotalBlobsSize, \* TotalBlobsSize[h]: a collection's total_blobs_size
    Segments,       \* Segments[h]: the size of the content of h
    Stored,         \* Stored[h]: what the provider's Database holds under h
    Tokens,         \* the tokens a client may present
    AuthToken,      \* the provider's token
    MAX_DATA_SIZE   \* the largest size a getter accepts

VERSION == 1

ASSUME HashAssumption ==
    /\ Collections \subseteq Hash
    /\ Blobs \in [Collections -> Seq(Hash)]
    /\ TotalBlobsSize \in [Collections -> Nat]
    /\ Segments \in [Hash -> Nat]
    /\ Stored \in [Hash -> {"absent", "blob", "collection"}]
    /\ \A h \in Hash : Stored[h] = "collection" => h \in Collections

ASSUME TokenAssumption == AuthToken \in Tokens

ASSUME SizeAssumption == MAX_DATA_SIZE \in Nat

(***************************************************************************)
(* The getter's messages.  `malformed' is a message that does not decode,  *)
(* `short' one whose stream ends before the announced length, `fin' the    *)
(* end of the stream.                                                      *)
(***************************************************************************)
Handshake(v, t) == [t |-> "handshake", version |-> v, token |-> t]
Request(h)      == [t |-> "request", name |-> h]
Malformed       == [t |-> "malformed"]
Short           == [t |-> "short"]
Fin             == [t |-> "fin"]

Frames == [t : {"handshake"}, version : {VERSION, VERSION + 1}, token : Tokens]
          \cup [t : {"request"}, name : Hash]
          \cup [t : {"malformed", "short", "fin"}]

\* Mutant of ValidHandshake: the token is not compared.
ValidVersion(f) == f.t = "handshake" /\ f.version = VERSION

\* The check of read_handshake on a decoded handshake.
ValidHandshake(f) == f = Handshake(VERSION, AuthToken)

(***************************************************************************)
(* The provider's messages.  `corrupt' is a segment that does not belong   *)
(* to any content (read from a file that changed).                         *)
(***************************************************************************)
NotFound           == [t |-> "notfound"]
Found              == [t |-> "found"]
FoundCollection(n) == [t |-> "foundcollection", n |-> n]
Size(n)            == [t |-> "size", n |-> n]
Data(h, i)         == [t |-> "data", h |-> h, i |-> i]
Corrupt            == [t |-> "corrupt"]

Items == [t : {"notfound", "found", "corrupt", "fin"}]
         \cup [t : {"foundcollection", "size"}, n : Nat]
         \cup [t : {"data"}, h : Hash, i : Nat]

\* The bao encoding of the content of h: the size header, then the content.
Enc(h) == [k \in 1..(Segments[h] + 1) |->
             IF k = 1 THEN Size(Segments[h]) ELSE Data(h, k - 1)]
=============================================================================
