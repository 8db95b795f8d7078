-------------------------------- MODULE Text --------------------------------
(***************************************************************************)
(* The texts in which hashes, peer ids, tokens and tickets travel from a   *)
(* provider to a getter (util.rs, protocol.rs, tls.rs, provider.rs) and    *)
(* the CID of the command line (main.rs).                                  *)
(*                                                                         *)
(* A text is a sequence of characters, a character being its place in the  *)
(* base64url alphabet: 0 to 25 are upper case letters, 26 to 51 lower case *)
(* letters, then come the digits, - and _; 64 is any other character.      *)
(***************************************************************************)
EXTENDS Postcard

CONSTANTS
    KEY,       \* the length of hashes, keys and tokens in bytes (32)
    PublicKeys \* the byte strings of that length that are points on the curve

Byte == 0..255
Keys == [1..KEY -> Byte]
Addrs == [ip : [1..4 -> Byte] \cup [1..16 -> Byte], port : 0..(2^16 - 1)]

ASSUME TextAssumption == KEY \in 1..127 /\ PublicKeys \subseteq Keys

(***************************************************************************)
(* Encoding in symbols of w bits, without padding: base64 (w = 6) and      *)
(* base32 (w = 5).  Decoding refuses symbols of no alphabet, a symbol that *)
(* is left over, and bits left over that are not zero.                     *)
(***************************************************************************)
Bit(q, w, k) == IF k \div w < Len(q) THEN (q[k \div w + 1] \div 2^(w - 1 - (k % w))) % 2 ELSE 0

Regroup(q, w, v, n) == [j \in 1..n |-> Number([i \in 1..v |-> Bit(q, w, j * v - i)], 2)]

Encode(b, w) == Regroup(b, 8, w, (8 * Len(b) + w - 1) \div w)

\* Mutant of Decode: bits that are left over are dropped.
DecodeLoose(t, w) ==
    LET n == (Len(t) * w) \div 8 IN
    IF (\A i \in 1..Len(t) : t[i] < 2^w) /\ Len(t) * w - 8 * n < w
    THEN Took(Regroup(t, w, 8, n), <<>>) ELSE Fail

Decode(t, w) ==
    LET n == (Len(t) * w) \div 8 IN
    IF /\ \A i \in 1..Len(t) : t[i] < 2^w
       /\ Len(t) * w - 8 * n < w
       /\ \A k \in (8 * n)..(Len(t) * w - 1) : Bit(t, w, k) = 0
    THEN Took(Regroup(t, w, 8, n), <<>>) ELSE Fail

\* Hash and AuthToken: to_string and from_str.
KeyText(b) == Encode(b, 6)
ParseKey(t) == Then(Decode(t, 6), LAMBDA b, rest : IF Len(b) = KEY THEN Took(b, <<>>) ELSE Fail)

\* PeerId: its bytes must be a public key as well.
ParsePeer(t) == Then(Decode(t, 6), LAMBDA b, rest : IF b \in PublicKeys THEN Took(b, <<>>) ELSE Fail)

(***************************************************************************)
(* Blake3Cid, which the get command takes: a prefix and the body.  The     *)
(* lower case base32 alphabet is a to z and 2 to 7.  A text that does not  *)
(* start with b or has another length goes to the multibase crate          *)
(* (external): b is base32, u is base64url; other prefixes are left out.   *)
(***************************************************************************)
CID_PREFIX == <<1, 85, 30, 32>>
CidLen == (8 * (Len(CID_PREFIX) + KEY) + 4) \div 5

ToBase32(c) == CASE c \in 26..51 -> c - 26 [] c \in 54..59 -> c - 28 [] OTHER -> 64
FromBase32(v) == IF v < 26 THEN v + 26 ELSE v + 28
EncodeBase32(b) == LET e == Encode(b, 5) IN [i \in 1..Len(e) |-> FromBase32(e[i])]
DecodeBase32(t) == Decode([i \in 1..Len(t) |-> ToBase32(t[i])], 5)

CidText(h) == [prefix |-> "b", body |-> EncodeBase32(CID_PREFIX \o h)]

Multibase(c) ==
    CASE c.prefix = "b" -> DecodeBase32(c.body)
      [] c.prefix = "u" -> Decode(c.body, 6)
      [] OTHER -> Fail

\* make_ascii_uppercase before decoding: letters of either case are accepted.
AnyCase(t) == [i \in 1..Len(t) |-> IF t[i] < 26 THEN t[i] + 26 ELSE t[i]]

CidFromBytes(b) ==
    IF Len(b) = KEY + 4 /\ SubSeq(b, 1, 4) = CID_PREFIX THEN Took(Drop(b, 4), <<>>) ELSE Fail

ParseCid(c) ==
    Then(IF c.prefix = "b" /\ Len(c.body) = CidLen THEN DecodeBase32(AnyCase(c.body)) ELSE Multibase(c),
         LAMBDA b, rest : CidFromBytes(b))

(***************************************************************************)
(* Ticket: hash and peer with their lengths, the address as a variant of   *)
(* SocketAddr, the token without a length.  Bytes after the ticket are not *)
(* looked at.                                                              *)
(***************************************************************************)
AddrBytes(a) == <<IF Len(a.ip) = 4 THEN 0 ELSE 1>> \o a.ip \o Varint(a.port)

TakeAddr(b) ==
    Then(TakeVarint(b, 5), LAMBDA variant, r1 :
    Then(IF variant = 0 THEN TakeBytes(r1, 4)
         ELSE IF variant = 1 THEN TakeBytes(r1, 16) ELSE Fail, LAMBDA ip, r2 :
    Then(TakeVarint(r2, 3), LAMBDA port, r3 :
         IF port < 2^16 THEN Took([ip |-> ip, port |-> port], r3) ELSE Fail)))

TicketBytes(t) == Lp(t.hash) \o Lp(t.peer) \o AddrBytes(t.addr) \o t.token

TicketFromBytes(b) ==
    Then(TakeLp(b), LAMBDA hash, r1 : IF Len(hash) # KEY THEN Fail ELSE
    Then(TakeLp(r1), LAMBDA peer, r2 : IF peer \notin PublicKeys THEN Fail ELSE
    Then(TakeAddr(r2), LAMBDA addr, r3 :
    Then(TakeBytes(r3, KEY), LAMBDA token, r4 :
         Took([hash |-> hash, peer |-> peer, addr |-> addr, token |-> token], r4)))))

TicketText(t) == Encode(TicketBytes(t), 6)
ParseTicket(text) == Then(Decode(text, 6), LAMBDA b, rest : TicketFromBytes(b))
=============================================================================
