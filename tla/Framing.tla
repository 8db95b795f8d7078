------------------------------ MODULE Framing ------------------------------
(***************************************************************************)
(* Length-prefixed messages on a byte stream (protocol.rs: write_lp,       *)
(* read_prefix, read_lp, read_lp_data, read_size_data).  The stream ends   *)
(* after `bytes'; a read returns as many of the bytes that are left as it  *)
(* likes.  The buffer belongs to the caller and outlives the call.         *)
(***************************************************************************)
EXTENDS Text

CONSTANTS
    PREFIX,          \* bytes of the length, lowest first (8)
    MAX_MESSAGE_SIZE \* messages are shorter than this

\* Lengths of messages fit into the prefix.
ASSUME FramingAssumption ==
    /\ PREFIX \in Nat \ {0} /\ MAX_MESSAGE_SIZE \in Nat
    /\ \A n \in 0..MAX_MESSAGE_SIZE : Shifted(n, 256, PREFIX)[PREFIX] = 0

VARIABLES
    bytes, \* what is sent on the stream
    rd,    \* how many of them have been read
    size,  \* the size of the message that is being read
    limit, \* how many bytes of it may still be read (take)
    buf,   \* the reader's buffer
    rpc    \* where the reader is, or how the call returned

frameVars == <<bytes, rd, size, limit, buf, rpc>>
Returned == {"message", "none", "panicked"}

FramingInit ==
    /\ bytes = <<>> /\ rd = 0 /\ size = 0 /\ limit = 0 /\ buf = <<>>
    /\ rpc = "idle"

\* write_lp; the length is a number of PREFIX bytes.
LittleEndian(n) == [i \in 1..PREFIX |-> Shifted(n, 256, PREFIX)[i - 1] % 256]
CanWrite(msg) == Len(msg) < MAX_MESSAGE_SIZE
Written(msg) == LittleEndian(Len(msg)) \o msg

Left == Len(bytes) - rd

\* read_prefix
ReadPrefix ==
    /\ rpc = "prefix" /\ Left >= PREFIX
    /\ size' = Number(SubSeq(bytes, rd + 1, rd + PREFIX), 256)
    /\ limit' = size'
    /\ rd' = rd + PREFIX
    /\ rpc' = "body"
    /\ UNCHANGED <<bytes, buf>>

PrefixEnds ==
    /\ rpc = "prefix" /\ Left < PREFIX
    /\ rd' = Len(bytes) /\ rpc' = "none"
    /\ UNCHANGED <<bytes, size, limit, buf>>

\* Mutant of ReadBuf: the reader is not limited to the message.
ReadBufUnlimited(n) ==
    /\ rpc = "body" /\ Len(buf) < size
    /\ n <= Left
    /\ buf' = buf \o SubSeq(bytes, rd + 1, rd + n)
    /\ rd' = rd + n
    /\ limit' = IF n <= limit THEN limit - n ELSE 0
    /\ UNCHANGED <<bytes, size, rpc>>

\* read_buf appends to the buffer.
ReadBuf(n) ==
    /\ rpc = "body"
    /\ n <= limit /\ n <= Left
    /\ buf' = buf \o SubSeq(bytes, rd + 1, rd + n)
    /\ rd' = rd + n /\ limit' = limit - n
    /\ UNCHANGED <<bytes, size, rpc>>

\* The loop ends with the message or with the stream.  Both readers take the
\* first `size' bytes of the buffer, whether they are there or not.
LoopEnds ==
    /\ rpc = "body" /\ (limit = 0 \/ Left = 0)
    /\ rpc' = IF Len(buf) >= size THEN "message" ELSE "panicked"
    /\ UNCHANGED <<bytes, rd, size, limit, buf>>

Message == SubSeq(buf, 1, size)

ReadStep == ReadPrefix \/ PrefixEnds \/ LoopEnds \/ \E n \in 1..Left : ReadBuf(n)
=============================================================================
