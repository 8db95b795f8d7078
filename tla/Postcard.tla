------------------------------ MODULE Postcard ------------------------------
(***************************************************************************)
(* The postcard encoding of numbers and byte strings, as the messages, the *)
(* tickets and the collections use it (external, modelled from its use).   *)
(* Bytes are numbers below 256.  A decoder takes its value off the front   *)
(* of the bytes and leaves the rest.                                       *)
(***************************************************************************)
EXTENDS Naturals, Sequences, FiniteSetsExt

\* The number with the digits q to the base b, the lowest first.
Number(q, b) ==
    LET last[k \in 0..Len(q)] == IF k = 0 THEN 0 ELSE q[Len(q) + 1 - k] + b * last[k - 1]
    IN last[Len(q)]

\* Shifted(n, b, k)[i]: what is left of n without its i lowest digits.
Shifted(n, b, k) == LET shift[i \in 0..k] == IF i = 0 THEN n ELSE shift[i - 1] \div b IN shift

\* Numbers are varints: 7 bits a byte, the lowest first, with a mark on
\* every byte but the last.  One of 64 bits takes at most 10 bytes.
VarintLen(n) ==
    IF n < 128 THEN 1
    ELSE CHOOSE k \in 2..10 : (n < 128^k \/ k = 10) /\ \A j \in 1..(k - 1) : n >= 128^j
Varint(n) ==
    LET len == VarintLen(n) IN
    [i \in 1..len |-> (Shifted(n, 128, len)[i - 1] % 128) + (IF i < len THEN 128 ELSE 0)]

\* Byte strings have their length in front.
Lp(b) == Varint(Len(b)) \o b

Fail == [ok |-> FALSE]
Took(v, rest) == [ok |-> TRUE, v |-> v, rest |-> rest]
Then(r, next(_, _)) == IF r.ok THEN next(r.v, r.rest) ELSE Fail

Drop(b, n) == SubSeq(b, n + 1, Len(b))

TakeBytes(b, n) == IF n <= Len(b) THEN Took(SubSeq(b, 1, n), Drop(b, n)) ELSE Fail

\* At most max bytes: 3 for a u16, 10 for a u64 or a length.
TakeVarint(b, max) ==
    LET ends == {i \in 1..Len(b) : i <= max /\ b[i] < 128}
        n == Min(ends)
    IN IF ends = {} THEN Fail ELSE Took(Number([i \in 1..n |-> b[i] % 128], 128), Drop(b, n))

TakeLp(b) == Then(TakeVarint(b, 10), LAMBDA n, rest : TakeBytes(rest, n))
=============================================================================
