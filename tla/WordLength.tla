----------------------------- MODULE WordLength -----------------------------
(* How the Mikrotik API client puts the length of a word before it.        *)
EXTENDS Naturals, Sequences

CONSTANT WordLengths    \* lengths of the words that are written

\* "Word is too long."
TooLong(n) == n >= 268435456

ASSUME LengthAssumption == WordLengths \subseteq Nat /\ \A n \in WordLengths : ~TooLong(n)

EncodeShort(n) ==                                              \* mutant
    IF n <= 128 THEN <<n>>
    ELSE IF n < 16384 THEN <<128 + n \div 256, n % 256>>
    ELSE IF n < 2097152 THEN <<192 + n \div 65536, (n \div 256) % 256, n % 256>>
    ELSE <<224 + n \div 16777216, (n \div 65536) % 256, (n \div 256) % 256, n % 256>>

\* WriteLength on a little endian machine: one to four bytes; the first one tells
\* how many by its high bits.
Encode(n) ==
    IF n < 128 THEN <<n>>
    ELSE IF n < 16384 THEN <<128 + n \div 256, n % 256>>
    ELSE IF n < 2097152 THEN <<192 + n \div 65536, (n \div 256) % 256, n % 256>>
    ELSE <<224 + n \div 16777216, (n \div 65536) % 256, (n \div 256) % 256, n % 256>>

\* ReadLength: the byte count from the first byte c, then the masks 0x1f, 0x3f, 0x7f.
BytesAfter(c) == IF c >= 224 THEN 3 ELSE IF c >= 192 THEN 2 ELSE IF c >= 128 THEN 1 ELSE 0

Decode(b) ==
    IF b[1] >= 224 THEN (b[1] % 32) * 16777216 + b[2] * 65536 + b[3] * 256 + b[4]
    ELSE IF b[1] >= 192 THEN (b[1] % 64) * 65536 + b[2] * 256 + b[3]
    ELSE IF b[1] >= 128 THEN (b[1] % 128) * 256 + b[2]
    ELSE b[1]

ReadBack(n) == Len(Encode(n)) = 1 + BytesAfter(Encode(n)[1]) /\ Decode(Encode(n)) = n
=============================================================================
