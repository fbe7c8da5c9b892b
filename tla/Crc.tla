--------------------------------- MODULE Crc ---------------------------------
(* The CRC-8 of internal/crc: polynomial 0x07, no reflection, from 0.        *)
EXTENDS Integers, Sequences

Bit(n, k) == (n \div 2 ^ k) % 2

\* The exclusive or of two bytes, from the low bit up.
Xor(a, b) ==
    LET low[k \in 0..8] ==
            IF k = 0 THEN 0
            ELSE low[k - 1] + 2 ^ (k - 1) * ((Bit(a, k - 1) + Bit(b, k - 1)) % 2)
    IN  low[8]

\* One entry of the table: eight shifts, each reduced by the polynomial.
Shift(c) == IF c >= 128 THEN Xor((2 * c) % 256, 7) ELSE 2 * c
Entry(i) ==
    LET c[k \in 0..8] == IF k = 0 THEN i ELSE Shift(c[k - 1])
    IN  c[8]
table8 == [i \in 0..255 |-> Entry(i)]

\* Mutant of Update8: the running value is not folded in.
Update8_Last(crc, b) == table8[b]

Update8(crc, b) == table8[Xor(crc, b)]

Checksum8(bytes) ==
    LET crc[i \in 0..Len(bytes)] == IF i = 0 THEN 0 ELSE Update8(crc[i - 1], bytes[i])
    IN  crc[Len(bytes)]
=============================================================================
