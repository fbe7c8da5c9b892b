------------------------------ MODULE BitWriter -------------------------------
(***************************************************************************)
(* The bit writer of internal/bitio/writer.go: whole words go from its       *)
(* left-aligned accumulator to the buffer as they fill up, whole bytes when  *)
(* the caller asks for them, and the rest when it aligns.                    *)
(***************************************************************************)
EXTENDS Integers, Sequences

CONSTANTS
    ByteBits,     \* bits in a byte: 8
    AccBytes      \* bytes in a word: 8

VARIABLES
    wbuf,         \* w.buf
    wacc,         \* w.acc
    nbit          \* w.nbit

WordBits == AccBytes * ByteBits

\* One bit shifted left by k.
Pow(k) == 2 ^ k

\* The k bytes at the top of a word.
TopBytes(word, k) == [i \in 1..k |-> (word \div Pow(WordBits - i * ByteBits)) % Pow(ByteBits)]

\* Mutant of Written: bits above the n are written too.
Written_Unmasked(w, v, n) ==
    LET free == WordBits - w.nbit
        rem  == n - free
    IN  IF rem < 0
        THEN [w EXCEPT !.acc = @ + v * Pow(free - n), !.nbit = @ + n]
        ELSE [buf  |-> w.buf \o TopBytes(w.acc + v \div Pow(rem), AccBytes),
              acc  |-> (v * Pow(WordBits - rem)) % Pow(WordBits),
              nbit |-> rem]

\* A writer with the low n bits of v behind what w holds: they fit with room to spare,
\* or their high part completes a word and the rest starts the next.
Written(w, v, n) ==
    LET low  == v % Pow(n)
        free == WordBits - w.nbit
        rem  == n - free
    IN  IF rem < 0
        THEN [w EXCEPT !.acc = @ + low * Pow(free - n), !.nbit = @ + n]
        ELSE [buf  |-> w.buf \o TopBytes(w.acc + low \div Pow(rem), AccBytes),
              acc  |-> (low * Pow(WordBits - rem)) % Pow(WordBits),
              nbit |-> rem]

Writer == [buf |-> wbuf, acc |-> wacc, nbit |-> nbit]
Becomes(w) == wbuf' = w.buf /\ wacc' = w.acc /\ nbit' = w.nbit

Reset == Becomes([buf |-> <<>>, acc |-> 0, nbit |-> 0])

WriteBits(v, n) == Becomes(Written(Writer, v, n))

\* Two's complement.
WriteSignedBits(v, n) == Becomes(Written(Writer, v % Pow(n), n))

\* Zeros are written half a word at a time.
ZeroRun == WordBits \div 2

WriteUnary(q) ==
    LET after[k \in 0..(q \div ZeroRun)] ==
            IF k = 0 THEN Writer ELSE Written(after[k - 1], 0, ZeroRun)
    IN  Becomes(Written(after[q \div ZeroRun], 1, (q % ZeroRun) + 1))

\* Whole bytes leave the accumulator; what is left moves to its top.
Flushed(w) ==
    LET whole == w.nbit \div ByteBits
    IN  [buf  |-> w.buf \o TopBytes(w.acc, whole),
         acc  |-> (w.acc * Pow(whole * ByteBits)) % Pow(WordBits),
         nbit |-> w.nbit % ByteBits]

Bytes == Becomes(Flushed(Writer))

\* Mutant of AlignByte: the padded byte stays in the accumulator.
AlignByte_Keep ==
    LET w == Flushed(Writer)
    IN  IF w.nbit = 0 THEN Becomes(w)
        ELSE Becomes([buf |-> w.buf \o TopBytes(w.acc, 1), acc |-> w.acc, nbit |-> 0])

AlignByte ==
    LET w == Flushed(Writer)
    IN  IF w.nbit = 0 THEN Becomes(w)
        ELSE Becomes([buf |-> w.buf \o TopBytes(w.acc, 1), acc |-> 0, nbit |-> 0])
=============================================================================
