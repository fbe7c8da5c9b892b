--------------------------------- MODULE Pcm ----------------------------------
(***************************************************************************)
(* Samples to bytes and back (pcm/pack.go, pcm/convert.go, appendPacked).    *)
(* Audio is interleaved, little-endian and in two's complement, each sample  *)
(* in as many bytes as its depth needs, up to four, which fill an int32.     *)
(* Two bytes in one or two channels are packed by words of eight.            *)
(***************************************************************************)
EXTENDS Kernels

ByteBits == Width \div 4
BytesPerSample(bps) == (bps + ByteBits - 1) \div ByteBits

\* n bytes of src after the first at, and the bytes of a value.
Word(src, at, n) == MapThenSumSet(LAMBDA j : src[at + j] * 2 ^ (ByteBits * (j - 1)), 1..n)
Byte(v, j) == (v \div 2 ^ (ByteBits * j)) % 2 ^ ByteBits

Half == 2 * ByteBits
\* The k-th int16 of a word, and the word of some of them.
Int16(w, k) == Wrapped(w \div 2 ^ (Half * k), Half)
Uint16s(s) == MapThenSumSet(LAMBDA k : (s[k] % 2 ^ Half) * 2 ^ (Half * (k - 1)), DOMAIN s)

-----------------------------------------------------------------------------
deinterleave16Mono(src, n) ==
    [i \in 1..n |-> IF i <= 4 * (n \div 4)
                    THEN Int16(Word(src, 8 * ((i - 1) \div 4), 8), (i - 1) % 4)
                    ELSE Int16(Word(src, 2 * (i - 1), 2), 0)]

deinterleave16Stereo(src, n) ==
    [c \in 1..2 |->
        [i \in 1..n |-> IF i <= 2 * (n \div 2)
                        THEN Int16(Word(src, 8 * ((i - 1) \div 2), 8), 2 * ((i - 1) % 2) + c - 1)
                        ELSE Int16(Word(src, 4 * (i - 1), 4), c - 1)]]

\* The sign of three bytes is spread over the fourth by hand.
Extended(u, n) ==
    IF n = 3 THEN Int32(u + (IF u >= 2 ^ (3 * ByteBits - 1) THEN 2 ^ Width - 2 ^ (3 * ByteBits) ELSE 0))
    ELSE Signed(u, n * ByteBits)

deinterleaveSamples(src, n, nch, bytesPS) ==
    CASE bytesPS = 2 /\ nch = 1 -> <<deinterleave16Mono(src, n)>>
      [] bytesPS = 2 /\ nch = 2 -> deinterleave16Stereo(src, n)
      [] OTHER -> [c \in 1..nch |->
            [i \in 1..n |-> Extended(Word(src, ((i - 1) * nch + c - 1) * bytesPS, bytesPS), bytesPS)]]

-----------------------------------------------------------------------------
\* Samples are cut to 16 bits before they are joined, four to a word of eight bytes.
packLE16Mono(s) ==
    LET n == Len(s)
    IN  [b \in 1..(2 * n) |->
            LET i == (b - 1) \div 2
            IN  IF i < 4 * (n \div 4)
                THEN Byte(Uint16s(SubSeq(s, 4 * (i \div 4) + 1, 4 * (i \div 4) + 4)), (b - 1) % 8)
                ELSE Byte(s[i + 1], (b - 1) % 2)]

packLE16Stereo(l, r) ==
    LET n == Len(l)
    IN  [b \in 1..(4 * n) |->
            LET i == (b - 1) \div 4
            IN  IF i < 2 * (n \div 2)
                THEN LET k == 2 * (i \div 2)
                     IN  Byte(Uint16s(<<l[k + 1], r[k + 1], l[k + 2], r[k + 2]>>), (b - 1) % 8)
                ELSE Byte(Uint16s(<<l[i + 1], r[i + 1]>>), (b - 1) % 4)]

appendPacked(ch, bytesPS) ==
    LET nch == Len(ch)
        n   == Len(ch[1])
    IN  CASE bytesPS = 2 /\ nch = 1 -> packLE16Mono(ch[1])
          [] bytesPS = 2 /\ nch = 2 -> packLE16Stereo(ch[1], ch[2])
          [] OTHER -> [b \in 1..(n * nch * bytesPS) |->
                LET k == (b - 1) \div bytesPS
                IN  Byte(ch[(k % nch) + 1][k \div nch + 1], (b - 1) % bytesPS)]

\* To a wider depth exactly, to a narrower one toward negative infinity.
shiftSamples(ch, shift) ==
    [c \in DOMAIN ch |->
        [i \in DOMAIN ch[c] |->
            IF shift > 0 THEN Int32(ch[c][i] * 2 ^ shift) ELSE ch[c][i] \div 2 ^ (-shift)]]

-----------------------------------------------------------------------------
\* The reference: the format of the bytes, and the sample nearest from below.
PcmOf(ch, bytesPS) ==
    LET nch == Len(ch)
    IN  [b \in 1..(Len(ch[1]) * nch * bytesPS) |->
            Byte(ch[(((b - 1) \div bytesPS) % nch) + 1][(b - 1) \div (bytesPS * nch) + 1], (b - 1) % bytesPS)]
Rescaled(v, from, to) == IF to >= from THEN v * 2 ^ (to - from) ELSE v \div 2 ^ (from - to)
=============================================================================
