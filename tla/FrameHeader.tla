----------------------------- MODULE FrameHeader -----------------------------
(***************************************************************************)
(* Frame headers: writeFrameHeader of internal/frame/header_encode.go, and  *)
(* readHeaderBody of header.go over what was written, cut off or with one   *)
(* byte damaged.                                                            *)
(*                                                                          *)
(* A stream is a sequence of bytes.  The number of a frame has 36 bits and  *)
(* is kept as its base-64 digits, d[0] the least.  A header is              *)
(* [blockSize, rate, depth, channels, number]; channels is the assignment.  *)
(* Blocks of more than 4096 samples are those of other encoders.            *)
(***************************************************************************)
EXTENDS Integers, Sequences, Crc

CONSTANTS
    Headers,        \* headers that are written
    NoiseBytes      \* what a damaged byte may become

Bytes   == 0..255
Numbers == [0..5 -> 0..63]
MaxBlockSize  == 65536
MaxSampleRate == 655350    \* 65535 tens of Hz
HeaderOK(h) ==
    /\ DOMAIN h = {"blockSize", "rate", "depth", "channels", "number"}
    /\ h.blockSize \in 1..MaxBlockSize /\ h.rate \in 1..MaxSampleRate /\ h.depth \in 4..32
    /\ h.channels \in 0..10 /\ h.number \in Numbers

ASSUME HeadersAssumption == \A h \in Headers : HeaderOK(h)
ASSUME NoiseAssumption   == NoiseBytes \subseteq Bytes

VARIABLES
    info,      \* rate, depth and channels of the STREAMINFO
    sent,      \* the header that was written
    stream,    \* the bytes to read, damaged or cut
    condition, \* what happened to them: "whole", "cut" or "damaged"
    at,        \* bytes read
    step,      \* the field to read next, "done" at the end
    codes,     \* block size and sample rate codes
    left,      \* continuation bytes of the number to come
    hdr,       \* the header read so far
    outcome    \* "none", "ok" or an error

vars == <<info, sent, stream, condition, at, step, codes, left, hdr, outcome>>

-----------------------------------------------------------------------------
(* Writing.  A code comes with the bytes and the value of its extension.    *)

Code(code, bytes, value) == [code |-> code, bytes |-> bytes, value |-> value]

\* n doubled k times.
Doubled(n, k) == n * 2 ^ k

\* Block sizes 192, 576 * 2^k and 256 * 2^k have codes; others follow the number.
BlockSizeCode(n) ==
    CASE n = 192 -> Code(1, 0, 0)
      [] \E k \in 0..3 : n = Doubled(576, k) -> Code(2 + CHOOSE k \in 0..3 : n = Doubled(576, k), 0, 0)
      [] \E k \in 0..7 : n = Doubled(256, k) -> Code(8 + CHOOSE k \in 0..7 : n = Doubled(256, k), 0, 0)
      [] OTHER -> IF n - 1 <= 255 THEN Code(6, 1, n - 1) ELSE Code(7, 2, n - 1)

Rates == <<88200, 176400, 192000, 8000, 16000, 22050, 24000, 32000, 44100, 48000, 96000>>

\* Mutant of SampleRateCode: kilohertz are not checked to fit a byte.
SampleRateCode_Kilohertz(sr) ==
    IF \E i \in DOMAIN Rates : Rates[i] = sr
    THEN Code(CHOOSE i \in DOMAIN Rates : Rates[i] = sr, 0, 0)
    ELSE IF sr % 1000 = 0 THEN Code(12, 1, sr \div 1000)
    ELSE IF sr <= 65535 THEN Code(13, 2, sr)
    ELSE IF sr % 10 = 0 /\ sr \div 10 <= 65535 THEN Code(14, 2, sr \div 10)
    ELSE Code(0, 0, 0)

\* Common rates have codes; others are kilohertz in a byte, hertz or tens of hertz in
\* two, or left to STREAMINFO.
SampleRateCode(sr) ==
    IF \E i \in DOMAIN Rates : Rates[i] = sr
    THEN Code(CHOOSE i \in DOMAIN Rates : Rates[i] = sr, 0, 0)
    ELSE IF sr % 1000 = 0 /\ sr \div 1000 <= 255 THEN Code(12, 1, sr \div 1000)
    ELSE IF sr <= 65535 THEN Code(13, 2, sr)
    ELSE IF sr % 10 = 0 /\ sr \div 10 <= 65535 THEN Code(14, 2, sr \div 10)
    ELSE Code(0, 0, 0)

Depths == [i \in {1, 2, 4, 5, 6, 7} |-> <<8, 12, 0, 16, 20, 24, 32>>[i]]
BitDepthCode(bps) ==
    IF \E i \in DOMAIN Depths : Depths[i] = bps
    THEN CHOOSE i \in DOMAIN Depths : Depths[i] = bps ELSE 0

\* A number fits n bytes if the lead byte's bits hold what the others do not.
LeadRange(n) == 2 ^ (IF n = 1 THEN 7 ELSE 7 - n)
Fits(d, n) ==
    IF n = 1 THEN d[1] < 2 /\ \A k \in 2..5 : d[k] = 0
    ELSE n = 7 \/ (d[n - 1] < LeadRange(n) /\ \A k \in n..5 : d[k] = 0)

CodedLength(d) == CHOOSE n \in 1..7 : Fits(d, n) /\ \A m \in 1..(n - 1) : ~Fits(d, m)

\* The mark of a lead byte: n ones and a zero.
Mark(n) == 256 - 2 ^ (8 - n)
CodedNumber(d) ==
    LET n == CodedLength(d) IN
    IF n = 1 THEN <<d[1] * 64 + d[0]>>
    ELSE <<Mark(n) + (IF n = 7 THEN 0 ELSE d[n - 1])>> \o [i \in 1..(n - 1) |-> 128 + d[n - 1 - i]]

Extension(c) ==
    CASE c.bytes = 0 -> <<>>
      [] c.bytes = 1 -> <<c.value % 256>>
      [] c.bytes = 2 -> <<(c.value \div 256) % 256, c.value % 256>>

\* writeFrameHeader without its CRC: a fixed-blocksize header.
Fields(h) ==
    LET size == BlockSizeCode(h.blockSize)
        rate == SampleRateCode(h.rate)
    IN  <<255, 248, size.code * 16 + rate.code, h.channels * 16 + BitDepthCode(h.depth) * 2>>
        \o CodedNumber(h.number) \o Extension(size) \o Extension(rate)

Written(h) == Append(Fields(h), Checksum8(Fields(h)))

-----------------------------------------------------------------------------
(* Reading.                                                                 *)

NoHeader == [blockSize |-> 0, rate |-> 0, depth |-> 0, channels |-> 0,
             number |-> [k \in 0..5 |-> 0], variable |-> FALSE]

Body == <<0, 0, 0>>    \* some bytes of the frame after its header

Channels(assignment) == IF assignment >= 8 THEN 2 ELSE assignment + 1
InfoFor(h) == [rate |-> h.rate, depth |-> h.depth, channels |-> Channels(h.channels)]

Init ==
    /\ sent \in Headers /\ info = InfoFor(sent)
    /\ \/ condition = "whole" /\ stream = Written(sent) \o Body
       \/ /\ condition = "cut"
          /\ \E n \in 0..(Len(Written(sent)) - 1) : stream = SubSeq(Written(sent), 1, n)
       \/ /\ condition = "damaged"
          /\ \E i \in 1..Len(Written(sent)), x \in NoiseBytes :
                /\ x # Written(sent)[i]
                /\ stream = [Written(sent) EXCEPT ![i] = x] \o Body
    /\ at = 0 /\ step = "sync" /\ codes = <<0, 0>> /\ left = 0
    /\ hdr = NoHeader /\ outcome = "none"

Fail(error) ==
    /\ outcome' = error /\ step' = "done"
    /\ UNCHANGED <<info, sent, stream, condition, at, codes, left, hdr>>

\* The bytes that the next step reads, and the byte i of them.
Width ==
    CASE step = "sync" -> 2
      [] step = "codes" -> 2
      [] step \in {"lead", "continuation", "crc"} -> 1
      [] step = "blockSize" -> IF codes[1] = 6 THEN 1 ELSE IF codes[1] = 7 THEN 2 ELSE 0
      [] step = "rate" -> IF codes[2] = 12 THEN 1 ELSE IF codes[2] \in {13, 14} THEN 2 ELSE 0
Enough == at + Width <= Len(stream)
Byte(i) == stream[at + i]
Value == IF Width = 1 THEN Byte(1) ELSE Byte(1) * 256 + Byte(2)

\* An end before the sync code is a clean one, any other is a truncated header.
StreamEnds ==
    /\ step # "done" /\ ~Enough
    /\ Fail(IF step = "sync" /\ Len(stream) = 0 THEN "eof" ELSE "unexpected")

\* The field is read, h and c are its effect, and next comes step s.
Reads(s, h, c, l) ==
    /\ at' = at + Width /\ step' = s /\ hdr' = h /\ codes' = c /\ left' = l
    /\ UNCHANGED <<info, sent, stream, condition, outcome>>

\* The sync code, a reserved bit and the blocking strategy.
ReadSync ==
    /\ step = "sync" /\ Enough
    /\ IF Byte(1) * 64 + Byte(2) \div 4 # 16382 \/ (Byte(2) \div 2) % 2 # 0
       THEN Fail("unsupported")
       ELSE Reads("codes", [hdr EXCEPT !.variable = Byte(2) % 2 = 1], codes, left)

\* depth holds its code until decodeBitsPerSample.
ReadCodes ==
    /\ step = "codes" /\ Enough
    /\ IF Byte(2) % 2 # 0 \/ Byte(2) \div 16 >= 11 THEN Fail("unsupported")
       ELSE Reads("lead", [hdr EXCEPT !.channels = Byte(2) \div 16,
                                      !.depth = (Byte(2) \div 2) % 8],
                  <<Byte(1) \div 16, Byte(1) % 16>>, left)

LeadBytes(n) == Mark(n)..(Mark(n) + LeadRange(n) - 1)
LeadLength(b) ==
    IF b < 128 THEN 1
    ELSE IF b = 254 THEN 7
    ELSE IF \E n \in 2..6 : b \in LeadBytes(n) THEN CHOOSE n \in 2..6 : b \in LeadBytes(n)
    ELSE 0

\* The digits after val << 6 | six.
Shifted6(d, six) == [k \in 0..5 |-> IF k = 0 THEN six ELSE d[k - 1]]

ReadLead ==
    /\ step = "lead" /\ Enough
    /\ LET b == Byte(1)
           n == LeadLength(b)
           data == IF n = 7 THEN 0 ELSE b % LeadRange(n)
       IN  IF n = 0 THEN Fail("unsupported")
           ELSE Reads(IF n = 1 THEN "blockSize" ELSE "continuation",
                      [hdr EXCEPT !.number = [NoHeader.number EXCEPT ![0] = data % 64,
                                                                     ![1] = data \div 64]],
                      codes, n - 1)

ReadContinuation ==
    /\ step = "continuation" /\ Enough
    /\ IF Byte(1) \div 64 # 2 THEN Fail("unsupported")
       ELSE Reads(IF left = 1 THEN "blockSize" ELSE "continuation",
                  [hdr EXCEPT !.number = Shifted6(@, Byte(1) % 64)], codes, left - 1)

ReadBlockSize ==
    /\ step = "blockSize" /\ Enough
    /\ IF codes[1] = 0 THEN Fail("unsupported")
       ELSE Reads("rate",
                  [hdr EXCEPT !.blockSize =
                      CASE codes[1] = 1 -> 192
                        [] codes[1] \in 2..5 -> Doubled(576, codes[1] - 2)
                        [] codes[1] \in {6, 7} -> Value + 1
                        [] OTHER -> Doubled(256, codes[1] - 8)],
                  codes, left)

\* The rate, and the depth, which has no bytes of its own; STREAMINFO has what has no code.
ReadRateAndDepth ==
    /\ step = "rate" /\ Enough
    /\ IF codes[2] = 15 \/ hdr.depth = 3 THEN Fail("unsupported")
       ELSE Reads("crc",
                  [hdr EXCEPT
                      !.rate = CASE codes[2] = 0 -> info.rate
                                 [] codes[2] \in DOMAIN Rates -> Rates[codes[2]]
                                 [] codes[2] = 12 -> Value * 1000
                                 [] codes[2] = 13 -> Value
                                 [] codes[2] = 14 -> Value * 10,
                      !.depth = IF @ = 0 THEN info.depth ELSE Depths[@]],
                  codes, left)

ReadCrc ==
    /\ step = "crc" /\ Enough
    /\ IF Byte(1) # Checksum8(SubSeq(stream, 1, at)) THEN Fail("mismatch")
       ELSE /\ at' = at + 1 /\ step' = "done" /\ outcome' = "ok"
            /\ UNCHANGED <<info, sent, stream, condition, codes, left, hdr>>

Next == \/ StreamEnds \/ ReadSync \/ ReadCodes \/ ReadLead \/ ReadContinuation
        \/ ReadBlockSize \/ ReadRateAndDepth \/ ReadCrc

-----------------------------------------------------------------------------
(* Properties.                                                              *)

\* What was written is what is read, to its last byte and no further, for every code,
\* extension and length of number; what is cut off is never taken for a clean end of the
\* stream unless nothing of it is left (writeFrameHeader, readHeaderBody).
HeadersReadBack ==
    /\ step = "done" /\ condition = "whole" =>
           /\ outcome = "ok" /\ at = Len(Written(sent))
           /\ info = InfoFor(sent) => \A f \in DOMAIN sent : hdr[f] = sent[f]
           /\ ~hdr.variable
    /\ step = "done" /\ condition = "cut" =>
           outcome = IF stream = <<>> THEN "eof" ELSE "unexpected"

\* One byte of the header that was written has become another.
OneByteDamaged ==
    LET w == Written(sent) IN
    \E i \in 1..Len(w) : \A j \in 1..Len(w) : j <= Len(stream) /\ (stream[j] = w[j] <=> j # i)

\* A header with a damaged byte is refused, whichever field and whatever value it is,
\* unless the damage makes it end elsewhere (crc.Checksum8).
DamageIsCaught ==
    outcome = "ok" /\ OneByteDamaged => at # Len(Written(sent))
=============================================================================
