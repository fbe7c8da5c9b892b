----------------------------- MODULE BitReader ------------------------------
(***************************************************************************)
(* The bit reader of internal/bitio/reader.go: its read buffer, its         *)
(* left-aligned accumulator and its tap, over a source that hands out its   *)
(* bytes in pieces of any size and may report its end with the last of them *)
(* or after it.                                                             *)
(*                                                                          *)
(* The bytes of a source, and its bits, are known by their positions in it, *)
(* from 1; the buffer holds byte positions and the accumulator bit          *)
(* positions, so a bit served twice, skipped or taken from the wrong place  *)
(* shows.  A call that has to fetch more bits takes several steps.          *)
(***************************************************************************)
EXTENDS Integers, Sequences, FiniteSetsExt

CONSTANTS
    Sources,      \* the sources the reader may be bound to
    ByteBits,     \* bits in a byte: 8
    AccBytes,     \* bytes the accumulator holds: 8
    Block,        \* length of the buffer, as NewReaderSize clamps it
    ReadLengths   \* lengths the caller asks ReadBits for

ASSUME WidthAssumption ==
    /\ ByteBits \in Nat \ {0} /\ AccBytes \in Nat \ {0}
    /\ Block \in Nat /\ Block > AccBytes                   \* minReadBlock
    /\ ReadLengths \subseteq 0..(AccBytes * ByteBits)

(***************************************************************************)
(* A source has a number of bytes, the positions of its one bits, and an    *)
(* end: "eof", "io" (it fails there) or "noprogress" (it returns neither    *)
(* bytes nor an error, maxEmptyReads times).                                *)
(***************************************************************************)
SourceOK(s) == s.bytes \in Nat /\ s.ones \subseteq Nat /\ s.end \in {"eof", "io", "noprogress"}

ASSUME SourcesAssumption == \A s \in Sources : SourceOK(s)

VARIABLES
    src,      \* what the reader reads
    given,    \* number of its bytes handed to the reader
    buf,      \* r.buf[:r.w]
    r,        \* r.r, the load cursor
    acc,      \* the valid bits of r.acc, r.nbits of them
    loaded,   \* r.loaded
    err,      \* r.err, "none" until set
    tap,      \* "none"; "byte"; "range" (per-byte mode); "deferred"
    tapCur,   \* r.tapCur
    pc,       \* "idle", or where the running call is
    call,     \* that call: op and n, the bits it still wants
    \* History.
    from,     \* bits consumed when the last call started
    asked,    \* the n it was made with
    result,   \* what it returned
    taken,    \* the bits consumed since Reset
    tapFrom,  \* bytes consumed when the tap was installed
    tapped    \* the bytes it has received

source == <<src, given>>
buffer == <<buf, r, acc, loaded, err>>
taps   == <<tap, tapCur, tapFrom, tapped>>
vars   == <<source, buffer, taps, pc, call, from, asked, result, taken>>

NoCall == [op |-> "none", n |-> 0]
From(s, i) == SubSeq(s, i, Len(s))
Take(s, n) == SubSeq(s, 1, n)

\* The positions a+1, ..., b.
Positions(a, b) == [i \in 1..(b - a) |-> a + i]

\* The bits of the bytes in seq.
BitsOf(seq) ==
    [i \in 1..(Len(seq) * ByteBits) |->
        (seq[(i - 1) \div ByteBits + 1] - 1) * ByteBits + ((i - 1) % ByteBits) + 1]

ConsumedAt(bits) == (r * ByteBits - bits) \div ByteBits

\* consumedBytes
Consumed == ConsumedAt(Len(acc))

-----------------------------------------------------------------------------
(* The tap.                                                                 *)

Hand(fc) == tapped' = tapped \o SubSeq(buf, tapCur + 1, fc)

\* Bits are consumed and `left` stay: a per-byte tap gets the bytes completed.
EmitTaps(left) ==
    LET fc == ConsumedAt(left) IN
    IF tap \in {"byte", "range"} /\ fc > tapCur
    THEN Hand(fc) /\ tapCur' = fc /\ UNCHANGED <<tap, tapFrom>>
    ELSE UNCHANGED taps

\* Consume the first n bits of the accumulator.
Consume(n) ==
    /\ taken' = taken \o Take(acc, n)
    /\ acc' = From(acc, n + 1)
    /\ EmitTaps(Len(acc) - n)

SetTapper(t) ==
    /\ pc = "idle"
    /\ tap' = t
    /\ IF t = "none" THEN UNCHANGED <<tapCur, tapFrom, tapped>>
       ELSE tapCur' = Consumed /\ tapped' = <<>> /\ tapFrom' = loaded - r + Consumed
    /\ UNCHANGED <<source, buffer, pc, call, from, asked, result, taken>>

\* The caller switches at a byte boundary, with every consumed byte tapped.
SwitchTapToDeferred ==
    /\ pc = "idle" /\ tap = "range"
    /\ Len(acc) % ByteBits = 0
    /\ tap' = "deferred"
    /\ UNCHANGED <<source, buffer, tapCur, tapFrom, tapped, pc, call, from, asked, result, taken>>

Ranged == tap \in {"range", "deferred"}

FlushTap ==
    /\ pc = "idle" /\ Ranged
    /\ Consumed > tapCur
    /\ Hand(Consumed) /\ tapCur' = Consumed
    /\ UNCHANGED <<source, buffer, tap, tapFrom, pc, call, from, asked, result, taken>>

-----------------------------------------------------------------------------
(* fill and readMore.                                                       *)

\* A call enters fill: a whole word when the accumulator is empty, or bytes.
StartFill(bits) == pc' = IF bits = 0 /\ Len(buf) - r >= AccBytes THEN "word" ELSE "loop"

LoadWord ==
    /\ pc = "word"
    /\ acc' = BitsOf(SubSeq(buf, r + 1, r + AccBytes))
    /\ r' = r + AccBytes
    /\ loaded' = loaded + AccBytes
    /\ pc' = "loop"
    /\ UNCHANGED <<source, buf, err, taps, call, from, asked, result, taken>>

Room == Len(acc) <= (AccBytes - 1) * ByteBits

LoadByte ==
    /\ pc = "loop" /\ Room /\ r < Len(buf)
    /\ acc' = acc \o BitsOf(<<buf[r + 1]>>)
    /\ r' = r + 1
    /\ loaded' = loaded + 1
    /\ UNCHANGED <<source, buf, err, taps, pc, call, from, asked, result, taken>>

\* Mutant of Read: an end that comes without bytes is not kept.
Read_NotSticky(k) ==
    /\ k <= src.bytes - given
    /\ given' = given + k
    /\ \/ k > 0 /\ UNCHANGED err
       \/ given + k = src.bytes /\ err' = IF k > 0 THEN src.end ELSE err

\* src.Read hands over k bytes, and with the last of them or after them the end.
Read(k) ==
    /\ k <= src.bytes - given
    /\ given' = given + k
    /\ \/ k > 0 /\ UNCHANGED err
       \/ given + k = src.bytes /\ err' = src.end /\ (k > 0 => src.end # "noprogress")

\* Mutant of ReadMore: the pending run is dropped with the consumed bytes.
ReadMore_Unflushed ==
    /\ pc = "loop" /\ Room /\ r = Len(buf) /\ err = "none"
    /\ tapCur' = IF Ranged \/ tapCur <= Consumed THEN 0 ELSE tapCur - Consumed
    /\ r' = r - Consumed
    /\ \E k \in 0..(Block - (Len(buf) - Consumed)) :
           /\ Read(k)
           /\ buf' = From(buf, Consumed + 1) \o Positions(given, given + k)
    /\ UNCHANGED <<src, acc, loaded, tap, tapFrom, tapped, pc, call, from, asked, result, taken>>

\* readMore: the pending run goes to the tap, the consumed bytes are dropped, and
\* the source is read for at most as many bytes as there is room for.
ReadMore ==
    /\ pc = "loop" /\ Room /\ r = Len(buf) /\ err = "none"
    /\ IF Ranged /\ Consumed > tapCur THEN Hand(Consumed) ELSE UNCHANGED tapped
    /\ tapCur' = IF Ranged \/ tapCur <= Consumed THEN 0 ELSE tapCur - Consumed
    /\ r' = r - Consumed
    /\ \E k \in 0..(Block - (Len(buf) - Consumed)) :
           /\ Read(k)
           /\ buf' = From(buf, Consumed + 1) \o Positions(given, given + k)
    /\ UNCHANGED <<src, acc, loaded, tap, tapFrom, pc, call, from, asked, result, taken>>

\* fill returns: the accumulator is as full as it gets, or the source has ended.
Filled == pc = "loop" /\ (~Room \/ (r = Len(buf) /\ err # "none"))

-----------------------------------------------------------------------------
(* The reads.                                                               *)

Return(res) == pc' = "idle" /\ call' = NoCall /\ result' = res

Called(n) == from' = Len(taken) /\ asked' = n

\* The fast path, and the way into the slow one.
ReadBits(n) ==
    /\ pc = "idle"
    /\ Called(n)
    /\ IF n <= Len(acc)
       THEN Consume(n) /\ Return("ok")
       ELSE /\ StartFill(Len(acc))
            /\ call' = [op |-> "bits", n |-> n]
            /\ UNCHANGED <<acc, taps, taken, result>>
    /\ UNCHANGED <<source, buf, r, loaded, err>>

\* Mutant of EndError: an end inside a value is reported as a clean one.
EndError_Clean == err

\* What readBitsSlow returns when the source ended first: an end inside a value,
\* or inside its second part, is unexpected.
EndError == IF err = "eof" /\ (acc # <<>> \/ call.n < asked) THEN "unexpected" ELSE err

\* readBitsSlow after fill: serve the bits; or take what there is as the high part
\* and go on with the rest; or fail.
ReadBitsFilled ==
    /\ Filled /\ call.op = "bits"
    /\ \/ /\ call.n <= Len(acc)
          /\ Consume(call.n) /\ Return("ok")
       \/ /\ call.n > Len(acc) /\ err = "none"
          /\ Consume(Len(acc))
          /\ call' = [call EXCEPT !.n = @ - Len(acc)]
          /\ StartFill(0)
          /\ UNCHANGED result
       \/ /\ call.n > Len(acc) /\ err # "none"
          /\ Return(EndError)
          /\ UNCHANGED <<acc, taps, taken>>
    /\ UNCHANGED <<source, buf, r, loaded, err, from, asked>>

\* The zeros before the first one bit of the accumulator, and all of it if none.
LeadingZeros ==
    LET ones == {i \in DOMAIN acc : acc[i] \in src.ones}
    IN  IF ones = {} THEN Len(acc) ELSE Min(ones) - 1

\* ReadUnary goes round its loop with bits in the accumulator.
Scan ==
    IF LeadingZeros = Len(acc)
    THEN /\ Consume(Len(acc))
         /\ StartFill(0)
         /\ call' = [op |-> "unary", n |-> 0]
         /\ UNCHANGED result
    ELSE Consume(LeadingZeros + 1) /\ Return("ok")

ReadUnary ==
    /\ pc = "idle"
    /\ Called(0)
    /\ IF acc = <<>>
       THEN /\ StartFill(0)
            /\ call' = [op |-> "unary", n |-> 0]
            /\ UNCHANGED <<acc, taps, taken, result>>
       ELSE Scan
    /\ UNCHANGED <<source, buf, r, loaded, err>>

ReadUnaryFilled ==
    /\ Filled /\ call.op = "unary"
    /\ IF acc = <<>> THEN Return(err) /\ UNCHANGED <<acc, taps, taken>> ELSE Scan
    /\ UNCHANGED <<source, buf, r, loaded, err, from, asked>>

SkipToByteBoundary ==
    /\ pc = "idle" /\ Len(acc) % ByteBits # 0
    /\ Consume(Len(acc) % ByteBits)
    /\ UNCHANGED <<source, buf, r, loaded, err, pc, call, from, asked, result>>

-----------------------------------------------------------------------------
Init ==
    /\ src \in Sources /\ given = 0
    /\ buf = <<>> /\ r = 0 /\ acc = <<>> /\ loaded = 0 /\ err = "none"
    /\ tap = "none" /\ tapCur = 0 /\ tapFrom = 0 /\ tapped = <<>>
    /\ pc = "idle" /\ call = NoCall
    /\ from = 0 /\ asked = 0 /\ result = "ok" /\ taken = <<>>

\* Reset and ResetAt: everything but the buffer's memory starts again.
Reset(s) ==
    /\ pc = "idle"
    /\ src' = s /\ given' = 0
    /\ buf' = <<>> /\ r' = 0 /\ acc' = <<>> /\ loaded' = 0 /\ err' = "none"
    /\ tap' = "none" /\ tapCur' = 0 /\ tapFrom' = 0 /\ tapped' = <<>>
    /\ from' = 0 /\ asked' = 0 /\ result' = "ok" /\ taken' = <<>>
    /\ UNCHANGED <<pc, call>>

Step == LoadWord \/ LoadByte \/ ReadMore \/ ReadBitsFilled \/ ReadUnaryFilled

Next ==
    \/ Step
    \/ \E s \in Sources : Reset(s)
    \/ \E n \in ReadLengths : ReadBits(n)
    \/ ReadUnary \/ SkipToByteBoundary
    \/ \E t \in {"none", "byte", "range"} : SetTapper(t)
    \/ SwitchTapToDeferred \/ FlushTap

Spec == Init /\ [][Next]_vars

\* A call runs to its end: every read of the source returns.
FairSpec == Spec /\ WF_vars(Step)

-----------------------------------------------------------------------------
(* Properties.                                                              *)

BitsLeft == src.bytes * ByteBits - from

\* However the source's bytes arrive and whatever mix of reads takes them, the bits
\* come out in order, each once: those consumed, then the accumulator, then what is
\* left in the buffer, then what the source still has.  A read of no more bits than
\* fill makes room for fails only when the source ends before them, and then cleanly
\* only when it had ended before the first of them; the frame and metadata parsers
\* ask for 36 of 57 bits at most (fill, readMore's compaction, readBitsSlow).
BitsComeInOrder ==
    /\ taken \o acc = Positions(0, loaded * ByteBits)
    /\ From(buf, r + 1) = Positions(loaded, given)
    /\ pc = "idle" /\ asked \in 1..((AccBytes - 1) * ByteBits + 1) =>
           /\ result # "ok" => asked > BitsLeft
           /\ result = "eof" <=> (result # "ok" /\ src.end = "eof" /\ BitsLeft = 0)

\* ReadBits' documentation: n may be anything up to the accumulator's 64 bits, and
\* readBitsSlow takes a source that has ended to have no more bits.
ReadBitsServesAnyLength == pc = "idle" /\ result # "ok" /\ asked > 0 => asked > BitsLeft

\* The tap gets every byte consumed since it was installed once and in order: at
\* once in per-byte mode, by the next refill or flush in deferred mode, over the
\* switch and although readMore drops the bytes it has consumed (frame CRCs).
TapSeesEveryByte ==
    tap # "none" =>
        LET now == loaded - r + Consumed IN
        /\ tapped \o SubSeq(buf, tapCur + 1, Consumed) = Positions(tapFrom, now)
        /\ tap # "deferred" /\ pc = "idle" => tapped = Positions(tapFrom, now)

\* A read ends whatever the source does, an end that comes with bytes and a source
\* that returns nothing for ever included (readMore's sticky error, maxEmptyReads).
ReadsEnd == (pc # "idle") ~> (pc = "idle")
=============================================================================
