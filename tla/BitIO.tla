-------------------------------- MODULE BitIO ---------------------------------
(***************************************************************************)
(* The bit writer and the bit reader together: a caller writes fields of     *)
(* every kind, asks for the whole bytes now and then (a header's CRC-8 is    *)
(* taken so), aligns at the end, and reads the same fields back from a       *)
(* source that delivers the bytes in any pieces.  In mode "free" the reader  *)
(* is used on sources of its own, by any mix of calls.                       *)
(***************************************************************************)
EXTENDS BitReader

CONSTANTS
    Fields,       \* [op, v, n]: "bits", "signed", "unary" (v zeros), "align", "bytes"
    MaxFields     \* bound: fields written before they are read

VARIABLES
    mode,         \* "free", or "write", "close" and "read" in turn
    fields,       \* the fields written
    next,         \* how many of them have been asked for
    wbuf, wacc, nbit

W == INSTANCE BitWriter

\* A field has 57 bits at most, as WriteBits asks.  A number may have bits above its
\* field, a signed one fits.
Widest == (AccBytes - 1) * ByteBits + 1
FieldOK(f) ==
    \/ f.op = "bits" /\ f.v \in Int /\ f.n \in 0..Widest
    \/ f.op = "signed" /\ f.n \in 1..Widest /\ f.v \in Int
                      /\ -W!Pow(f.n - 1) <= f.v /\ f.v < W!Pow(f.n - 1)
    \/ f.op = "unary" /\ f.v \in Nat
    \/ f.op \in {"align", "bytes"}

ASSUME FieldsAssumption == \A f \in Fields : FieldOK(f)
ASSUME WordAssumption   == AccBytes * ByteBits > 1

writing == <<wbuf, wacc, nbit>>
ioVars  == <<mode, fields, next, writing>>
allVars == <<vars, ioVars>>

\* The bits of bytes, most significant first.
BitsIn(bytes) ==
    [i \in 1..(Len(bytes) * ByteBits) |->
        (bytes[(i - 1) \div ByteBits + 1] \div W!Pow(ByteBits - 1 - ((i - 1) % ByteBits))) % 2]

-----------------------------------------------------------------------------
WriteField(f) ==
    /\ mode = "write" /\ Len(fields) < MaxFields
    /\ CASE f.op = "bits"   -> W!WriteBits(f.v, f.n)
         [] f.op = "signed" -> W!WriteSignedBits(f.v, f.n)
         [] f.op = "unary"  -> W!WriteUnary(f.v)
         [] f.op = "align"  -> W!AlignByte
         [] f.op = "bytes"  -> W!Bytes
    /\ fields' = Append(fields, f)
    /\ UNCHANGED <<vars, mode, next>>

\* The frame is aligned, and its bytes are what a reader is bound to; the pooled
\* writer is reset for the next one.
Finish ==
    /\ mode = "write" /\ fields # <<>>
    /\ IF nbit = 0 THEN UNCHANGED fields ELSE fields' = Append(fields, [op |-> "align", v |-> 0, n |-> 0])
    /\ W!AlignByte
    /\ mode' = "close"
    /\ UNCHANGED <<vars, next>>

Bind ==
    /\ mode = "close" /\ mode' = "read"
    /\ \E end \in {"eof", "io"} :
          Reset([bytes |-> Len(wbuf), ones |-> {i \in DOMAIN BitsIn(wbuf) : BitsIn(wbuf)[i] = 1},
                 end |-> end])
    /\ W!Reset
    /\ UNCHANGED <<fields, next>>

\* The reader is asked for the next field; it has nothing to do for "bytes", nor to align
\* where it is aligned.
ReadField ==
    /\ mode = "read" /\ pc = "idle" /\ next < Len(fields)
    /\ next' = next + 1
    /\ LET f == fields[next + 1]
       IN  CASE f.op \in {"bits", "signed"} -> ReadBits(f.n)
             [] f.op = "unary" -> ReadUnary
             [] f.op = "align" /\ Len(acc) % ByteBits # 0 -> SkipToByteBoundary
             [] OTHER -> UNCHANGED vars
    /\ UNCHANGED <<mode, fields, writing>>

IOInit == Init /\ mode \in {"free", "write"} /\ fields = <<>> /\ next = 0
          /\ wbuf = <<>> /\ wacc = 0 /\ nbit = 0

IONext ==
    \/ (Step /\ UNCHANGED ioVars)
    \/ (mode = "free" /\ Next /\ UNCHANGED ioVars)
    \/ \E f \in Fields : WriteField(f)
    \/ Finish \/ Bind \/ ReadField

IOSpec == IOInit /\ [][IONext]_allVars /\ WF_allVars(Step /\ UNCHANGED ioVars)

-----------------------------------------------------------------------------
(* Properties.                                                              *)

\* The reference: the bits of a number, and those of a run of fields.
Digits(v, n) == [i \in 1..n |-> (v \div W!Pow(n - i)) % 2]
Encoded(fs) ==
    LET bits[k \in 0..Len(fs)] ==
            IF k = 0 THEN <<>>
            ELSE LET f == fs[k]
                 IN  bits[k - 1] \o
                     CASE f.op \in {"bits", "signed"} -> Digits(f.v, f.n)
                       [] f.op = "unary" -> Digits(1, f.v + 1)
                       [] f.op = "align" -> Digits(0, (-Len(bits[k - 1])) % ByteBits)
                       [] f.op = "bytes" -> <<>>
    IN  bits[Len(fs)]

\* Nothing written is lost, doubled or out of place, wherever in a word it falls and
\* whenever whole bytes are taken out in between; these are all there when asked for,
\* as the CRC-8 over a header and the CRC-16 over a frame need (WriteBits, flushFull,
\* Bytes, AlignByte).
WriterKeepsBits ==
    mode \in {"write", "close"} =>
        /\ BitsIn(wbuf) \o Digits(wacc \div W!Pow(W!WordBits - nbit), nbit) = Encoded(fields)
        /\ fields # <<>> /\ fields[Len(fields)].op \in {"bytes", "align"} => nbit < ByteBits

\* The bits of the last call, as a number.
Read64 ==
    LET n == Len(taken) - from
    IN  [i \in 1..n |-> IF taken[from + i] \in src.ones THEN 1 ELSE 0]
ValueOf(bits) ==
    LET value[k \in 0..Len(bits)] == IF k = 0 THEN 0 ELSE 2 * value[k - 1] + bits[k]
    IN  value[Len(bits)]

\* Every field that was written is read back as it was, over words and refills of the
\* buffer, and then nothing but the padding of a byte is left (the pairs WriteBits and
\* ReadBits, WriteSignedBits and ReadSigned, WriteUnary and ReadUnary, AlignByte and
\* SkipToByteBoundary).
FieldsReadBack ==
    mode = "read" /\ pc = "idle" /\ next > 0 =>
        LET f == fields[next]
        IN  /\ result = "ok"
            /\ f.op = "bits" => ValueOf(Read64) = f.v % W!Pow(f.n)
            /\ f.op = "signed" =>
                  f.v = ValueOf(Read64) - (IF ValueOf(Read64) >= W!Pow(f.n - 1) THEN W!Pow(f.n) ELSE 0)
            /\ f.op = "unary" => Read64 = Digits(1, f.v + 1)
            /\ next = Len(fields) => Len(taken) = src.bytes * ByteBits
=============================================================================
