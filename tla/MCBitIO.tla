------------------------------- MODULE MCBitIO --------------------------------
(* Bytes of 2 bits in words of 3: fields that end on every bit of a word, values *)
(* with bits above their width, negative values at both ends of their range, and *)
(* runs of zeros up to and over a word; for the free mode sources as MCBitReader *)
(* has them.                                                                     *)
EXTENDS BitIO

Source(bytes, ones, end) == [bytes |-> bytes, ones |-> ones, end |-> end]
MCSources ==
    {Source(0, {}, "eof"), Source(2, {3}, "eof"), Source(5, {1, 8, 9}, "eof"),
     Source(7, {}, "io"), Source(4, {2, 7}, "noprogress")}

Field(op, v, n) == [op |-> op, v |-> v, n |-> n]
MCFields ==
    {Field("bits", 5, 3), Field("bits", 22, 5), Field("bits", 1, 1), Field("bits", 13, 2),
     Field("bits", 9, 4), Field("bits", 3, 0),
     Field("signed", -4, 3), Field("signed", 1, 2), Field("signed", -16, 5),
     Field("unary", 0, 0), Field("unary", 2, 0), Field("unary", 3, 0), Field("unary", 7, 0),
     Field("align", 0, 0), Field("bytes", 0, 0)}
=============================================================================
