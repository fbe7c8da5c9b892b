---------------------------- MODULE MCBitReader -----------------------------
(* Sources for BitReader with bytes of 2 bits: empty, shorter than a word and *)
(* longer than the buffer, with runs of zeros inside and across words, and    *)
(* every way of ending.                                                       *)
EXTENDS BitReader

Source(bytes, ones, end) == [bytes |-> bytes, ones |-> ones, end |-> end]

MCSources ==
    {Source(0, {}, "eof"), Source(2, {3}, "eof"), Source(5, {1, 8, 9}, "eof"),
     Source(7, {}, "io"), Source(4, {2, 7}, "noprogress")}
=============================================================================
