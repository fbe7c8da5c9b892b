--------------------------- MODULE MCFrameDecoder ----------------------------
(* Headers at the limits of every code and of every length of number, each read *)
(* by a decoder of its own; and packets of two streams and of strange ones, with *)
(* every failure of their bodies, given to one decoder up to three at a time.    *)
EXTENDS FrameDecoder

MCSizes == {1, 16, 192, 255, 256, 257, 576, 4096, 4608, 16384, 32768, 65535, 65536}
MCRates == {1, 8000, 11025, 44100, 255000, 256000, 65535, 65540, 96000, 655349, 655350}
MCDepths == {4, 8, 12, 16, 20, 24, 32}

\* The number with digit k and ones below it.
At(k, digit) == [i \in 0..5 |-> IF i = k THEN digit ELSE IF i < k THEN 63 ELSE 0]
MCNumbers == {At(0, 0), At(1, 1), At(1, 2), At(1, 31), At(1, 32), At(2, 15), At(2, 16), At(3, 7),
              At(3, 8), At(4, 3), At(4, 4), At(5, 1), At(5, 2), At(5, 63)}

Usual == [blockSize |-> 4096, rate |-> 44100, depth |-> 16, channels |-> 1, number |-> At(0, 5)]
MCHeaders ==
    {[Usual EXCEPT !.blockSize = b, !.rate = r] : b \in MCSizes, r \in MCRates}
    \cup {[Usual EXCEPT !.number = n, !.blockSize = b] : n \in MCNumbers, b \in {100, 4096}}
    \cup {[Usual EXCEPT !.depth = d, !.channels = c] : d \in MCDepths, c \in {0, 7, 10}}

MCInfos ==
    {[len |-> 34, rate |-> 44100, depth |-> 16, channels |-> c] : c \in {1, 2}}
    \cup {[len |-> 34, rate |-> 655349, depth |-> 17, channels |-> 2],
          [len |-> 33, rate |-> 44100, depth |-> 16, channels |-> 2],
          [len |-> 34, rate |-> 0, depth |-> 16, channels |-> 2],
          [len |-> 34, rate |-> 44100, depth |-> 3, channels |-> 2]}

Stereo == [Usual EXCEPT !.channels = 10]
Mono   == [Usual EXCEPT !.channels = 0, !.blockSize = 256]
Streams == {Usual, Stereo, Mono, [Stereo EXCEPT !.blockSize = 100], [Mono EXCEPT !.blockSize = 4608]}
Strange == {[Usual EXCEPT !.rate = 48000], [Usual EXCEPT !.depth = 24], [Usual EXCEPT !.rate = 655349],
            [Usual EXCEPT !.depth = 17], [Usual EXCEPT !.rate = 655349, !.depth = 17]}

Packet(h, s, c, b) == [sent |-> h, stream |-> s, condition |-> c, body |-> b]
Arrived(h, b) == Packet(h, Written(h) \o Body, "whole", b)
Bodies(n) ==
    {[fate |-> f, sub |-> k, pieces |-> n + 1] : f \in {"range", "unsupported"}, k \in 1..n}
    \cup {[fate |-> f, sub |-> 1, pieces |-> p] : f \in {"sound", "crc"}, p \in {n + 1, n + 2}}
    \cup {[fate |-> "sound", sub |-> 1, pieces |-> p] : p \in 0..n}

MCPackets ==
    UNION {{Arrived(h, b) : b \in Bodies(Channels(h.channels))} : h \in Streams}
    \cup {Arrived(h, Whole(h.channels)) : h \in Strange}
    \cup {Packet(h, SubSeq(Written(h), 1, n), "cut", Whole(h.channels)) : h \in {Stereo, Mono}, n \in {0, 1, 5}}
    \cup {Packet(h, [Written(h) EXCEPT ![3] = 0] \o Body, "damaged", Whole(h.channels)) : h \in {Stereo, Mono}}
=============================================================================
