----------------------------- MODULE MCFrameBody ------------------------------
(* An int32 of 8 bits: up to 3 bits per sample are computed in it, and more  *)
(* in int64.  Blocks have 2 to 16 samples.                                   *)
EXTENDS FrameBody

Pcm(ch, bps, stereo, exhaustive, predictors) ==
    [source |-> "pcm", ch |-> ch, bps |-> bps, stereo |-> stereo, exhaustive |-> exhaustive,
     maxOrder |-> 2, predictors |-> predictors]
Foreign(subs, n, code, bps, max) ==
    [source |-> "foreign", subs |-> subs, size |-> n, code |-> code, bps |-> bps, maxOrder |-> max]

\* The least steep and the steepest prediction that the precision of 3 bits allows, as
\* fields of a frame and as rows of the analysis in eighths, with rows that are rounded,
\* cut off at the precision or silent.
Level    == [coeffs |-> <<2>>, shift |-> 1]
Steep    == [coeffs |-> <<3, -4>>, shift |-> 0]
Both     == {Level, Steep}
LevelRow == <<8>>
SteepRow == <<24, -32>>
Inverting == <<-8>>
Rows     == {LevelRow, SteepRow, <<13, -5>>, <<0, 0>>, <<31, 31>>}

Loud   == {-128, -1, 0, 127}
Quiet  == {-4, -1, 2, 3}

Mono ==
    {Pcm(<<s>>, 8, "full", e, {SteepRow}) : s \in [1..4 -> Loud], e \in BOOLEAN}
    \cup {Pcm(<<s>>, 3, "full", e, {LevelRow, SteepRow, <<13, -5>>}) : s \in [1..4 -> Quiet], e \in BOOLEAN}
    \cup {Pcm(<<s>>, b, "full", TRUE, {LevelRow}) : s \in [1..2 -> {-4, 0, 2}], b \in {3, 4}}
    \cup {Pcm(<<[i \in 1..8 |-> IF i \in l THEN v ELSE i % 3]>>, 8, "full", e, Rows) :
             l \in {{}, {1}, {4, 5}, {7}}, v \in {-128, 16, 127}, e \in BOOLEAN}
    \cup {Pcm(<<[i \in 1..6 |-> IF i % 2 = 0 THEN v ELSE w]>>, b, "full", e, {SteepRow}) :
             v \in Quiet, w \in Quiet, b \in {3, 8}, e \in BOOLEAN}
    \cup {Pcm(<<[i \in 1..16 |-> IF (i % 2 = 0) = (i < turn) THEN a[1] ELSE -a[1]]>>, a[2], "full", TRUE, {Inverting}) :
             a \in {<<3, 3>>, <<1, 3>>, <<127, 8>>, <<40, 8>>}, turn \in {6, 17}}
Stereo ==
    {Pcm(<<l, r>>, 3, m, TRUE, {}) :
        l \in [1..3 -> {-4, 0, 3}], r \in [1..3 -> {-4, 3}], m \in {"adaptive", "full"}}
    \cup {Pcm(<<l, r>>, b, m, FALSE, {SteepRow}) :
        l \in {<<3, -4, -4, 3>>, <<1, 2, 3, 3>>}, r \in {<<-4, 3, 3, -4>>, <<1, 2, 3, 2>>, <<-2, 2, -4, 2>>},
        b \in {3, 4}, m \in {"independent", "adaptive", "full"}}
    \cup {Pcm(<<l, r>>, 8, "full", e, {}) :
        l \in [1..3 -> {-128, 3, 127}], r \in {<<127, -128, 127>>, <<-128, -128, 2>>, <<3, 3, 127>>}, e \in BOOLEAN}

\* Bytes in every width and number of channels, and the words of the fast paths with
\* what is left over; samples with more bits than the depth declares; predictions that
\* leave int32.
Packings ==
    {Pcm([c \in 1..n |-> [i \in 1..5 |-> IF i = c THEN v ELSE (i * c) % 2]], b, "full", FALSE, {}) :
        n \in {1, 3}, v \in {-2, 1}, b \in {2, 3, 5, 7}}
    \cup {Pcm(<<[i \in 1..5 |-> IF i % 2 = 0 THEN v ELSE -v], [i \in 1..5 |-> (i % 3) - 1]>>, b, "full", FALSE, {}) :
        v \in {-1, 1}, b \in {2, 3, 4, 6, 8}}
Overfull ==
    {Pcm(<<s>>, 3, "full", e, {SteepRow}) : s \in [1..4 -> {-8, -4, 0, 7}], e \in BOOLEAN}
    \cup {Pcm(<<s, <<0, 1, 2>>>>, 3, "full", FALSE, {}) : s \in [1..3 -> {-8, 3, 7}]}
    \cup {Pcm(<<s>>, 5, "full", TRUE, {LevelRow}) : s \in [1..4 -> {-32, 1, 24}]}
Wrapping ==
    {Pcm(<<[i \in 1..7 |-> IF i \in l THEN 3 ELSE -4], [i \in 1..7 |-> IF i \in l THEN -4 ELSE 3]>>, 3, m, TRUE,
         {<<-32, -32, -32, -32>>, <<-32, -32, 31, 31>>}) :
        l \in SUBSET {2, 3, 6}, m \in {"full", "independent"}}

Sub(type, wasted, stored, res, coded) ==
    [pad |-> 0, typeCode |-> type, wasted |-> wasted, stored |-> stored, precCode |-> 2, shift |-> 0,
     coeffs |-> <<>>, res |-> res, coded |-> coded]
Fixed(w, stored, res) == Sub(8 + Len(stored), w, stored, res, TRUE)
Lpc(w, stored, res, q) == [Sub(31 + Len(stored), w, stored, res, TRUE)
                             EXCEPT !.coeffs = q.coeffs, !.shift = q.shift]
Flat1(n, v) == [i \in 1..n |-> v]

\* Residuals that are quiet, loud, extreme or too large, in every mixture.
Values == {-128, -9, 0, 2, 128, 300}
Residuals_ ==
    {Foreign(<<Fixed(0, <<>>, r)>>, 4, 0, 8, 2) : r \in [1..4 -> {-9, 2, 128, 300}]}
    \cup {Foreign(<<Fixed(0, <<5>>, r)>>, 4, 0, 8, 16) : r \in [1..3 -> Values]}
    \cup {Foreign(<<Fixed(0, <<1, 2>>, [i \in 1..6 |-> IF i \in l THEN v ELSE i % 2])>>, 8, 0, 8, 3) :
             l \in {{}, {1}, {2, 3}, {5, 6}}, v \in Values}
    \cup {Foreign(<<Fixed(0, <<1>>, [i \in 1..5 |-> IF i \in l THEN v ELSE i % 2])>>, 6, 0, 8, 3) :
             l \in {{}, {1}, {2, 3}}, v \in Values}
    \cup {Foreign(<<Fixed(0, <<>>, Flat1(4, v) \o Flat1(4, w))>>, 8, 0, 8, 2) :
             v \in {-1, 0, 9}, w \in {-1, 0, 9, 60, -128}}

\* Restoration that leaves the width of the subframe, in int32 and in int64.
Restorations ==
    {Foreign(<<Fixed(w, Flat1(o, s), r)>>, o + 2, 0, 3, 0) :
        w \in 0..2, o \in 0..4, s \in {-1, 0}, r \in [1..2 -> {-128, -4, -1, 0, 1, 4, 127}]}
    \cup {Foreign(<<Lpc(w, Flat1(Len(q.coeffs), -1), r, q)>>, Len(q.coeffs) + 2, 0, b, 0) :
        w \in 0..2, q \in Both, b \in {3, 6}, r \in [1..2 -> {-128, -3, 0, 1, 3, 127, 200}]}
    \cup {Foreign(<<Lpc(0, <<v, v>>, <<r, 0>>, [coeffs |-> <<c, c>>, shift |-> 0])>>, 4, 0, 3, 0) :
        v \in {-4, 3}, c \in {-4, 3}, r \in {-128, -28, 28, 127}}
    \cup {Foreign(<<[Lpc(0, <<v>>, <<r, 0>>, [coeffs |-> <<63>>, shift |-> 0]) EXCEPT !.precCode = 6]>>, 3, 0, 3, 0) :
        v \in {-4, 1, 3}, r \in {-61, -4, 67}}
    \cup {Foreign(<<[Lpc(0, <<v>>, <<r, 0, 1>>, [coeffs |-> <<c>>, shift |-> s]) EXCEPT !.precCode = 6]>>, 4, 0, 3, 0) :
        v \in {-4, 1, 3}, r \in {-31, -3, 0, 5, 62}, c \in {-31, 30, 31, 32, 63}, s \in {0, 1, 2}}

\* Pairs whose channels leave the depth of the frame, or one of whose subframes does.
Pairs ==
    {Foreign(<<Sub(1, 0, a, <<>>, FALSE), Sub(1, 0, b, <<>>, FALSE)>>, 2, c, d, 0) :
        a \in [1..2 -> {-4, -1, 0, 3}], b \in [1..2 -> {-4, 0, 3}], c \in {1, 8, 9, 10}, d \in {3, 4}}
    \cup {Foreign(<<Fixed(0, <<>>, a), Fixed(0, <<>>, b)>>, 2, c, 3, 0) :
        a \in [1..2 -> {-5, -4, 3, 7}], b \in [1..2 -> {-8, 0, 8}], c \in {1, 8, 9, 10}}
    \cup {Foreign(<<Sub(0, 1, <<1>>, <<>>, FALSE), Fixed(1, <<1>>, <<a, b>>)>>, 3, c, 3, 0) :
        a \in {-1, 2, 3}, b \in {-128, 0, 4}, c \in {1, 8, 9, 10}}

Malformed ==
    LET good == Sub(1, 0, <<1, 2>>, <<>>, FALSE)
        lp   == Lpc(0, <<1>>, <<0>>, Level)
        bad  == {[good EXCEPT !.pad = 1], Sub(2, 0, <<>>, <<>>, FALSE), Sub(13, 0, <<>>, <<>>, FALSE),
                 Sub(31, 0, <<>>, <<>>, FALSE), Sub(12, 0, <<1, 1>>, <<>>, FALSE),
                 Sub(1, 3, <<0, 0>>, <<>>, FALSE), Sub(1, 4, <<>>, <<>>, FALSE), Sub(0, 9, <<>>, <<>>, FALSE),
                 [lp EXCEPT !.precCode = 15], [lp EXCEPT !.shift = -1]}
    IN  {Foreign(<<f>>, 2, 0, 3, 0) : f \in bad} \cup {Foreign(<<good, f>>, 2, 8, 3, 0) : f \in bad}

MCInputs == Mono \cup Stereo \cup Packings \cup Overfull \cup Wrapping \cup Residuals_ \cup Restorations \cup Pairs \cup Malformed
MCRelabels == {<<0, 0>>, <<0, 2>>, <<1, 0>>, <<1, 1>>, <<2, 0>>, <<0, 3>>}
=============================================================================
