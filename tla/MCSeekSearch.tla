---------------------------- MODULE MCSeekSearch ----------------------------
(***************************************************************************)
(* Small streams for SeekSearch: up to three frames of two or five bytes,   *)
(* each intact or damaged, with or without a false sync inside the second   *)
(* frame, a source that may have been cut, a SEEKTABLE that is missing,     *)
(* honest or corrupt, a length that is known or not.                        *)
(***************************************************************************)
EXTENDS SeekSearch, SequencesExt

AudioStart == 1
Block == 2

FrameLengths == {<<5>>, <<5, 9>>, <<2, 5, 2>>, <<5, 2, 5>>, <<5, 5, 2>>}

Offset(lens, i) ==
    LET off[k \in 1 .. i] == IF k = 1 THEN AudioStart ELSE off[k - 1] + lens[k - 1]
    IN  off[i]

\* Frame i of a fixed-blocksize stream; the last one holds `last` samples.
FrameCand(lens, bad, last, i) ==
    [start |-> Offset(lens, i), end |-> Offset(lens, i) + lens[i],
     number |-> i - 1, block |-> IF i = Len(lens) THEN last ELSE Block,
     ok |-> i \notin bad]

\* A false sync one byte into the second frame, decoded for `span` bytes.
FalseSync(lens, span) ==
    [start |-> Offset(lens, 2) + 1, end |-> Offset(lens, 2) + 1 + span,
     number |-> 0, block |-> Block, ok |-> FALSE]

Candidates(lens, bad, last, fake) ==
    LET frames == [i \in DOMAIN lens |-> FrameCand(lens, bad, last, i)]
    IN  IF fake = 0 \/ Len(lens) < 2 THEN frames
        ELSE InsertAt(frames, 3, FalseSync(lens, fake))

Points(lens, kind) ==
    CASE kind = "none"    -> {}
      [] kind = "honest"  -> {[sample |-> Block * (i - 1),
                               off |-> Offset(lens, i) - AudioStart] : i \in DOMAIN lens}
      [] kind = "corrupt" -> {[sample |-> -1, off |-> 99], [sample |-> 9, off |-> -3],
                              [sample |-> 0, off |-> 3]}

Stream(lens, bad, last, fake, cut, kind, total, maxBlock) ==
    LET c  == Candidates(lens, bad, last, fake)
        ln == Offset(lens, Len(lens) + 1)
        of(f) == [i \in DOMAIN c |-> c[i][f]]
    IN  [n |-> Len(c), start |-> of("start"), end |-> of("end"), number |-> of("number"),
         block |-> of("block"), ok |-> of("ok"), variable |-> FALSE,
         trueBlock |-> Block, maxBlock |-> maxBlock, maxFrame |-> 0,
         audioStart |-> AudioStart, streamEnd |-> ln, physEnd |-> ln - cut,
         total |-> IF total THEN Block * (Len(lens) - 1) + last ELSE 0,
         points |-> Points(lens, kind)]

MCStreams ==
    {Stream(lens, bad, last, fake, cut, kind, total, maxBlock) :
        lens \in FrameLengths, bad \in {{}, {1}, {2}, {3}, {1, 2}}, last \in {1, 2},
        fake \in {0, 2, 9}, cut \in {0, 1}, kind \in {"none", "honest", "corrupt"},
        total \in BOOLEAN, maxBlock \in {0, Block}}

=============================================================================
