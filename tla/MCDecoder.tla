----------------------------- MODULE MCDecoder ------------------------------
(***************************************************************************)
(* Sources of three frames of two samples (the last may hold one) for the   *)
(* decoder: intact, damaged in the middle, cut inside the last frame, cut   *)
(* between frames, with a wrong MD5, and one whose header does not parse.   *)
(***************************************************************************)
EXTENDS Decoder

F(first, block, state) == [first |-> first, block |-> block, state |-> state]

Info(total, md5) == [total |-> total, md5 |-> md5]

Whole == Audio(0, 5, Native)

Good == <<F(0, 2, "ok"), F(2, 2, "ok"), F(4, 1, "ok")>>

Source(i, fs) == [header |-> TRUE, info |-> i, frames |-> fs]

MCSources ==
    { [header |-> FALSE, info |-> Info(5, Whole), frames |-> Good],
      Source(Info(5, Whole), Good),
      Source(Info(0, <<>>), Good),
      Source(Info(5, <<>>), SubSeq(Good, 1, 2)),
      Source(Info(5, Whole), SubSeq(Good, 1, 2)),
      Source(Info(5, Audio(1, 5, Native)), Good),
      Source(Info(5, Whole), <<Good[1], F(2, 2, "bad"), Good[3]>>),
      Source(Info(0, <<>>), <<Good[1], Good[2], F(4, 1, "cut")>>) }

MCTargets == {-1, 0, 3, 4, 7}

=============================================================================
