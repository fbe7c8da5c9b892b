----------------------------- MODULE MCEncoder ------------------------------
(* Small configurations of Encoder: blocks of 3 samples of 2 bytes, sinks    *)
(* that seek and that do not, seek tables that fill up, do not, or are the   *)
(* default size, tags that are absent, good or bad, and every MD5 mode.      *)
EXTENDS Encoder

Plain == [valid |-> TRUE, seekable |-> TRUE, declared |-> 0, interval |-> 0,
          maxPoints |-> 0, tags |-> "none", md5 |-> "running"]

MCConfigs ==
    {Plain,
     [Plain EXCEPT !.interval = 6],
     [Plain EXCEPT !.interval = 2, !.maxPoints = 2, !.tags = "good"],
     [Plain EXCEPT !.interval = 3, !.maxPoints = 9, !.md5 = "skipped"],
     [Plain EXCEPT !.seekable = FALSE, !.tags = "good"],
     [Plain EXCEPT !.seekable = FALSE, !.declared = 7, !.md5 = "supplied"],
     [Plain EXCEPT !.seekable = FALSE, !.declared = 1],
     [Plain EXCEPT !.declared = 3],
     [Plain EXCEPT !.seekable = FALSE, !.interval = 3],
     [Plain EXCEPT !.tags = "bad"],
     [Plain EXCEPT !.valid = FALSE]}
=============================================================================
