--------------------------- MODULE MCFrameEncoder ----------------------------
(* Configurations of FrameEncoder: with and without a digest, with a total   *)
(* that is not declared, shorter than a block, and longer than one.          *)
EXTENDS FrameEncoder

MCConfigs ==
    {[declared |-> d, skip |-> s] : d \in {0, 1, 5}, s \in BOOLEAN}
=============================================================================
