---------------------------- MODULE MCEncodePool -----------------------------
(* Two callers, two encoders, and jobs of three shapes: one that fills blocks *)
(* and leaves a remainder, a short one, an empty one and an invalid one.      *)
EXTENDS EncodePool

Job(n, channels, order, valid) ==
    [n |-> n, channels |-> channels, order |-> order, valid |-> valid]

MCJobs == {Job(3, 1, 0, TRUE), Job(1, 2, 0, TRUE), Job(0, 1, 8, TRUE), Job(2, 2, 8, FALSE)}
=============================================================================
