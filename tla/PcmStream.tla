----------------------------- MODULE PcmStream ------------------------------
(***************************************************************************)
(* What a streaming PCM encoder promises its caller: the bytes it takes    *)
(* reach its sink in order, each once, and a stream that closes without an  *)
(* error holds all of them and never changes again.  The caller's bytes are *)
(* numbered from 1.                                                         *)
(***************************************************************************)
EXTENDS Integers, Sequences

VARIABLES
    taken,    \* number of bytes the encoder has taken from the caller
    stored,   \* the bytes the sink holds as audio
    status    \* "open", "closed" (without an error) or "failed"

\* The bytes 1..n in order.
Count(n) == [i \in 1..n |-> i]

Init == taken = 0 /\ stored = <<>> /\ status = "open"

\* More bytes are taken, and some of those taken reach the sink.
Advance ==
    /\ status = "open" /\ UNCHANGED status
    /\ taken' >= taken
    /\ Len(stored') \in Len(stored)..taken'
    /\ stored' = Count(Len(stored'))

\* Closing succeeds only with everything stored.
Close ==
    /\ status = "open" /\ status' = "closed"
    /\ stored = Count(taken)
    /\ UNCHANGED <<taken, stored>>

Fail == status' = "failed" /\ UNCHANGED <<taken, stored>>

\* The encoder is bound to a fresh sink.
Restart == taken' = 0 /\ stored' = <<>> /\ status' \in {"open", "failed"}

Next == Advance \/ Close \/ Fail \/ Restart

Spec == Init /\ [][Next]_<<taken, stored, status>>
=============================================================================
