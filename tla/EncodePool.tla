----------------------------- MODULE EncodePool ------------------------------
(***************************************************************************)
(* The one-shot EncodeInterleaved of pcm/encode_oneshot.go, called from     *)
(* several goroutines at once over one pool of encoders, with sinks any     *)
(* write of which may fail.                                                 *)
(*                                                                          *)
(* Encoder is one encoder driven in every way; here its Write and Close are *)
(* kept only as far as what one stream can leave behind for the next:       *)
(* leftover, counters, the closed flag, the sink it is bound to and the     *)
(* buffers that are reused when their shape fits.  The samples of a call    *)
(* are pairs of the caller and an index.                                    *)
(***************************************************************************)
EXTENDS Integers, Sequences, FiniteSets, SequencesExt

CONSTANTS
    Callers,     \* goroutines that call EncodeInterleaved
    Encoders,    \* the Encoder objects that may exist
    Jobs,        \* the calls they make
    BlockSize    \* encoderBlockSize

NoCaller  == "nobody"
NoEncoder == "none"
NoShape   == [channels |-> 0, order |-> 0]

(***************************************************************************)
(* A job: n samples, the channel count and LPC order that its Config asks   *)
(* for, and whether validateConfig accepts it.  A buffer that is not a      *)
(* whole number of samples is refused before the pool is reached.           *)
(***************************************************************************)
JobOK(j) == j.n \in Nat /\ j.channels \in Nat \ {0} /\ j.order \in Nat /\ j.valid \in BOOLEAN

ASSUME JobsAssumption == \A j \in Jobs : JobOK(j)
ASSUME PoolAssumption ==
    /\ NoCaller \notin Callers /\ NoEncoder \notin Encoders
    /\ BlockSize \in Nat \ {0}
    /\ IsFiniteSet(Encoders) /\ IsFiniteSet(Callers)
    /\ Cardinality(Encoders) >= Cardinality(Callers)

VARIABLES
    pool,     \* the encoders in encoderPool
    enc,      \* the state of each encoder
    pc,       \* where each caller's call is, "idle" between calls
    job,      \* its job
    held,     \* the encoder it drew, NoEncoder when it has none
    rest,     \* samples Write has yet to encode
    header,   \* what its sink's STREAMINFO says: total and md5
    out,      \* its sink's frames: number and samples
    result    \* what its last call returned

vars == <<pool, enc, pc, job, held, rest, header, out, result>>

Least(a, b) == IF a < b THEN a ELSE b
Take(s, n) == SubSeq(s, 1, n)
Drop(s, n) == SubSeq(s, n + 1, Len(s))

Shape(j) == [channels |-> j.channels, order |-> j.order]

\* new(Encoder).
Blank == [w |-> NoCaller, cfg |-> NoShape, ch |-> 0, work |-> NoShape,
          leftover |-> <<>>, frameNum |-> 0, total |-> 0, closed |-> FALSE]

\* The samples of the caller's buffer.
Input(c) == [i \in 1..job[c].n |-> <<c, i>>]

NoHeader == [total |-> 0, md5 |-> <<>>]

Init ==
    /\ pool = {} /\ enc = [e \in Encoders |-> Blank]
    /\ pc = [c \in Callers |-> "idle"] /\ job \in [Callers -> Jobs]
    /\ held = [c \in Callers |-> NoEncoder]
    /\ rest = [c \in Callers |-> <<>>]
    /\ header = [c \in Callers |-> NoHeader] /\ out = [c \in Callers |-> <<>>]
    /\ result = [c \in Callers |-> "none"]

Goto(c, label) == pc' = [pc EXCEPT ![c] = label]

\* The call returns v; what its defer does is still to come.
Returns(c, v) == Goto(c, "defer") /\ result' = [result EXCEPT ![c] = v]

-----------------------------------------------------------------------------
\* EncodeInterleaved is called with a new sink.
EncodeInterleaved(c, j) ==
    /\ pc[c] = "idle"
    /\ job' = [job EXCEPT ![c] = j]
    /\ header' = [header EXCEPT ![c] = NoHeader]
    /\ out' = [out EXCEPT ![c] = <<>>]
    /\ rest' = [rest EXCEPT ![c] = <<>>]
    /\ result' = [result EXCEPT ![c] = "none"]
    /\ Goto(c, "get")
    /\ UNCHANGED <<pool, enc, held>>

\* encoderPool.Get: an encoder of the pool, or a new one.
Get(c) ==
    /\ pc[c] = "get"
    /\ \/ \E e \in pool :
             /\ pool' = pool \ {e} /\ held' = [held EXCEPT ![c] = e]
             /\ UNCHANGED enc
       \/ \E e \in Encoders \ pool :
             /\ \A d \in Callers : held[d] # e
             /\ enc' = [enc EXCEPT ![e] = Blank]
             /\ held' = [held EXCEPT ![c] = e]
             /\ UNCHANGED pool
    /\ Goto(c, "init")
    /\ UNCHANGED <<job, rest, header, out, result>>

\* The runtime drops an encoder of the pool.
Drops ==
    /\ \E e \in pool : pool' = pool \ {e}
    /\ UNCHANGED <<enc, pc, job, held, rest, header, out, result>>

\* Mutant of Bound: the leftover of the stream before is kept.
Bound_KeepLeftover(e, c) ==
    LET s == Shape(job[c])
        sameChannels == e.ch # 0 /\ e.cfg.channels = s.channels
        sameWorkspace == e.work # NoShape /\ e.cfg = s
    IN  [e EXCEPT !.w = c, !.cfg = s,
                  !.ch = IF sameChannels THEN @ ELSE s.channels,
                  !.work = IF sameWorkspace THEN @ ELSE s,
                  !.frameNum = 0, !.total = 0, !.closed = FALSE]

\* Mutant of Bound: only the channel count decides whether the buffers are reused.
Bound_ChannelsOnly(e, c) ==
    LET s == Shape(job[c])
        same == e.ch # 0 /\ e.cfg.channels = s.channels
    IN  [e EXCEPT !.w = c, !.cfg = s,
                  !.ch = IF same THEN @ ELSE s.channels,
                  !.work = IF same THEN @ ELSE s,
                  !.leftover = <<>>, !.frameNum = 0, !.total = 0, !.closed = FALSE]

\* What init makes of an encoder, before it writes the header: buffers are reused
\* if they fit the shape of the previous stream.
Bound(e, c) ==
    LET s == Shape(job[c])
        sameChannels == e.ch # 0 /\ e.cfg.channels = s.channels
        sameWorkspace == e.work # NoShape /\ e.cfg = s
    IN  [e EXCEPT !.w = c, !.cfg = s,
                  !.ch = IF sameChannels THEN @ ELSE s.channels,
                  !.work = IF sameWorkspace THEN @ ELSE s,
                  !.leftover = <<>>, !.frameNum = 0, !.total = 0, !.closed = FALSE]

\* enc.init, with the total and the digest of the whole input.
InitEncoder(c) ==
    /\ pc[c] = "init"
    /\ \/ /\ ~job[c].valid
          /\ Returns(c, "failed")
          /\ UNCHANGED <<enc, header>>
       \/ /\ job[c].valid
          /\ enc' = [enc EXCEPT ![held[c]] = Bound(@, c)]
          /\ \/ Returns(c, "failed") /\ UNCHANGED header
             \/ /\ header' = [header EXCEPT ![c] = [total |-> job[c].n, md5 |-> Input(c)]]
                /\ Goto(c, "write") /\ UNCHANGED result
    /\ UNCHANGED <<pool, job, held, rest, out>>

\* A sink takes a frame of chunk from encoder e.
Emit(e, chunk) ==
    LET w == enc[e].w IN
    /\ out' = [out EXCEPT ![w] = Append(@, [num |-> enc[e].frameNum, samples |-> chunk])]
    /\ enc' = [enc EXCEPT ![e].leftover = <<>>, ![e].frameNum = @ + 1,
                          ![e].total = @ + Len(chunk)]

\* enc.Write(pcm) is called.
Write(c) ==
    /\ pc[c] = "write"
    /\ IF enc[held[c]].closed
       THEN Returns(c, "failed") /\ UNCHANGED rest
       ELSE /\ rest' = [rest EXCEPT ![c] = Input(c)]
            /\ Goto(c, "blocks") /\ UNCHANGED result
    /\ UNCHANGED <<pool, enc, job, held, header, out>>

\* Its next block: the leftover, if there is one, comes first.
WriteBlock(c) ==
    LET e == held[c]
        need == BlockSize - Len(enc[e].leftover)
    IN  /\ pc[c] = "blocks" /\ Len(rest[c]) >= need
        /\ \/ /\ Emit(e, enc[e].leftover \o Take(rest[c], need))
              /\ rest' = [rest EXCEPT ![c] = Drop(@, need)]
              /\ UNCHANGED <<pc, result>>
           \/ Returns(c, "failed") /\ UNCHANGED <<enc, out, rest>>
        /\ UNCHANGED <<pool, job, held, header>>

\* Mutant of WriteStash: the encoder goes back to the pool before Close.
WriteStash_PutEarly(c) ==
    /\ pc[c] = "blocks" /\ Len(rest[c]) < BlockSize - Len(enc[held[c]].leftover)
    /\ enc' = [enc EXCEPT ![held[c]].leftover = @ \o rest[c]]
    /\ rest' = [rest EXCEPT ![c] = <<>>]
    /\ pool' = pool \cup {held[c]}
    /\ Goto(c, "close")
    /\ UNCHANGED <<job, held, header, out, result>>

WriteStash(c) ==
    /\ pc[c] = "blocks" /\ Len(rest[c]) < BlockSize - Len(enc[held[c]].leftover)
    /\ enc' = [enc EXCEPT ![held[c]].leftover = @ \o rest[c]]
    /\ rest' = [rest EXCEPT ![c] = <<>>]
    /\ Goto(c, "close")
    /\ UNCHANGED <<pool, job, held, header, out, result>>

\* enc.Close is called.
Close(c) ==
    LET e == held[c] IN
    /\ pc[c] = "close"
    /\ IF enc[e].closed
       THEN Returns(c, "ok") /\ UNCHANGED enc
       ELSE /\ enc' = [enc EXCEPT ![e].closed = TRUE]
            /\ Goto(c, IF enc[e].leftover # <<>> THEN "flush" ELSE "finish")
            /\ UNCHANGED result
    /\ UNCHANGED <<pool, job, held, rest, header, out>>

\* It flushes the leftover, or fails and keeps it.
Flush(c) ==
    /\ pc[c] = "flush"
    /\ \/ Emit(held[c], enc[held[c]].leftover) /\ Goto(c, "finish") /\ UNCHANGED result
       \/ Returns(c, "failed") /\ UNCHANGED <<enc, out>>
    /\ UNCHANGED <<pool, job, held, rest, header>>

\* The rest of Close: the total is checked, and the header of a seekable sink
\* patched, which may fail.
Finish(c) ==
    /\ pc[c] = "finish"
    /\ \/ Returns(c, "failed")
       \/ enc[held[c]].total = job[c].n /\ Returns(c, "ok")
    /\ UNCHANGED <<pool, enc, job, held, rest, header, out>>

\* The deferred function drops the sink.
Deferred(e) == [e EXCEPT !.w = NoCaller]

\* The deferred function, after a return and after a panic of the sink alike.
Release(c) ==
    /\ pc[c] = "defer"
    /\ enc' = [enc EXCEPT ![held[c]] = Deferred(@)]
    /\ pool' = pool \cup {held[c]}
    /\ held' = [held EXCEPT ![c] = NoEncoder]
    /\ Goto(c, "idle")
    /\ UNCHANGED <<job, rest, header, out, result>>

Next ==
    \/ \E c \in Callers :
          \/ \E j \in Jobs : EncodeInterleaved(c, j)
          \/ Get(c) \/ InitEncoder(c) \/ Write(c) \/ WriteBlock(c) \/ WriteStash(c)
          \/ Close(c) \/ Flush(c) \/ Finish(c) \/ Release(c)
    \/ Drops

Spec == Init /\ [][Next]_vars

-----------------------------------------------------------------------------
(* Properties.                                                              *)

\* The samples in the frames fs.
SamplesOf(fs) == FlattenSeq([i \in DOMAIN fs |-> fs[i].samples])

\* Whatever the calls before it and beside it did, and wherever they failed, a sink
\* gets the frames of its own call's buffer, numbered from 0, in order and nothing
\* else, and all of them, with a true header, when the call returns nil.
SinkGetsItsOwnAudio ==
    \A c \in Callers :
        /\ \A i \in DOMAIN out[c] : out[c][i].num = i - 1
        /\ IsPrefix(SamplesOf(out[c]), Input(c))
        /\ result[c] = "ok" => /\ SamplesOf(out[c]) = Input(c)
                               /\ header[c] = [total |-> job[c].n, md5 |-> Input(c)]

\* No encoder is drawn by two calls at once; one that lies in the pool is in nobody's
\* hands, and holds on to nobody's sink (the deferred function's comment).
PooledEncodersAreFree ==
    /\ \A c, d \in Callers : held[c] = held[d] /\ held[c] # NoEncoder => c = d
    /\ \A e \in pool : enc[e].w = NoCaller /\ \A c \in Callers : held[c] # e

\* While a call encodes, its encoder's block buffers and workspace have the shape
\* its own Config asks for, whichever shapes the encoder was used with before and
\* however those calls ended (init's reuse of ch and work).
BuffersFit ==
    \A c \in Callers : pc[c] \in {"blocks", "flush"} =>
        /\ enc[held[c]].ch = job[c].channels
        /\ enc[held[c]].work = Shape(job[c])
=============================================================================
