---------------------------- MODULE FrameEncoder -----------------------------
(***************************************************************************)
(* The container-oriented encoder of pcm/frameio.go: NewFrameEncoder, the   *)
(* one-shot EncodeInterleaved, the incremental Write and Finalize, and the  *)
(* STREAMINFO it reports, with an emit callback any call of which may fail. *)
(*                                                                          *)
(* The caller's bytes are numbered in the order it offers them.  A frame is *)
(* its number, its PCM and its size; an MD5 is the sequence of bytes it is  *)
(* a digest of.  A call is a series of steps, one for each call of emit; pc *)
(* is the step it is at, and the state before a step is the one the         *)
(* callback finds.  Write returns only the number of frames it emitted, and *)
(* after an error the caller works out from it where to go on.              *)
(*                                                                          *)
(* Calls that the encoder rejects without a change of its state (Write or   *)
(* Finalize without a callback, a call after the last one, the two          *)
(* protocols mixed) are not steps.  EncodeInterleaved does not look at its  *)
(* callback, and callers give it one.                                       *)
(***************************************************************************)
EXTENDS Integers, Sequences, SequencesExt

CONSTANTS
    Configs,         \* configurations the caller makes encoders for
    Lengths,         \* lengths of the slices the caller encodes
    FrameSizes,      \* sizes in bytes that frame.EncodeFrame may produce
    BlockSize,       \* encoderBlockSize, samples in a full block
    FrameLen,        \* e.frameLen, bytes in an inter-channel sample
    MinStreamBlock,  \* minStreamInfoBlockSize
    MaxBytes         \* bound on the bytes offered to one encoder

\* A configuration: declared is TotalSamples, skip is SkipMD5.
ASSUME ConfigsAssumption == \A c \in Configs : c.declared \in Nat /\ c.skip \in BOOLEAN
ASSUME SizesAssumption ==
    /\ Lengths \subseteq Nat /\ FrameSizes \subseteq Nat \ {0}
    /\ BlockSize \in Nat \ {0} /\ FrameLen \in Nat \ {0}
    /\ MinStreamBlock \in 1..BlockSize /\ MaxBytes \in Nat

VARIABLES
    cfg,        \* e.cfg
    started, done,
    leftover,   \* e.leftover
    frameNum,   \* e.frameNum
    total,      \* e.total
    hashed,     \* what e.md5 was fed
    bounds,     \* minBlock, maxBlock, minFrame, maxFrame; NoBounds until wrote
    pc,         \* step of the running call, "idle" between calls
    p,          \* what is left of the slice being encoded
    emitted,    \* framesEmitted
    \* The caller.
    frames,     \* the frames its callback accepted
    counted,    \* frames its Writes have reported
    offered,    \* bytes it has offered, and
    accepted,   \* those it need not offer again
    verdict     \* "open", then "done" or "failed": what the last call returned

state  == <<cfg, started, done, leftover>>
stream == <<frameNum, total, hashed, bounds>>
call   == <<pc, p, emitted>>
caller == <<frames, counted, offered, accepted, verdict>>
vars   == <<state, stream, call, caller>>

NoBounds == [minBlock |-> 0, maxBlock |-> 0, minFrame |-> 0, maxFrame |-> 0]
BlockBytes == BlockSize * FrameLen
Least(a, b) == IF a < b THEN a ELSE b
Most(a, b)  == IF a < b THEN b ELSE a
Bytes(from, n) == [i \in 1..n |-> from + i]
Take(s, n) == SubSeq(s, 1, n)
Drop(s, n) == SubSeq(s, n + 1, Len(s))

-----------------------------------------------------------------------------
\* NewFrameEncoder with a configuration that validateConfig accepts.
Init ==
    /\ cfg \in Configs
    /\ started = FALSE /\ done = FALSE /\ leftover = <<>>
    /\ frameNum = 0 /\ total = 0 /\ hashed = <<>> /\ bounds = NoBounds
    /\ pc = "idle" /\ p = <<>> /\ emitted = 0
    /\ frames = <<>> /\ counted = 0 /\ offered = 0 /\ accepted = 0 /\ verdict = "open"

-----------------------------------------------------------------------------
(* emitFrame.                                                               *)

\* The STREAMINFO bounds after a frame: the block sizes leave out the final block.
Widened(size, n, final) ==
    IF bounds = NoBounds
    THEN [minBlock |-> n, maxBlock |-> n, minFrame |-> size, maxFrame |-> size]
    ELSE [minBlock |-> IF final THEN bounds.minBlock ELSE Least(bounds.minBlock, n),
          maxBlock |-> IF final THEN bounds.maxBlock ELSE Most(bounds.maxBlock, n),
          minFrame |-> Least(bounds.minFrame, size), maxFrame |-> Most(bounds.maxFrame, size)]

\* emit accepts the frame of chunk, and only then is the state updated.
Emit(chunk, final) ==
    \E size \in FrameSizes :
        LET n == Len(chunk) \div FrameLen IN
        /\ frames' = Append(frames, [num |-> frameNum, first |-> total, samples |-> n,
                                     size |-> size, pcm |-> chunk])
        /\ hashed' = IF cfg.skip THEN hashed ELSE hashed \o chunk
        /\ frameNum' = frameNum + 1
        /\ total' = total + n
        /\ bounds' = Widened(size, n, final)

\* Mutant of EmitFails: the frame is hashed before the caller accepts it.
EmitFails_Hashed(chunk) ==
    /\ hashed' = hashed \o chunk
    /\ UNCHANGED <<frameNum, total, bounds, frames>>

\* emit fails on the frame of chunk: the encoder's state is what it was.
EmitFails(chunk) == UNCHANGED <<stream, frames>>

Returns(v) == verdict' = v /\ pc' = "idle" /\ p' = <<>>

-----------------------------------------------------------------------------
(* EncodeInterleaved.                                                       *)

\* Mutant of EncodeInterleaved: only a finished encoder is refused.
EncodeInterleaved_Mixed(n) ==
    /\ pc = "idle" /\ ~done /\ n <= MaxBytes
    /\ done' = TRUE
    /\ IF n % FrameLen # 0 THEN Returns("failed") /\ UNCHANGED accepted
       ELSE pc' = "oneshot" /\ p' = Bytes(0, n) /\ accepted' = n /\ UNCHANGED verdict
    /\ UNCHANGED <<cfg, started, leftover, stream, emitted, frames, counted, offered>>

\* The encoder is used up before anything can fail.
EncodeInterleaved(n) ==
    /\ pc = "idle" /\ ~done /\ ~started /\ n <= MaxBytes
    /\ done' = TRUE
    /\ IF n % FrameLen # 0 THEN Returns("failed") /\ UNCHANGED accepted
       ELSE pc' = "oneshot" /\ p' = Bytes(0, n) /\ accepted' = n /\ UNCHANGED verdict
    /\ UNCHANGED <<cfg, started, leftover, stream, emitted, frames, counted, offered>>

Declared == cfg.declared > 0 /\ total # cfg.declared

\* The declared total is checked last.
Ends == Returns(IF Declared THEN "failed" ELSE "done")

Chunk == Take(p, Least(BlockBytes, Len(p)))

OneShotBlock ==
    /\ pc = "oneshot" /\ p # <<>>
    /\ \/ /\ Emit(Chunk, Len(p) <= BlockBytes)
          /\ p' = Drop(p, Len(Chunk))
          /\ UNCHANGED <<pc, verdict>>
       \/ EmitFails(Chunk) /\ Returns("failed")
    /\ UNCHANGED <<state, emitted, counted, offered, accepted>>

OneShotEnds ==
    /\ pc = "oneshot" /\ p = <<>>
    /\ Ends
    /\ UNCHANGED <<state, stream, emitted, frames, counted, offered, accepted>>

-----------------------------------------------------------------------------
(* Write.                                                                   *)

Need == BlockBytes - Len(leftover)

\* Write(p): a slice too short to complete a block only extends the leftover.
Write(n) ==
    /\ pc = "idle" /\ ~done /\ accepted + n <= MaxBytes
    /\ started' = TRUE
    /\ emitted' = 0
    /\ offered' = accepted + n
    /\ IF leftover # <<>> /\ n < Need
       THEN /\ leftover' = leftover \o Bytes(accepted, n)
            /\ accepted' = offered'
            /\ UNCHANGED <<pc, p>>
       ELSE /\ p' = Bytes(accepted, n)
            /\ pc' = IF leftover # <<>> THEN "join" ELSE "blocks"
            /\ UNCHANGED <<leftover, accepted>>
    /\ UNCHANGED <<cfg, done, stream, frames, counted, verdict>>

\* Mutant of WriteFails: the error return drops the count of the frames emitted.
WriteFails_Uncounted ==
    /\ counted' = counted
    /\ accepted' = Most(accepted, counted' * BlockBytes)
    /\ Returns(verdict)
    /\ UNCHANGED <<state, emitted, offered>>

\* Write returns framesEmitted and the error.  The caller goes on after the last
\* frame it was told of, unless the encoder holds more of its bytes than those.
WriteFails ==
    /\ counted' = counted + emitted
    /\ accepted' = Most(accepted, counted' * BlockBytes)
    /\ Returns(verdict)
    /\ UNCHANGED <<state, emitted, offered>>

Joined == leftover \o Take(p, Need)

WriteJoin ==
    /\ pc = "join"
    /\ \/ /\ Emit(Joined, FALSE)
          /\ emitted' = emitted + 1
          /\ leftover' = <<>> /\ p' = Drop(p, Need) /\ pc' = "blocks"
          /\ UNCHANGED <<cfg, started, done, counted, offered, accepted, verdict>>
       \/ EmitFails(Joined) /\ WriteFails

WriteBlock ==
    /\ pc = "blocks" /\ Len(p) >= BlockBytes
    /\ \/ /\ Emit(Take(p, BlockBytes), FALSE)
          /\ emitted' = emitted + 1
          /\ p' = Drop(p, BlockBytes)
          /\ UNCHANGED <<state, pc, counted, offered, accepted, verdict>>
       \/ EmitFails(Take(p, BlockBytes)) /\ WriteFails

\* The remainder becomes the leftover, and Write returns without an error.
WriteStash ==
    /\ pc = "blocks" /\ Len(p) < BlockBytes
    /\ leftover' = p
    /\ counted' = counted + emitted
    /\ accepted' = offered
    /\ Returns(verdict)
    /\ UNCHANGED <<cfg, started, done, stream, emitted, frames, offered>>

-----------------------------------------------------------------------------
(* Finalize.                                                                *)

\* The encoder is used up before anything can fail.
Finalize ==
    /\ pc = "idle" /\ ~done /\ started
    /\ done' = TRUE
    /\ IF Len(leftover) % FrameLen # 0 THEN Returns("failed")
       ELSE IF leftover # <<>> THEN pc' = "final" /\ UNCHANGED <<p, verdict>>
       ELSE Ends
    /\ UNCHANGED <<cfg, started, leftover, stream, emitted, frames, counted, offered, accepted>>

FinalBlock ==
    /\ pc = "final"
    /\ \/ Emit(leftover, TRUE) /\ pc' = "check" /\ leftover' = <<>> /\ UNCHANGED <<p, verdict>>
       \/ EmitFails(leftover) /\ Returns("failed") /\ UNCHANGED leftover
    /\ UNCHANGED <<cfg, started, done, emitted, counted, offered, accepted>>

FinalCheck ==
    /\ pc = "check"
    /\ Ends
    /\ UNCHANGED <<state, stream, emitted, frames, counted, offered, accepted>>

-----------------------------------------------------------------------------
Next ==
    \/ \E n \in Lengths : EncodeInterleaved(n) \/ Write(n)
    \/ OneShotBlock \/ OneShotEnds
    \/ WriteJoin \/ WriteBlock \/ WriteStash
    \/ Finalize \/ FinalBlock \/ FinalCheck

Spec == Init /\ [][Next]_vars

-----------------------------------------------------------------------------
(* What StreamInfo and StreamInfoBytes report.                              *)

\* streamInfoParams before the last call.
UpfrontInfo ==
    LET declared == IF cfg.declared > 0 THEN Least(cfg.declared, BlockSize) ELSE BlockSize
        block == Most(declared, MinStreamBlock)
    IN  [minBlock |-> block, maxBlock |-> block, minFrame |-> 0, maxFrame |-> 0,
         total |-> cfg.declared, md5 |-> <<"unknown">>]

\* streamInfoParams.
StreamInfo ==
    IF ~done THEN UpfrontInfo
    ELSE [minBlock |-> Most(bounds.minBlock, MinStreamBlock),
          maxBlock |-> Most(bounds.maxBlock, MinStreamBlock),
          minFrame |-> bounds.minFrame, maxFrame |-> bounds.maxFrame,
          total |-> total, md5 |-> IF cfg.skip THEN <<"unknown">> ELSE hashed]

-----------------------------------------------------------------------------
(* Properties.                                                              *)

\* The PCM of the frames.
Pcm == FlattenSeq([i \in DOMAIN frames |-> frames[i].pcm])

\* However the input is split over Writes, whichever calls of emit fail and are made
\* up for by the caller from the frame count Write returned, the frames are those of
\* a single EncodeInterleaved of the whole input: full blocks numbered from 0 with
\* its bytes in order, then what is left over (Write's documentation).
FramesOfOneShot ==
    /\ \A i \in DOMAIN frames :
           /\ frames[i].num = i - 1
           /\ Len(frames[i].pcm) = BlockBytes \/ (done /\ i = Len(frames))
           /\ frames[i].pcm = Bytes((i - 1) * BlockBytes, Len(frames[i].pcm))
    /\ pc = "idle" /\ ~done => accepted = Len(Pcm) + Len(leftover)
    /\ verdict = "done" => Len(Pcm) = accepted

\* A STREAMINFO that maps frame numbers to samples as a decoder of a
\* fixed-blocksize stream does.
Maps(si) ==
    /\ si.minBlock = si.maxBlock /\ si.maxBlock >= MinStreamBlock
    /\ \A i \in DOMAIN frames : /\ frames[i].first = frames[i].num * si.maxBlock
                                /\ frames[i].samples <= si.maxBlock

\* The codec box is right between calls, also after a call that failed: once the
\* encoder is used up, digest, total and sizes are those of exactly the frames the
\* caller accepted; and the box a container wrote before the first frame still maps
\* the frames of a stream that ended without an error (emitFrame's comment on a failed
\* emit, streamInfoParams).
InfoIsTrue ==
    /\ pc = "idle" /\ done =>
           /\ Maps(StreamInfo)
           /\ StreamInfo.total * FrameLen = Len(Pcm)
           /\ ~cfg.skip => StreamInfo.md5 = Pcm
           /\ \A i \in DOMAIN frames :
                  frames[i].size \in StreamInfo.minFrame..StreamInfo.maxFrame
    /\ verdict = "done" => Maps(UpfrontInfo)

\* StreamInfoBytes' documentation: the body is valid immediately and is refined to
\* the measured values.  Stated also for the emit callback: the block size it is
\* handed is one the STREAMINFO reported at that moment allows.
InfoValidInCallback ==
    /\ pc = "oneshot" /\ p # <<>> => Len(Chunk) \div FrameLen <= StreamInfo.maxBlock
    /\ pc = "final" => Len(leftover) \div FrameLen <= StreamInfo.maxBlock

\* The bytes the encoder has, which in a running Write are those it has placed.
Taken == IF pc \in {"join", "blocks"} THEN Len(Pcm) + Len(leftover) ELSE accepted

Status ==
    IF verdict = "open" THEN "open" ELSE IF verdict = "done" THEN "closed" ELSE "failed"

\* The frame encoder keeps the promise of PcmStream, as the streaming encoder does.
Promise == INSTANCE PcmStream WITH taken <- Taken, stored <- Pcm, status <- Status

\* Every step is a step of PcmStream or none: whichever of the two protocols is
\* used, a stream that ends without an error is whole and final, and an encoder
\* that was used one way cannot be used the other (EncodeInterleaved, Finalize).
KeepsPromise == Promise!Spec
=============================================================================
