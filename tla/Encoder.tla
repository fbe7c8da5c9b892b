------------------------------ MODULE Encoder -------------------------------
(***************************************************************************)
(* The streaming encoder of pcm/encoder.go: init (NewEncoder and Reset),    *)
(* Write, emitBlock and Close over a sink any of whose writes and seeks may *)
(* fail, and whose failed write may leave part of its bytes behind.         *)
(*                                                                          *)
(* The caller's bytes are numbered in the order it offers them; after a     *)
(* failed Write it may go on from the first byte that Write did not report  *)
(* consumed.  A chunk of PCM is the sequence of its bytes' numbers, and an  *)
(* MD5 is the sequence of bytes it is a digest of.  A call is a series of   *)
(* steps, one for each write to the sink; pc is the step it is at.          *)
(***************************************************************************)
EXTENDS Integers, Sequences

CONSTANTS
    Configs,           \* configurations and sinks the caller binds
    WriteLengths,      \* lengths of the slices the caller writes
    FrameSizes,        \* sizes in bytes that frame.EncodeFrame may produce
    BlockSize,         \* encoderBlockSize, samples in a full block
    FrameLen,          \* e.frameLen, bytes in an inter-channel sample
    MinStreamBlock,    \* minStreamInfoBlockSize
    DefaultMaxPoints,  \* defaultSeekMaxPoints
    PointLimit,        \* seek points that a 24-bit block length can hold
    TagsLen,           \* length of a VORBIS_COMMENT body
    MaxBytes,          \* bound on the bytes offered to one stream
    MaxJunk            \* bound on the bytes left behind by failed writes

NoDigest  == <<"zero">>    \* the all-zero STREAMINFO MD5
CutDigest == <<"cut">>     \* one that a failed write has replaced in part
Supplied  == <<"known">>   \* the digest EncodeInterleaved computed beforehand
HeaderLen == 4             \* metadata block header
InfoLen   == 34            \* STREAMINFO body
PointLen  == 18            \* one seek point
InfoBody  == 8             \* offset of the STREAMINFO body

(***************************************************************************)
(* A configuration: valid says that validateConfig and the nil check pass,  *)
(* seekable that the sink is a WriteSeeker, declared is TotalSamples,       *)
(* interval and maxPoints ask for a seek table, tags is "none", "good" or   *)
(* "bad" (buildVorbisComment rejects them), md5 is how the digest is made.  *)
(***************************************************************************)
ConfigOK(c) ==
    /\ c.valid \in BOOLEAN /\ c.seekable \in BOOLEAN
    /\ c.declared \in Nat /\ c.interval \in Nat /\ c.maxPoints \in Nat
    /\ c.tags \in {"none", "good", "bad"}
    /\ c.md5 \in {"running", "skipped", "supplied"}

ASSUME ConfigsAssumption == \A c \in Configs : ConfigOK(c)
ASSUME SizesAssumption ==
    /\ WriteLengths \subseteq Nat /\ FrameSizes \subseteq Nat \ {0}
    /\ BlockSize \in Nat \ {0} /\ FrameLen \in Nat \ {0}
    /\ MinStreamBlock \in 1..BlockSize
    /\ DefaultMaxPoints \in Nat \ {0} /\ PointLimit \in Nat \ {0}
    /\ TagsLen \in Nat /\ MaxBytes \in Nat /\ MaxJunk \in Nat

VARIABLES
    cfg,          \* e.cfg with the kind of sink
    closed,       \* e.closed
    leftover,     \* e.leftover
    frameNum,     \* e.frameNum
    total,        \* e.total
    audioBytes,   \* e.audioBytes
    hashed,       \* what e.md5 was fed
    bounds,       \* minBlock, maxBlock, minFrame, maxFrame; NoBounds until wrote
    points,       \* e.points
    nextBoundary, \* e.nextBoundary
    pc,           \* step of the running call, "idle" between calls
    p,            \* what is left of the slice being written
    written,      \* bytes of that slice in blocks the sink has
    \* The sink.
    info,         \* its STREAMINFO
    headers,      \* its other block headers, by offset
    table,        \* the points of its SEEKTABLE body
    audio,        \* the PCM of its frames
    frames,       \* its frames: number, first sample, samples, size, offset
    end,          \* bytes after the metadata region
    junk,         \* those of them that failed frame writes left
    \* The caller.
    accepted,     \* bytes its Writes have reported consumed
    verdict       \* "open", then what the first Close returned; "unusable" after a failed Reset

stream == <<frameNum, total, audioBytes, hashed, bounds, points, nextBoundary>>
sink   == <<info, headers, table, audio, frames, end, junk>>
call   == <<pc, p, written>>
vars   == <<cfg, closed, leftover, stream, call, sink, accepted, verdict>>

NoBounds == [minBlock |-> 0, maxBlock |-> 0, minFrame |-> 0, maxFrame |-> 0]
BlockBytes == BlockSize * FrameLen
Least(a, b) == IF a < b THEN a ELSE b
Most(a, b)  == IF a < b THEN b ELSE a
Bytes(from, n) == [i \in 1..n |-> from + i]

-----------------------------------------------------------------------------
(* The metadata region.                                                     *)

MaxPoints(c) == Least(IF c.maxPoints = 0 THEN DefaultMaxPoints ELSE c.maxPoints, PointLimit)

TagsBlock(c) == IF c.tags = "none" THEN 0 ELSE HeaderLen + TagsLen
TableHeader(c) == InfoBody + InfoLen + TagsBlock(c)
SeekBodyOff(c) == TableHeader(c) + HeaderLen

\* Offset of the first frame.
AudioStart(c) ==
    IF c.interval = 0 THEN TableHeader(c)
    ELSE SeekBodyOff(c) + MaxPoints(c) * PointLen + HeaderLen

\* The block headers that writeInitialMetadata writes.
Block(kind, len, last) == [kind |-> kind, len |-> len, last |-> last]
InitialHeaders(c) ==
    LET tags == c.tags # "none"
        seek == c.interval > 0
        at == {InfoBody - HeaderLen}
              \cup (IF tags THEN {InfoBody + InfoLen} ELSE {})
              \cup (IF seek THEN {TableHeader(c), AudioStart(c) - HeaderLen} ELSE {})
    IN  [o \in at |->
            CASE o = InfoBody - HeaderLen -> Block("info", InfoLen, ~tags /\ ~seek)
              [] tags /\ o = InfoBody + InfoLen -> Block("tags", TagsLen, ~seek)
              [] seek /\ o = TableHeader(c) -> Block("seek", MaxPoints(c) * PointLen, FALSE)
              [] OTHER -> Block("pad", 0, TRUE)]

UpfrontBlockSize(c) ==
    IF c.seekable THEN 0
    ELSE Most(IF c.declared = 0 THEN BlockSize ELSE Least(c.declared, BlockSize), MinStreamBlock)

\* The placeholder STREAMINFO; only the branch without a seek table sets block sizes.
InitialInfo(c) ==
    LET block == IF c.interval > 0 THEN 0 ELSE UpfrontBlockSize(c)
    IN  [bounds |-> [NoBounds EXCEPT !.minBlock = block, !.maxBlock = block],
         total  |-> c.declared,
         md5    |-> IF c.md5 = "supplied" THEN Supplied ELSE NoDigest]

-----------------------------------------------------------------------------
(* NewEncoder and Reset.                                                    *)

\* Mutant of Fresh: the running MD5 of the previous stream is kept.
Fresh_KeepDigest(c) ==
    /\ cfg' = c
    /\ closed' = FALSE
    /\ leftover' = <<>>
    /\ frameNum' = 0 /\ total' = 0 /\ audioBytes' = 0
    /\ hashed' = hashed
    /\ bounds' = NoBounds
    /\ points' = <<>>
    /\ nextBoundary' = IF c.interval > 0 /\ c.seekable THEN c.interval ELSE 0

\* Mutant of Fresh: the byte count of the previous stream is kept.
Fresh_KeepOffset(c) ==
    /\ cfg' = c
    /\ closed' = FALSE
    /\ leftover' = <<>>
    /\ frameNum' = 0 /\ total' = 0 /\ audioBytes' = audioBytes
    /\ hashed' = <<>>
    /\ bounds' = NoBounds
    /\ points' = <<>>
    /\ nextBoundary' = IF c.interval > 0 /\ c.seekable THEN c.interval ELSE 0

Fresh(c) ==
    /\ cfg' = c
    /\ closed' = FALSE
    /\ leftover' = <<>>
    /\ frameNum' = 0 /\ total' = 0 /\ audioBytes' = 0
    /\ hashed' = <<>>
    /\ bounds' = NoBounds
    /\ points' = <<>>
    /\ nextBoundary' = IF c.interval > 0 /\ c.seekable THEN c.interval ELSE 0

EmptySink ==
    /\ table' = <<>> /\ audio' = <<>> /\ frames' = <<>>
    /\ end' = 0 /\ junk' = 0

\* What init rejects after it has reset the encoder and before it writes.
Unwritable(c) == c.tags = "bad" \/ (c.interval > 0 /\ ~c.seekable)

\* All of init succeeds.
Reset(c) ==
    /\ pc = "idle"
    /\ c.valid /\ ~Unwritable(c)
    /\ Fresh(c)
    /\ info' = InitialInfo(c)
    /\ headers' = InitialHeaders(c)
    /\ EmptySink
    /\ accepted' = 0
    /\ verdict' = "open"
    /\ UNCHANGED call

\* init rejects its arguments, and the previous stream's state stays.
ResetRejected(c) ==
    /\ pc = "idle"
    /\ ~c.valid
    /\ verdict' = "unusable"
    /\ UNCHANGED <<cfg, closed, leftover, stream, call, sink, accepted>>

\* init fails later: the encoder is reset but its sink has no complete header.
ResetFails(c) ==
    /\ pc = "idle"
    /\ c.valid
    /\ Fresh(c)
    /\ info' = InitialInfo(c)
    /\ headers' = << >>
    /\ EmptySink
    /\ accepted' = 0
    /\ verdict' = "unusable"
    /\ UNCHANGED call

-----------------------------------------------------------------------------
(* emitBlock.                                                               *)

\* A point is due at the first frame and where the next boundary is reached.
PointDue(first) == audioBytes = 0 \/ first >= nextBoundary

RecordPoint(n) ==
    IF cfg.interval > 0 /\ Len(points) < MaxPoints(cfg) /\ PointDue(total)
    THEN /\ points' = Append(points, [sample |-> total, offset |-> audioBytes, samples |-> n])
         /\ nextBoundary' =
                IF total >= nextBoundary
                THEN nextBoundary + ((total - nextBoundary) \div cfg.interval + 1) * cfg.interval
                ELSE nextBoundary
    ELSE UNCHANGED <<points, nextBoundary>>

\* The STREAMINFO bounds after a frame: the block sizes leave out the final block.
Widened(size, n, final) ==
    IF bounds = NoBounds
    THEN [minBlock |-> n, maxBlock |-> n, minFrame |-> size, maxFrame |-> size]
    ELSE [minBlock |-> IF final THEN bounds.minBlock ELSE Least(bounds.minBlock, n),
          maxBlock |-> IF final THEN bounds.maxBlock ELSE Most(bounds.maxBlock, n),
          minFrame |-> Least(bounds.minFrame, size),
          maxFrame |-> Most(bounds.maxFrame, size)]

\* The sink takes the frame of chunk, and only then is the state updated.
Emit(chunk, final) ==
    \E size \in FrameSizes :
        LET n == Len(chunk) \div FrameLen IN
        /\ frames' = Append(frames, [num |-> frameNum, first |-> total, samples |-> n,
                                     size |-> size, at |-> end])
        /\ end' = end + size
        /\ audio' = audio \o chunk
        /\ hashed' = IF cfg.md5 = "running" THEN hashed \o chunk ELSE hashed
        /\ RecordPoint(n)
        /\ audioBytes' = audioBytes + size
        /\ frameNum' = frameNum + 1
        /\ total' = total + n
        /\ bounds' = Widened(size, n, final)
        /\ UNCHANGED <<info, headers, table, junk>>

\* Mutant of EmitFails: the frame is numbered before the sink takes it.
EmitFails_Numbered ==
    /\ \E left \in 0..(MaxJunk - junk) : junk' = junk + left /\ end' = end + left
    /\ frameNum' = frameNum + 1
    /\ UNCHANGED <<total, audioBytes, hashed, bounds, points, nextBoundary,
                   info, headers, table, audio, frames>>

\* The sink fails, having kept some of the frame's bytes; emitBlock changes nothing.
EmitFails ==
    /\ \E left \in 0..(MaxJunk - junk) : junk' = junk + left /\ end' = end + left
    /\ UNCHANGED <<stream, info, headers, table, audio, frames>>

-----------------------------------------------------------------------------
(* Write.                                                                   *)

Usable == verdict # "unusable"

\* Write reports n bytes consumed, and the caller's next slice starts after them.
Return(n) ==
    /\ accepted' = accepted + n
    /\ pc' = "idle" /\ p' = <<>> /\ written' = 0

Need == BlockBytes - Len(leftover)

\* A Write too short to complete a block only extends the leftover.
WriteShort(n) ==
    /\ pc = "idle" /\ Usable /\ ~closed /\ accepted + n <= MaxBytes
    /\ leftover # <<>> /\ n < Need
    /\ leftover' = leftover \o Bytes(accepted, n)
    /\ Return(n)
    /\ UNCHANGED <<cfg, closed, stream, sink, verdict>>

\* Any other Write first completes the leftover's block, if there is one.
WriteStarts(n) ==
    /\ pc = "idle" /\ Usable /\ ~closed /\ accepted + n <= MaxBytes
    /\ leftover = <<>> \/ n >= Need
    /\ p' = Bytes(accepted, n)
    /\ pc' = IF leftover # <<>> THEN "join" ELSE "blocks"
    /\ UNCHANGED <<cfg, closed, leftover, stream, written, sink, accepted, verdict>>

\* Mutant of WriteJoin: the joined leftover stays.
WriteJoin_KeepLeftover ==
    /\ pc = "join"
    /\ Emit(leftover \o SubSeq(p, 1, Need), FALSE)
    /\ UNCHANGED leftover
    /\ p' = SubSeq(p, Need + 1, Len(p))
    /\ written' = Need
    /\ pc' = "blocks"
    /\ UNCHANGED <<cfg, closed, accepted, verdict>>

WriteJoin ==
    /\ pc = "join"
    /\ Emit(leftover \o SubSeq(p, 1, Need), FALSE)
    /\ leftover' = <<>>
    /\ p' = SubSeq(p, Need + 1, Len(p))
    /\ written' = Need
    /\ pc' = "blocks"
    /\ UNCHANGED <<cfg, closed, accepted, verdict>>

WriteBlock ==
    /\ pc = "blocks" /\ Len(p) >= BlockBytes
    /\ Emit(SubSeq(p, 1, BlockBytes), FALSE)
    /\ p' = SubSeq(p, BlockBytes + 1, Len(p))
    /\ written' = written + BlockBytes
    /\ UNCHANGED <<cfg, closed, leftover, pc, accepted, verdict>>

\* A failed join reports 0 and keeps the leftover; a failed block, what precedes it.
WriteFails ==
    /\ pc = "join" \/ (pc = "blocks" /\ Len(p) >= BlockBytes)
    /\ EmitFails
    /\ Return(written)
    /\ UNCHANGED <<cfg, closed, leftover, verdict>>

WriteStash ==
    /\ pc = "blocks" /\ Len(p) < BlockBytes
    /\ leftover' = p
    /\ Return(written + Len(p))
    /\ UNCHANGED <<cfg, closed, stream, sink, verdict>>

-----------------------------------------------------------------------------
(* Close.                                                                   *)

CloseReturns(v) ==
    /\ verdict' = v
    /\ pc' = "idle"
    /\ UNCHANGED <<p, written>>

\* Mutant of Close: what is left over is not flushed.
Close_Unflushed ==
    /\ pc = "idle" /\ Usable /\ ~closed
    /\ closed' = TRUE
    /\ IF Len(leftover) % FrameLen # 0
       THEN CloseReturns("failed")
       ELSE /\ pc' = "verify"
            /\ UNCHANGED <<p, written, verdict>>
    /\ UNCHANGED <<cfg, leftover, stream, sink, accepted>>

\* Close marks the encoder closed before anything can fail.
Close ==
    /\ pc = "idle" /\ Usable /\ ~closed
    /\ closed' = TRUE
    /\ IF Len(leftover) % FrameLen # 0
       THEN CloseReturns("failed")
       ELSE /\ pc' = IF leftover # <<>> THEN "final" ELSE "verify"
            /\ UNCHANGED <<p, written, verdict>>
    /\ UNCHANGED <<cfg, leftover, stream, sink, accepted>>

CloseFinal ==
    /\ pc = "final"
    /\ Emit(leftover, TRUE)
    /\ leftover' = <<>>
    /\ pc' = "verify"
    /\ UNCHANGED <<cfg, closed, p, written, accepted, verdict>>

CloseFinalFails ==
    /\ pc = "final"
    /\ EmitFails
    /\ CloseReturns("failed")
    /\ UNCHANGED <<cfg, closed, leftover, accepted>>

Declared == cfg.declared > 0 /\ total # cfg.declared

\* The declared total is checked; a non-seekable sink then needs no patching.
CloseVerify ==
    /\ pc = "verify"
    /\ IF Declared THEN CloseReturns("failed")
       ELSE IF ~cfg.seekable THEN CloseReturns("done")
       ELSE pc' = "info" /\ UNCHANGED <<p, written, verdict>>
    /\ UNCHANGED <<cfg, closed, leftover, stream, sink, accepted>>

\* Mutant of MeasuredInfo: the total stays as the placeholder had it.
MeasuredInfo_Declared ==
    [bounds |-> [bounds EXCEPT !.minBlock = Most(@, MinStreamBlock),
                               !.maxBlock = Most(@, MinStreamBlock)],
     total  |-> info.total,
     md5    |-> IF cfg.md5 = "running" THEN hashed ELSE info.md5]

MeasuredInfo ==
    [bounds |-> [bounds EXCEPT !.minBlock = Most(@, MinStreamBlock),
                               !.maxBlock = Most(@, MinStreamBlock)],
     total  |-> total,
     md5    |-> IF cfg.md5 = "running" THEN hashed ELSE info.md5]

\* What each patch of the header writes, the next step, and its effect.
AfterInfo == IF cfg.interval > 0 THEN "table" ELSE "end"
AfterTable == IF Len(points) < MaxPoints(cfg) THEN "shrink" ELSE "end"

ShrinkTable ==
    headers' = [headers EXCEPT ![TableHeader(cfg)].len = Len(points) * PointLen]

\* Mutant of GrowPadding: the padding's own header is counted in its length.
GrowPadding_Header ==
    LET at == SeekBodyOff(cfg) + Len(points) * PointLen
        pad == Block("pad", (MaxPoints(cfg) - Len(points)) * PointLen - HeaderLen, TRUE)
    IN  headers' = [o \in DOMAIN headers \cup {at} |-> IF o = at THEN pad ELSE headers[o]]

GrowPadding ==
    LET at == SeekBodyOff(cfg) + Len(points) * PointLen
        pad == Block("pad", (MaxPoints(cfg) - Len(points)) * PointLen, TRUE)
    IN  headers' = [o \in DOMAIN headers \cup {at} |-> IF o = at THEN pad ELSE headers[o]]

Patched ==
    \/ pc = "info"   /\ info' = MeasuredInfo /\ UNCHANGED <<headers, table>>
    \/ pc = "table"  /\ table' = points /\ UNCHANGED <<info, headers>>
    \/ pc = "shrink" /\ ShrinkTable /\ UNCHANGED <<info, table>>
    \/ pc = "pad"    /\ GrowPadding /\ UNCHANGED <<info, table>>

ClosePatches ==
    /\ Patched
    /\ pc' = CASE pc = "info"   -> AfterInfo
               [] pc = "table"  -> AfterTable
               [] pc = "shrink" -> "pad"
               [] pc = "pad"    -> "end"
    /\ UNCHANGED <<cfg, closed, leftover, stream, p, written, audio, frames, end, junk,
                   accepted, verdict>>

\* A patch that is cut off replaces the first of its bytes.  In STREAMINFO the number it
\* stops in lies between the placeholder's and the new one, as the former is 0 or the same.
InfoNumbers(i) ==
    <<i.bounds.minBlock, i.bounds.maxBlock, i.bounds.minFrame, i.bounds.maxFrame, i.total>>
InfoFrom(n, md5) ==
    [bounds |-> [minBlock |-> n[1], maxBlock |-> n[2], minFrame |-> n[3], maxFrame |-> n[4]],
     total  |-> n[5],
     md5    |-> md5]

InfoCutOff ==
    LET was == InfoNumbers(info)
        new == InfoNumbers(MeasuredInfo)
    IN  \/ \E k \in 1..5 : \E n \in was[k]..new[k] :
              info' = InfoFrom([i \in 1..5 |-> IF i < k THEN new[i] ELSE IF i = k THEN n ELSE was[i]],
                               info.md5)
        \/ info' = InfoFrom(new, IF cfg.md5 = "running" THEN CutDigest ELSE info.md5)

\* The points are cut off between two of them or, in the last, between its fields.
TableCutOff ==
    \E k \in DOMAIN points :
        \E q \in {points[k], [points[k] EXCEPT !.samples = 0],
                  [points[k] EXCEPT !.samples = 0, !.offset = 0]} :
            table' = Append(SubSeq(points, 1, k - 1), q)

\* The number new written over was, but for its last k bytes.
HighBytes(new, was, k) == (new - (new % 256 ^ k)) + (was % 256 ^ k)

\* In a block header the length is cut off; the padding's is written over the ones of an
\* unused point.
ShrinkCutOff ==
    \E k \in 1..2 :
        headers' = [headers EXCEPT ![TableHeader(cfg)].len = HighBytes(Len(points) * PointLen, @, k)]
PaddingCutOff ==
    LET at == SeekBodyOff(cfg) + Len(points) * PointLen
        len == (MaxPoints(cfg) - Len(points)) * PointLen
    IN  \E k \in 1..3 :
            LET pad == Block("pad", HighBytes(len, 256 ^ 3 - 1, k), TRUE)
            IN  headers' = [o \in DOMAIN headers \cup {at} |-> IF o = at THEN pad ELSE headers[o]]

PatchCutOff ==
    \/ pc = "info"   /\ InfoCutOff    /\ UNCHANGED <<headers, table>>
    \/ pc = "table"  /\ TableCutOff   /\ UNCHANGED <<info, headers>>
    \/ pc = "shrink" /\ ShrinkCutOff  /\ UNCHANGED <<info, table>>
    \/ pc = "pad"    /\ PaddingCutOff /\ UNCHANGED <<info, table>>

\* The seek or the write of a patch fails, the write perhaps after all or a part of it
\* took effect.
ClosePatchFails ==
    /\ pc \in {"info", "table", "shrink", "pad", "end"}
    /\ Patched \/ PatchCutOff \/ UNCHANGED <<info, headers, table>>
    /\ CloseReturns("failed")
    /\ UNCHANGED <<cfg, closed, leftover, stream, audio, frames, end, junk, accepted>>

\* Seeking to the end is the last step.
CloseEnds ==
    /\ pc = "end"
    /\ CloseReturns("done")
    /\ UNCHANGED <<cfg, closed, leftover, stream, sink, accepted>>

-----------------------------------------------------------------------------
\* NewEncoder has succeeded for some configuration.
Init ==
    /\ cfg \in {c \in Configs : c.valid /\ ~Unwritable(c)}
    /\ closed = FALSE
    /\ leftover = <<>>
    /\ frameNum = 0 /\ total = 0 /\ audioBytes = 0
    /\ hashed = <<>>
    /\ bounds = NoBounds
    /\ points = <<>>
    /\ nextBoundary = cfg.interval
    /\ pc = "idle" /\ p = <<>> /\ written = 0
    /\ info = InitialInfo(cfg)
    /\ headers = InitialHeaders(cfg)
    /\ table = <<>> /\ audio = <<>> /\ frames = <<>> /\ end = 0 /\ junk = 0
    /\ accepted = 0
    /\ verdict = "open"

Write == \/ \E n \in WriteLengths : WriteShort(n) \/ WriteStarts(n)
         \/ WriteJoin \/ WriteBlock \/ WriteFails \/ WriteStash

Closing == Close \/ CloseFinal \/ CloseFinalFails \/ CloseVerify
           \/ ClosePatches \/ ClosePatchFails \/ CloseEnds

Next == \/ \E c \in Configs : Reset(c) \/ ResetRejected(c) \/ ResetFails(c)
        \/ Write
        \/ Closing

Spec == Init /\ [][Next]_vars

-----------------------------------------------------------------------------
(* Properties.                                                              *)

\* At every step of every call, with any write failing and being retried from
\* where Write said it stopped, the frames in the sink and then the leftover are
\* the bytes consumed so far: none lost, repeated or out of order (Write, emitBlock).
NothingLostOrRepeated == Usable => audio \o leftover = Bytes(0, accepted + written)

\* The frames are those of a fixed-blocksize stream whatever failed between them:
\* numbered from 0, full but for the last, which only Close writes; what is left over
\* never fills a block (emitBlock, the comment on leftover).
FixedBlocks ==
    Usable =>
        /\ Len(leftover) < BlockBytes
        /\ \A i \in DOMAIN frames :
               /\ frames[i].num = i - 1
               /\ frames[i].first = (i - 1) * BlockSize
               /\ frames[i].samples \in 1..BlockSize
               /\ frames[i].samples = BlockSize \/ (closed /\ i = Len(frames))

\* The frames that start a stream or are the first to start in a new interval.
Reaching(interval) ==
    {i \in DOMAIN frames : i = 1 \/ frames[i].first \div interval
                                    > frames[i - 1].first \div interval}

\* A seek point leads to the frame of its first sample: its offset is where that
\* frame starts in the sink, unless a failed write left bytes there.  While the table
\* has room, the points are those of the first frame and of the first frame to start
\* in each interval reached (emitBlock, nextBoundary).
PointsLeadToFrames ==
    Usable /\ cfg.interval > 0 =>
        LET due == Reaching(cfg.interval) IN
        /\ \A i, j \in DOMAIN points : i < j => points[i].sample < points[j].sample
        /\ \A i \in DOMAIN points : \E k \in due :
               /\ points[i].sample = frames[k].first
               /\ points[i].samples = frames[k].samples
               /\ junk = 0 => points[i].offset = frames[k].at
        /\ Len(points) < MaxPoints(cfg) =>
               \A k \in due : \E i \in DOMAIN points : points[i].sample = frames[k].first

\* When Close has returned nil the header is true of the frames.  STREAMINFO's
\* block size is legal and gives every frame's first sample from its number, as
\* upfrontBlockSize's comment requires; the total, the digest and the frame sizes
\* are those of the audio, or the "unknown" the kind of sink allows.
HeaderTellsTruth ==
    verdict = "done" =>
        /\ LET b == info.bounds IN
           /\ b.minBlock = b.maxBlock /\ b.maxBlock >= MinStreamBlock
           /\ \A i \in DOMAIN frames :
                  /\ frames[i].first = frames[i].num * b.maxBlock
                  /\ frames[i].samples <= b.maxBlock
                  /\ cfg.seekable => frames[i].size \in b.minFrame..b.maxFrame
        /\ info.total * FrameLen = Len(audio)
              \/ (~cfg.seekable /\ cfg.declared = 0 /\ info.total = 0)
        /\ cfg.md5 = "running" => info.md5 = IF cfg.seekable THEN audio ELSE NoDigest
        /\ cfg.md5 = "skipped" => info.md5 = NoDigest
        /\ cfg.md5 = "supplied" => info.md5 = Supplied

After(o) == o + HeaderLen + headers[o].len

\* Until Close starts to resize the table, and again once it has returned nil,
\* following the block lengths from "fLaC" ends exactly at the first frame, and
\* the SEEKTABLE block holds the points written, no more (Close, shrinking the table).
ChainReachesAudio ==
    Usable /\ pc # "pad" /\ verdict # "failed" =>
        /\ \E chain \in SUBSET DOMAIN headers :
               /\ InfoBody - HeaderLen \in chain
               /\ \A o \in chain : IF headers[o].last THEN After(o) = AudioStart(cfg)
                                   ELSE After(o) \in chain
        /\ verdict = "done" /\ cfg.interval > 0 =>
               /\ table = points
               /\ headers[TableHeader(cfg)].len = Len(table) * PointLen

\* What the caller can tell of the stream.
Status == IF verdict = "open" THEN "open" ELSE IF verdict = "done" THEN "closed" ELSE "failed"

\* The encoder keeps the promise of PcmStream.
Promise == INSTANCE PcmStream WITH
    taken  <- accepted + written,
    stored <- audio,
    status <- Status

\* Every step of the encoder is a step of PcmStream or none: bytes reach the sink
\* in order, and nil from Close means all of them did (Write, Close, Reset).
KeepsPromise == Promise!Spec
=============================================================================
