------------------------------ MODULE Decoder -------------------------------
(***************************************************************************)
(* The streaming decoder of pcm/decoder.go: NewDecoder and Reset (init,     *)
(* applyOptions), Read, WriteTo and SeekToSample over sources whose header  *)
(* may be bad, whose frames may be damaged, missing or cut short, and whose *)
(* reads and seeks may fail.                                                *)
(*                                                                          *)
(* A source is a header and the frames that physically follow it.  Audio is *)
(* the list of its sample indices, each paired with the width it is packed  *)
(* at, so a sample delivered at the wrong place or at the wrong width shows.*)
(* An MD5 is the audio it is a digest of.  Which frame a seek lands on is   *)
(* what SeekSearch establishes of searchFrame.                              *)
(***************************************************************************)
EXTENDS Integers, Sequences, Functions

CONSTANTS
    Sources,     \* the sources the decoder may be bound to
    Targets,     \* sample indices the caller seeks to
    ReadSizes,   \* lengths of the caller's buffers, in samples
    MaxCalls     \* bound on the calls of Reset and SeekToSample

Native    == "native"
Converted == "converted"
NoErr     == "none"
NoBr      == 0               \* d.br = nil
NoInfo    == [total |-> 0, md5 |-> <<>>]
NoSource  == [header |-> FALSE, info |-> NoInfo, frames |-> <<>>]

(***************************************************************************)
(* header says that ReadMetadata accepts it; info holds what STREAMINFO     *)
(* records (total 0 and md5 <<>> when unknown); a frame has a first sample, *)
(* a block size and a state: "ok", "bad" (a CRC or a range check fails) or  *)
(* "cut" (the source ends inside it).                                       *)
(***************************************************************************)
SourceOK(s) ==
    /\ s.header \in BOOLEAN
    /\ Len(s.frames) \in Nat /\ DOMAIN s.frames = 1..Len(s.frames)
    /\ \A i \in DOMAIN s.frames :
           /\ s.frames[i].state \in {"ok", "bad", "cut"}
           /\ s.frames[i].first \in Nat /\ s.frames[i].block \in Nat \ {0}
           /\ s.frames[i].state = "cut" => i = Len(s.frames)

ASSUME SourcesAssumption == \A s \in Sources : SourceOK(s)
\* The sample after the last frame of s.
EndOf(s) == IF Len(s.frames) = 0 THEN 0
            ELSE s.frames[Len(s.frames)].first + s.frames[Len(s.frames)].block

(***************************************************************************)
(* Frames follow one another from sample 0, and a total that STREAMINFO     *)
(* knows is no smaller than where the last one starts.  The decoder takes   *)
(* both from the encoder: it checks neither, and only what is said about    *)
(* positions and about whole streams depends on them.                       *)
(***************************************************************************)
InSequence(s) ==
    /\ s.info.total \in Nat
    /\ Len(s.frames) > 0 => s.frames[1].first = 0
    /\ \A i \in 1 .. Len(s.frames) - 1 :
           s.frames[i + 1].first = s.frames[i].first + s.frames[i].block
    /\ s.info.total # 0 => \A i \in DOMAIN s.frames : s.frames[i].first <= s.info.total

ASSUME FramesFollowAssumption == \A s \in Sources : InSequence(s)
ASSUME CallAssumption == Targets \subseteq Int /\ ReadSizes \subseteq Nat /\ MaxCalls \in Nat

VARIABLES
    src,         \* what d.br and d.rs read from
    info,        \* d.info, NoInfo when cleared
    seekable,    \* d.seekable
    br,          \* d.br: the next frame it decodes, NoBr when nil
    pending,     \* d.pending
    hashed,      \* what d.md5 was fed
    decoded,     \* d.decoded
    seeked, skipMD5, done,
    err,         \* d.err
    width,       \* d.outBits
    writing,     \* WriteTo is in its loop
    \* History of the caller.
    calls,       \* calls of Reset and SeekToSample so far
    call,        \* the last call, and
    result,      \* what it returned
    failed,      \* the last Reset returned an error
    moved,       \* a seek went past its argument checks since the last Reset
    origin,      \* the position last reported to the caller
    delivered    \* the audio delivered since

stream  == <<src, info, seekable, skipMD5, width>>
history == <<calls, call, result, failed, moved, origin, delivered>>
vars == <<stream, br, pending, hashed, decoded, seeked, done, err, writing, history>>

Init ==
    /\ src = NoSource /\ info = NoInfo /\ seekable = FALSE
    /\ br = NoBr /\ pending = <<>> /\ hashed = <<>> /\ decoded = 0
    /\ seeked = FALSE /\ skipMD5 = FALSE /\ done = FALSE /\ err = NoErr
    /\ width = Native /\ writing = FALSE
    /\ calls = 0 /\ call = "new" /\ result = NoErr /\ failed = TRUE
    /\ moved = FALSE /\ origin = 0 /\ delivered = <<>>

\* The audio of n samples from first on, packed at width w.
Audio(first, n, w) == [i \in 1 .. n |-> <<first + i - 1, w>>]

Pack(f, w) == Audio(f.first, f.block, w)

-----------------------------------------------------------------------------
(* NewDecoder and Reset.                                                    *)

\* Mutant of ClearStream: the seeked flag of the previous stream survives.
ClearStream_KeepSeeked ==
    /\ pending' = <<>> /\ decoded' = 0 /\ done' = FALSE
    /\ UNCHANGED seeked

ClearStream == pending' = <<>> /\ decoded' = 0 /\ seeked' = FALSE /\ done' = FALSE

\* A stream that could not be opened: every field of it is cleared.
Poison(e) ==
    /\ ClearStream
    /\ info' = NoInfo /\ seekable' = FALSE /\ skipMD5' = FALSE /\ width' = Native
    /\ err' = e /\ result' = e /\ failed' = TRUE

\* Mutant of RejectOptions: the error is set, the stream left as init built it.
RejectOptions_KeepStream(s, sk) ==
    /\ ClearStream
    /\ info' = s.info /\ seekable' = sk /\ skipMD5' = FALSE /\ width' = Native
    /\ err' = "unsupported" /\ result' = "unsupported" /\ failed' = TRUE

\* applyOptions with a WithConvertTo target it rejects, after init succeeded.
RejectOptions(s, sk) == Poison("unsupported")

Open(s, sk, skip, w) ==
    /\ ClearStream
    /\ info' = s.info /\ seekable' = sk /\ skipMD5' = skip /\ width' = w
    /\ err' = NoErr /\ result' = NoErr /\ failed' = FALSE

\* A source that implements io.Seeker may still not be measurable, and then is
\* decoded forward only (sk FALSE); the seek that restores its position may fail.
Reset(s) ==
    /\ calls < MaxCalls /\ ~writing
    /\ calls' = calls + 1 /\ call' = "reset"
    /\ src' = s /\ br' = 1 /\ hashed' = <<>>
    /\ moved' = FALSE /\ origin' = 0 /\ delivered' = <<>>
    /\ UNCHANGED writing
    /\ \/ Poison(IF s.header THEN "io" ELSE "header")
       \/ \E sk, skip \in BOOLEAN, w \in {Native, Converted, "invalid"} :
             /\ s.header
             /\ IF w = "invalid" THEN RejectOptions(s, sk) ELSE Open(s, sk, skip, w)

-----------------------------------------------------------------------------
(* decodeNextFrame and finish.                                              *)

\* What finish says of a stream decoded to its end.
Verdict ==
    IF seeked THEN NoErr
    ELSE IF ~skipMD5 /\ info.md5 # <<>>
         THEN IF hashed # info.md5 THEN "md5" ELSE NoErr
         ELSE IF info.total # 0 /\ decoded < info.total THEN "truncated" ELSE NoErr

\* Mutant of Hashed: the frame is hashed after it was rescaled.
Hashed_Rescaled(f) == IF ~seeked /\ ~skipMD5 THEN hashed \o Pack(f, width) ELSE hashed

\* packFrame: the MD5 is fed the native audio, before any conversion.
Hashed(f) == IF ~seeked /\ ~skipMD5 THEN hashed \o Pack(f, Native) ELSE hashed

Fail(e) ==
    /\ err' = e /\ result' = e
    /\ UNCHANGED <<br, hashed, decoded, done, pending, delivered>>

\* Mutant of EndOfStream: finish does not mark the decoder done.
EndOfStream_NotDone ==
    /\ ~done /\ br > Len(src.frames)
    /\ err' = Verdict /\ result' = IF Verdict = NoErr THEN "eof" ELSE Verdict
    /\ UNCHANGED <<br, hashed, decoded, done, pending, delivered>>

\* The source has no more bytes: finish.
EndOfStream ==
    /\ ~done /\ br > Len(src.frames)
    /\ done' = TRUE /\ err' = Verdict
    /\ result' = IF Verdict = NoErr THEN "eof" ELSE Verdict
    /\ UNCHANGED <<br, hashed, decoded, pending, delivered>>

\* decodeNextFrame when it returns an error or io.EOF.
NoFrame ==
    \/ /\ done /\ result' = "eof"
       /\ UNCHANGED <<br, hashed, decoded, done, err, pending, delivered>>
    \/ EndOfStream
    \/ ~done /\ Fail("io")
    \/ /\ ~done /\ br <= Len(src.frames)
       /\ \/ src.frames[br].state = "bad" /\ Fail("crc")
          \/ src.frames[br].state = "cut" /\ Fail("truncated")

\* decodeNextFrame when it decodes frame f and leaves p of it pending.
Frame(f, p) ==
    /\ ~done /\ br <= Len(src.frames)
    /\ f = src.frames[br] /\ f.state = "ok"
    /\ br' = br + 1 /\ decoded' = decoded + f.block /\ hashed' = Hashed(f)
    /\ pending' = p /\ result' = NoErr
    /\ UNCHANGED <<done, err>>

\* The caller has a decoder that some Reset was called on.
Usable == src # NoSource /\ ~writing

Drop(s, n) == SubSeq(s, n + 1, Len(s))
Take(s, n) == SubSeq(s, 1, n)

Deliver(pcm, n) == delivered' = delivered \o Take(pcm, n)

Least(a, b) == IF a <= b THEN a ELSE b

ReadGate == err = NoErr

\* Read into a buffer of n samples, n > 0.
Read(n) ==
    /\ Usable /\ n > 0 /\ call' = "read"
    /\ \/ /\ ~ReadGate /\ result' = err
          /\ UNCHANGED <<br, pending, hashed, decoded, done, err, delivered>>
       \/ /\ ReadGate /\ pending # <<>>
          /\ pending' = Drop(pending, Least(n, Len(pending)))
          /\ Deliver(pending, Least(n, Len(pending)))
          /\ result' = NoErr
          /\ UNCHANGED <<br, hashed, decoded, done, err>>
       \/ /\ ReadGate /\ pending = <<>>
          /\ \/ NoFrame
             \/ \E f \in Range(src.frames) :
                   /\ Frame(f, Drop(Pack(f, width), Least(n, f.block)))
                   /\ Deliver(Pack(f, width), Least(n, f.block))
    /\ UNCHANGED <<stream, seeked, writing, calls, failed, moved, origin>>

-----------------------------------------------------------------------------
(* WriteTo.                                                                 *)

\* It is called: the error check.
WriteTo ==
    /\ Usable /\ call' = "writeto"
    /\ \/ ReadGate /\ writing' = TRUE /\ UNCHANGED result
       \/ ~ReadGate /\ result' = err /\ UNCHANGED writing
    /\ UNCHANGED <<stream, br, pending, hashed, decoded, seeked, done, err,
                   calls, failed, moved, origin, delivered>>

\* Mutant of Unwritten: a failed write drops the whole packed frame.
Unwritten_DropAll(n) == <<>>

\* What stays pending after the writer took n samples.
Unwritten(n) == Drop(pending, n)

\* The writer takes all of the pending audio, or fails part-way.
WriteToWrite ==
    /\ writing /\ pending # <<>>
    /\ \E n \in 0 .. Len(pending) :
          /\ pending' = Unwritten(n) /\ Deliver(pending, n)
          /\ \/ n = Len(pending) /\ UNCHANGED <<writing, result>>
             \/ n < Len(pending) /\ writing' = FALSE /\ result' = "write"
    /\ UNCHANGED <<stream, br, hashed, decoded, seeked, done, err, calls, call, failed, moved, origin>>

\* The loop decodes the next frame, or returns.
WriteToDecode ==
    /\ writing /\ pending = <<>>
    /\ \/ NoFrame /\ writing' = FALSE
       \/ /\ \E f \in Range(src.frames) : Frame(f, Pack(f, width))
          /\ UNCHANGED <<writing, delivered>>
    /\ UNCHANGED <<stream, seeked, calls, call, failed, moved, origin>>

-----------------------------------------------------------------------------
(* SeekToSample.                                                            *)

\* The frames a seek to t can land on, and whether the source cuts one off.
Holding(t) == {i \in DOMAIN src.frames : /\ src.frames[i].state = "ok"
                                         /\ t < src.frames[i].first + src.frames[i].block}
\* searchFrame's endSample: the end of the last frame, 0 when the scan met none.
EndSamples == {0} \cup {f.first + f.block : f \in {g \in Range(src.frames) : g.state = "ok"}}

CutOff == \E f \in Range(src.frames) : f.state = "cut"

SeekFailed(e) ==
    /\ err' = e /\ pending' = <<>> /\ br' = NoBr /\ result' = e
    /\ UNCHANGED <<origin, delivered>>
    \* land sets these before its decode can fail
    /\ \/ UNCHANGED <<seeked, done>>
       \/ seeked' = TRUE /\ done' = FALSE

\* Mutant of SeekToEnd: the decoder is not marked as being at its end.
SeekToEnd_NotDone(at) ==
    /\ seeked' = TRUE /\ pending' = <<>> /\ err' = NoErr /\ result' = NoErr
    /\ origin' = at /\ delivered' = <<>>
    /\ UNCHANGED <<br, done>>

SeekToEnd(at) ==
    /\ seeked' = TRUE /\ done' = TRUE /\ pending' = <<>> /\ err' = NoErr /\ result' = NoErr
    /\ origin' = at /\ delivered' = <<>>
    /\ UNCHANGED br

Most(a, b) == IF a >= b THEN a ELSE b

LandOn(i, t) ==
    LET f == src.frames[i]
    IN  /\ seeked' = TRUE /\ done' = FALSE /\ err' = NoErr /\ result' = NoErr
        /\ br' = i + 1
        /\ pending' = Drop(Pack(f, width), Most(t, f.first) - f.first)
        /\ origin' = IF info.total > 0 THEN Least(Most(t, f.first), info.total)
                                       ELSE Most(t, f.first)
        /\ delivered' = <<>>

\* A target at or past a known total needs no source; every other one may fail on it.
SeekToSample(t) ==
    /\ Usable /\ calls < MaxCalls
    /\ calls' = calls + 1 /\ call' = "seek"
    /\ \/ /\ ~seekable \/ t < 0
          /\ result' = IF ~seekable THEN "noseek" ELSE "invalid"
          /\ UNCHANGED <<err, pending, br, seeked, done, moved, origin, delivered>>
       \/ /\ seekable /\ t >= 0 /\ info.total > 0 /\ t >= info.total
          /\ moved' = TRUE /\ SeekToEnd(info.total)
       \/ /\ seekable /\ t >= 0 /\ ~(info.total > 0 /\ t >= info.total)
          /\ moved' = TRUE
          /\ \/ SeekFailed("io")
             \/ \E i \in Holding(t) : (\A j \in Holding(t) : i <= j) /\ LandOn(i, t)
             \/ Holding(t) = {} /\ CutOff /\ SeekFailed("truncated")
             \/ Holding(t) = {} /\ ~CutOff /\ \E at \in EndSamples : SeekToEnd(at)
    /\ UNCHANGED <<stream, hashed, decoded, writing, failed>>

-----------------------------------------------------------------------------
Next ==
    \/ \E s \in Sources : Reset(s)
    \/ \E n \in ReadSizes : Read(n)
    \/ WriteTo \/ WriteToWrite \/ WriteToDecode
    \/ \E t \in Targets : SeekToSample(t)

Spec == Init /\ [][Next]_vars

\* WriteTo runs to its end, and the caller comes back to Read however often a
\* WriteTo with a failing writer comes in between.
FairSpec ==
    /\ Spec
    /\ WF_vars(WriteToWrite \/ WriteToDecode)
    /\ SF_vars(\E n \in ReadSizes : Read(n))

-----------------------------------------------------------------------------
(* Properties.                                                              *)

(***************************************************************************)
(* What the caller reads is the stream's audio from the position last       *)
(* reported to it, in order, without a gap, a repeat or a change of width,  *)
(* over every sequence of Read, WriteTo with a writer that fails part-way,  *)
(* seeks that fail or succeed, and Resets.  A damaged frame is never        *)
(* skipped silently, audio of an abandoned position never delivered.        *)
(***************************************************************************)
DeliversFromReportedPosition ==
    delivered = Audio(origin, Len(delivered), width)

(***************************************************************************)
(* A stream read from its start to a clean io.EOF was delivered whole when  *)
(* its STREAMINFO allows to tell: it records an MD5 that is verified, or a  *)
(* total while the MD5 is unknown or its check is off.                      *)
(***************************************************************************)
CleanEOFMeansWhole ==
    (result = "eof" /\ ~moved) =>
        /\ info.total # 0 /\ (skipMD5 \/ info.md5 = <<>>) => Len(delivered) >= info.total
        /\ ~skipMD5 /\ info.md5 # <<>> => delivered = Audio(0, Len(info.md5), width)
        /\ pending = <<>>

(***************************************************************************)
(* The end-of-stream checks accuse no intact stream: an MD5 mismatch or a   *)
(* truncation is reported only of a source whose frames differ from what    *)
(* its STREAMINFO records, with or without conversion, on a fresh decoder   *)
(* or on one that was used before.                                          *)
(***************************************************************************)
Held(s) == Audio(0, EndOf(s), Native)

VerdictsAreJust ==
    /\ err = "md5" => Held(src) # info.md5
    /\ err = "truncated" => CutOff \/ Len(Held(src)) < info.total

(***************************************************************************)
(* A failure is final for the position it happened at: only a Reset or a    *)
(* seek that succeeds clears it, and nothing is delivered meanwhile.  One   *)
(* of Reset itself, also one of options rejected after the stream was set   *)
(* up, only another Reset clears: it yields no audio and no seek succeeds   *)
(* (the gates of Read and WriteTo, seekFailed, applyOptions' comment).      *)
(***************************************************************************)
FailureIsSticky ==
    [][ /\ (err # NoErr /\ call' # "reset" /\ ~(call' = "seek" /\ result' = NoErr)) =>
               err' # NoErr /\ delivered' = delivered
        /\ (failed /\ failed') =>
               delivered' = <<>> /\ (call' = "seek" => result' # NoErr) ]_vars

(***************************************************************************)
(* A failed seek drops d.br; no call gets to decode from a reader that is   *)
(* gone, whichever seeks, to the end or elsewhere, follow.                  *)
(***************************************************************************)
NoNilReader == (src # NoSource /\ br = NoBr) => (err # NoErr \/ done)

(***************************************************************************)
(* A caller that keeps reading gets to io.EOF or to an error, after any     *)
(* number of seeks and resets.                                              *)
(***************************************************************************)
DrainEnds == <>[](src = NoSource \/ err # NoErr \/ (done /\ pending = <<>>))

=============================================================================
