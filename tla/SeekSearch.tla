----------------------------- MODULE SeekSearch -----------------------------
(***************************************************************************)
(* Decoder.SeekToSample past its argument checks (pcm/decoder.go): the      *)
(* SEEKTABLE narrowing, the binary search by probes, the linear scan that   *)
(* follows it and the landing decode, over a source whose bytes may be      *)
(* damaged, may end early and may fail any read.                            *)
(*                                                                          *)
(* A stream is the list of its sync candidates in byte order: the offsets   *)
(* where the frame sync pattern occurs.  Candidate i occupies the bytes     *)
(* start[i] .. end[i]-1 that Decode consumes before it accepts or rejects   *)
(* it.  ok[i] says that Decode accepts it (CRC-8, CRC-16 and sample range   *)
(* all hold); a candidate that is not ok is a damaged frame or a false sync *)
(* inside one.  Only the control of the search reads the bytes, so nothing  *)
(* else about them is kept.                                                 *)
(*                                                                          *)
(* Every window a probe reads is one step, so an I/O error can fall between *)
(* any two reads, and SeekToSample may be called again after any outcome.   *)
(***************************************************************************)
EXTENDS Integers, FiniteSetsExt

CONSTANTS
    Streams,       \* the streams the decoder may be bound to
    Targets,       \* sample indices the caller seeks to
    Chunk,         \* probeChunkDefault
    MaxWindow,     \* maxProbeWindow
    LinearWindow   \* linearWindow of searchFrame

(***************************************************************************)
(* What every stream of Streams satisfies.  number is the coded frame or    *)
(* sample number and block the block size, both as Decode reads them from   *)
(* the header; trueBlock is the block size that maps the frame numbers of a *)
(* fixed-blocksize stream to samples, and maxBlock what STREAMINFO records  *)
(* of it (0 when it records nothing).  physEnd is where the source really   *)
(* ends, streamEnd where it ended when NewDecoder measured it.              *)
(***************************************************************************)
Cands(s) == 1 .. s.n

\* First sample of candidate i when the nominal block size is nom.
FirstSample(s, nom, i) ==
    IF s.variable THEN s.number[i] ELSE s.number[i] * nom

TrueFirst(s, i) == FirstSample(s, s.trueBlock, i)
TrueEnd(s, i)   == TrueFirst(s, i) + s.block[i]

\* The frames a seek can land on: accepted by Decode, and whole.
Survivors(s) == {i \in Cands(s) : s.ok[i] /\ s.end[i] <= s.physEnd}

StreamOK(s) ==
    /\ s.n \in Nat
    /\ s.start \in [Cands(s) -> Nat] /\ s.end \in [Cands(s) -> Nat]
    /\ s.number \in [Cands(s) -> Nat] /\ s.block \in [Cands(s) -> Nat \ {0}]
    /\ s.ok \in [Cands(s) -> BOOLEAN] /\ s.variable \in BOOLEAN
    /\ s.trueBlock \in Nat \ {0} /\ s.maxBlock \in Nat /\ s.maxFrame \in Nat
    /\ s.audioStart \in Nat /\ s.streamEnd \in Nat /\ s.physEnd \in Nat
    /\ s.audioStart <= s.streamEnd /\ s.physEnd <= s.streamEnd
    /\ s.total \in Nat
    /\ \A p \in s.points : p.sample \in Int /\ p.off \in Int
    /\ \A i \in Cands(s) : s.audioStart <= s.start[i] /\ s.start[i] + 2 <= s.end[i]
    /\ \A i, j \in Cands(s) : i < j => s.start[i] < s.start[j]
    /\ \A i, j \in Cands(s) : s.ok[i] /\ s.ok[j] /\ i < j =>
           s.end[i] <= s.start[j] /\ TrueEnd(s, i) <= TrueFirst(s, j)

\* A seek point of the table is honest when no frame before the byte offset it
\* names holds a sample at or after the sample number it names.
HonestPoints(s) ==
    \A p \in s.points : \A i \in Survivors(s) :
        s.start[i] < s.audioStart + p.off => TrueEnd(s, i) <= p.sample

ASSUME StreamsAssumption == \A s \in Streams : StreamOK(s)
ASSUME TargetsAssumption == Targets \subseteq Nat
ASSUME WindowAssumption  == /\ Chunk \in Nat /\ MaxWindow \in Nat
                            /\ 2 <= Chunk /\ Chunk <= MaxWindow
                            /\ LinearWindow \in Nat \ {0}

VARIABLES
    stream,        \* the bound stream: d.rs, d.info, d.seekPoints, ...
    nominalBlock,  \* d.nominalBlock, kept from one seek to the next
    target,        \* sampleIndex
    pc,            \* where the call is
    lo, hi,        \* searchFrame's bounds
    base,          \* probe's b
    window,        \* probe's window
    frame,         \* the candidate searchFrame landed on
    endSample      \* searchFrame's endSample, then the position seekToEnd reports

vars == <<stream, nominalBlock, target, pc, lo, hi, base, window, frame, endSample>>

Probing == {"nominal", "binary", "linear"}
Resting == {"idle", "landed", "end", "failed"}

Init ==
    /\ stream \in Streams
    /\ nominalBlock = stream.maxBlock
    /\ target = 0 /\ pc = "idle"
    /\ lo = 0 /\ hi = 0 /\ base = 0 /\ window = 0
    /\ frame = 0 /\ endSample = 0

-----------------------------------------------------------------------------
(* narrowBySeekTable: points outside the audio bytes are passed over, a     *)
(* point at or before the target raises lo, one after it lowers hi.         *)

\* Mutant of Usable: the check of the byte offset is dropped.
Usable_Unchecked(s) == s.points

Usable(s) == {p \in s.points : 0 <= p.off /\ p.off <= s.streamEnd - s.audioStart}

NarrowLo(s, t) ==
    LET offs == {s.audioStart + p.off : p \in {q \in Usable(s) : q.sample <= t}}
    IN  Max({s.audioStart} \cup offs)

NarrowHi(s, t) ==
    LET offs == {s.audioStart + p.off : p \in {q \in Usable(s) : q.sample > t}}
    IN  Min({s.streamEnd} \cup offs)

-----------------------------------------------------------------------------
(* probe: one window of it.                                                 *)

Least(a, b) == IF a <= b THEN a ELSE b
Most(a, b)  == IF a >= b THEN a ELSE b

FirstWindow(s) == Least(Most(2 * s.maxFrame, Chunk), MaxWindow)

Want == Least(stream.streamEnd - base, window)          \* n
Got  == Least(Want, Most(stream.physEnd - base, 0))     \* rn

\* Mutant of AtEnd: a full window counts as a short read.
AtEnd_FullRead == base + Got >= stream.streamEnd \/ Got <= Want

AtEnd == base + Got >= stream.streamEnd \/ Got < Want

\* The candidates FindNextFrame does not skip: accepted, or cut by the buffer's end.
Unskipped ==
    {i \in Cands(stream) : /\ base <= stream.start[i]
                           /\ stream.start[i] + 1 < base + Got
                           /\ stream.ok[i] \/ stream.end[i] > base + Got}

FoundIn == Min(Unskipped)

\* The result of the window: "found", "truncated", "notfound", "grow" or "advance".
Outcome ==
    IF base >= stream.streamEnd THEN "notfound"
    ELSE IF Unskipped = {} THEN (IF AtEnd THEN "notfound" ELSE "advance")
    ELSE IF stream.end[FoundIn] <= base + Got THEN "found"
    ELSE IF AtEnd THEN "truncated"
    ELSE IF window >= MaxWindow THEN "notfound" ELSE "grow"

\* probe goes round its loop: a larger window, or the next one.
ProbeOn ==
    /\ pc \in Probing
    /\ \/ /\ Outcome = "grow"
          /\ window' = Least(2 * window, MaxWindow)
          /\ UNCHANGED base
       \/ /\ Outcome = "advance"
          /\ base' = base + Got - 1
          /\ UNCHANGED window
    /\ UNCHANGED <<stream, nominalBlock, target, pc, lo, hi, frame, endSample>>

\* A read or seek of the source fails: seekFailed.
SourceFails ==
    /\ pc \in Probing \cup {"land"}
    /\ pc' = "failed"
    /\ UNCHANGED <<stream, nominalBlock, target, lo, hi, base, window, frame, endSample>>

-----------------------------------------------------------------------------
(* searchFrame, entered with bounds l and h: a probe of the middle while    *)
(* they are far apart, a scan from the lower one when they are not.         *)

Enter(l, h) ==
    /\ lo' = l /\ hi' = h
    /\ window' = FirstWindow(stream)
    /\ IF h - l > LinearWindow
       THEN pc' = "binary" /\ base' = l + (h - l) \div 2
       ELSE pc' = "linear" /\ base' = l

Mid == lo + (hi - lo) \div 2

Stop(where) ==
    /\ pc' = where
    /\ UNCHANGED <<lo, hi, base, window>>

\* The call as far as the first probe: a target at or past a known total goes
\* straight to the end; an unknown nominal block size is discovered first.
SeekToSample(t) ==
    /\ pc \in Resting
    /\ target' = t
    /\ frame' = 0
    /\ UNCHANGED <<stream, nominalBlock>>
    /\ IF stream.total > 0 /\ t >= stream.total
       THEN endSample' = stream.total /\ Stop("end")
       ELSE /\ endSample' = 0
            /\ IF nominalBlock <= 0
               THEN /\ pc' = "nominal"
                    /\ base' = stream.audioStart /\ window' = FirstWindow(stream)
                    /\ UNCHANGED <<lo, hi>>
               ELSE Enter(NarrowLo(stream, t), NarrowHi(stream, t))

\* ensureNominalBlock, then the narrowing.
NominalProbed ==
    /\ pc = "nominal"
    /\ Outcome \in {"found", "truncated", "notfound"}
    /\ nominalBlock' = IF Outcome = "found" /\ ~stream.variable
                       THEN stream.block[FoundIn] ELSE nominalBlock
    /\ Enter(NarrowLo(stream, target), NarrowHi(stream, target))
    /\ UNCHANGED <<stream, target, frame, endSample>>

FoundFirst == FirstSample(stream, nominalBlock, FoundIn)

\* Mutant of FoundEnd: the last sample of the frame is left out of it.
FoundEnd_Exclusive == FoundFirst + stream.block[FoundIn] - 1

FoundEnd == FoundFirst + stream.block[FoundIn]

\* Mutant of NewHi: hi takes the frame's start even when that is at or past hi.
NewHi_Unguarded == stream.start[FoundIn]

\* The frame found starts after the target: hi drops to it, or to mid when it
\* starts at or past hi and [mid, hi) therefore holds no frame.
NewHi == IF stream.start[FoundIn] >= hi THEN Mid ELSE stream.start[FoundIn]

NewLo == stream.end[FoundIn]

BinaryProbed ==
    /\ pc = "binary"
    /\ \/ /\ Outcome \in {"truncated", "notfound"}
          /\ Enter(lo, Mid)
          /\ UNCHANGED frame
       \/ /\ Outcome = "found" /\ FoundFirst > target
          /\ Enter(lo, NewHi)
          /\ UNCHANGED frame
       \/ /\ Outcome = "found" /\ target >= FoundEnd
          /\ Enter(NewLo, hi)
          /\ UNCHANGED frame
       \/ /\ Outcome = "found" /\ FoundFirst <= target /\ target < FoundEnd
          /\ frame' = FoundIn
          /\ Stop("land")
    /\ UNCHANGED <<stream, nominalBlock, target, endSample>>

LinearProbed ==
    /\ pc = "linear"
    /\ \/ /\ Outcome = "truncated"              \* errSeekFrameCut
          /\ Stop("failed")
          /\ UNCHANGED <<frame, endSample>>
       \/ /\ Outcome = "notfound"               \* landStart < 0: seekToEnd(endSample)
          /\ Stop("end")
          /\ UNCHANGED <<frame, endSample>>
       \/ /\ Outcome = "found" /\ target < FoundEnd   \* holds the target, or overshot it
          /\ frame' = FoundIn /\ endSample' = FoundEnd
          /\ Stop("land")
       \/ /\ Outcome = "found" /\ target >= FoundEnd
          /\ base' = stream.end[FoundIn] /\ window' = FirstWindow(stream)
          /\ endSample' = FoundEnd
          /\ UNCHANGED <<pc, lo, hi, frame>>
    /\ UNCHANGED <<stream, nominalBlock, target>>

\* land: the frame decodes again, from the source this time, and its leading
\* samples before the target are dropped.
Land ==
    /\ pc = "land"
    /\ Stop("landed")
    /\ UNCHANGED <<stream, nominalBlock, target, frame, endSample>>

Step == ProbeOn \/ NominalProbed \/ BinaryProbed \/ LinearProbed \/ Land

Next == SourceFails \/ Step \/ \E t \in Targets : SeekToSample(t)

Spec == Init /\ [][Next]_vars

\* A call runs to its end: the source answers every read, if only with an error.
FairSpec == Spec /\ WF_vars(Step)

-----------------------------------------------------------------------------
(* Properties.                                                              *)

\* Types of the search's state: every byte offset it holds is one the source can
\* be sought to, and the frame it landed on is one of the stream's.
TypeOK ==
    /\ StreamOK(stream)
    /\ nominalBlock \in Nat /\ target \in Nat /\ endSample \in Nat
    /\ pc \in Probing \cup Resting \cup {"land"}
    /\ lo \in Nat /\ hi \in Nat /\ base \in Nat /\ window \in Nat
    /\ frame \in {0} \cup Cands(stream)

\* The block size that maps frame numbers to samples is known before the search,
\* from STREAMINFO or from a first frame that is whole and not the short last one.
NominalOK(s) ==
    \/ s.variable
    \/ s.maxBlock = s.trueBlock
    \/ /\ s.maxBlock = 0
       /\ 1 \in Survivors(s) /\ s.start[1] = s.audioStart
       /\ s.block[1] = s.trueBlock
       /\ s.end[1] - s.audioStart <= MaxWindow

(***************************************************************************)
(* A seek that succeeds lands on the first frame that can be decoded and    *)
(* holds a sample at or after the target: the frame holding the target when *)
(* it is intact, the next intact one otherwise (searchFrame's overshoot).   *)
(* Neither a false sync nor a damaged or truncated stretch that makes a     *)
(* probe miss frames may push lo past that frame.                           *)
(***************************************************************************)
LandsOnFirstSurvivor ==
    (pc \in {"land", "landed"} /\ NominalOK(stream) /\ HonestPoints(stream)) =>
        /\ frame \in Survivors(stream)
        /\ target < TrueEnd(stream, frame)
        /\ \A j \in Survivors(stream) : j < frame => TrueEnd(stream, j) <= target

(***************************************************************************)
(* Whatever the SEEKTABLE says, the search never leaves the bytes between   *)
(* the first frame and the measured end (narrowBySeekTable's comment), and  *)
(* no probe starts outside them.                                            *)
(***************************************************************************)
SearchBoundsInStream ==
    /\ pc \in {"binary", "linear", "land"} =>
           {lo, hi} \subseteq stream.audioStart .. stream.streamEnd
    /\ pc \in Probing => base \in stream.audioStart .. stream.streamEnd

\* Every byte of audio belongs to an intact frame that one window can hold, so a
\* scan that starts at a frame boundary meets nothing else.
Intact(s) ==
    /\ s.physEnd = s.streamEnd
    /\ \A i \in Survivors(s) : s.end[i] - s.start[i] <= MaxWindow
    /\ \A b \in {s.audioStart} \cup {s.end[i] : i \in Survivors(s)} :
           b = s.streamEnd \/ \E i \in Survivors(s) : s.start[i] = b

\* The seek points that narrowBySeekTable uses name the first bytes of frames.
PointsAtFrames(s) ==
    \A p \in Usable(s) : \E i \in Survivors(s) : s.start[i] = s.audioStart + p.off

\* No frame reaches past the length STREAMINFO records: a seek trusts it without
\* looking at the frames.
HonestTotal(s) == s.total > 0 => \A i \in Survivors(s) : TrueEnd(s, i) <= s.total

(***************************************************************************)
(* "End of stream" is never said of a stream that still holds the audio     *)
(* asked for: with every frame intact, or with a stream that one probe      *)
(* window covers whatever its damage, a call that ends at the end of the    *)
(* stream (a target past the known length, or landStart < 0) means that no  *)
(* decodable frame holds a sample at or after the target.                   *)
(***************************************************************************)
EndMeansNoAudio ==
    ( /\ pc = "end"
      /\ NominalOK(stream) /\ HonestPoints(stream) /\ HonestTotal(stream)
      /\ \/ Intact(stream) /\ PointsAtFrames(stream)
         \/ stream.streamEnd - stream.audioStart <= MaxWindow ) =>
        \A i \in Survivors(stream) : TrueEnd(stream, i) <= target

(***************************************************************************)
(* Every seek ends: the bounds of the binary search close in on each other, *)
(* also when the frame after mid starts at or past hi, and neither the scan *)
(* nor a probe goes round for ever.                                         *)
(***************************************************************************)
SeekEnds == (pc \notin Resting) ~> (pc \in Resting)

\* The number of samples the stream really holds: the end of its last frame.
StreamSamples(s) ==
    IF Survivors(s) = {} THEN 0 ELSE TrueEnd(s, Max(Survivors(s)))

(***************************************************************************)
(* SeekToSample's documentation: a seek past the last frame of a stream of  *)
(* unknown length returns the stream's total sample count.  Stated for      *)
(* streams without damage and without a SEEKTABLE.                          *)
(***************************************************************************)
PastEndReportsTotal ==
    (pc = "end" /\ stream.total = 0 /\ Intact(stream) /\ stream.points = {}) =>
        endSample = StreamSamples(stream)

=============================================================================
