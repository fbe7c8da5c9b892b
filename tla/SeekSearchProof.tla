-------------------------- MODULE SeekSearchProof ---------------------------
(***************************************************************************)
(* Proofs about SeekSearch for every set of streams, every target and every *)
(* window size that the assumptions of SeekSearch admit.                    *)
(*                                                                          *)
(* LandsOnFirstSurvivor is not inductive: what keeps it is that no frame    *)
(* behind lo, or behind the base of the linear scan, holds audio at or      *)
(* after the target (Behind), whatever the probes of the binary search      *)
(* missed, and that frame numbers map to the right samples by the time they *)
(* are compared with the target (NominalInv).  EndMeansNoAudio needs more:  *)
(* that the scan does not give up before it has passed every frame, which   *)
(* for an intact stream holds because it never leaves the frame boundaries  *)
(* (AtFrames).                                                              *)
(***************************************************************************)
EXTENDS SeekSearch, WellFoundedInduction, TLAPS

\* No decodable frame that starts before byte x reaches past the target.
Behind(x) ==
    \A j \in Survivors(stream) : stream.start[j] < x => TrueEnd(stream, j) <= target

NominalInv ==
    NominalOK(stream) =>
        \/ stream.variable
        \/ nominalBlock = stream.trueBlock
        \/ /\ stream.maxBlock = 0 /\ nominalBlock = 0
           /\ 1 \in Survivors(stream) /\ stream.start[1] = stream.audioStart
           /\ stream.block[1] = stream.trueBlock
           /\ stream.end[1] - stream.audioStart <= MaxWindow
           /\ pc \notin {"binary", "linear"}
           /\ pc = "nominal" => base = stream.audioStart

ProbeInv ==
    /\ pc \in Probing => window >= 2
    /\ pc = "nominal" => nominalBlock = 0

BehindInv ==
    (NominalOK(stream) /\ HonestPoints(stream)) =>
        /\ pc \in {"binary", "linear"} => Behind(lo)
        /\ pc = "linear" => Behind(base)

IInv ==
    /\ TypeOK
    /\ SearchBoundsInStream
    /\ ProbeInv
    /\ NominalInv
    /\ BehindInv
    /\ LandsOnFirstSurvivor

-----------------------------------------------------------------------------
(* Least and greatest elements.                                             *)

\* A set of naturals that is not empty has a least element.
LEMMA LeastNat ==
    ASSUME NEW S, S \subseteq Nat, S # {}
    PROVE  \E m \in S : \A k \in S : m <= k
<1> DEFINE R == OpToRel(<, Nat)
<1>1. IsWellFoundedOn(R, Nat)
  BY NatLessThanWellFounded
<1>2. ASSUME NEW x \in Nat, NEW y \in Nat, <<y, x>> \notin R
      PROVE  x <= y
  BY <1>2 DEF OpToRel
<1> HIDE DEF R
<1>3. PICK x \in S : \A y \in S : ~ (<<y, x>> \in R)
  BY <1>1, WFMin
<1>4. QED
  BY <1>2, <1>3

\* Min of FiniteSetsExt on sets of naturals.
LEMMA MinNat ==
    ASSUME NEW S, S \subseteq Nat, S # {}
    PROVE  Min(S) \in S /\ \A k \in S : Min(S) <= k
  BY LeastNat DEF Min

\* Max of FiniteSetsExt on bounded sets of naturals.
LEMMA MaxNat ==
    ASSUME NEW S, NEW B \in Nat, S \subseteq 0 .. B, S # {}
    PROVE  Max(S) \in S /\ \A k \in S : Max(S) >= k
<1> DEFINE T == {B - x : x \in S}
<1>0. \A x \in S : B - x \in Nat
  OBVIOUS
<1>1. T \subseteq Nat /\ T # {}
  BY <1>0
<1>2. PICK m \in T : \A k \in T : m <= k
  BY <1>1, LeastNat
<1>3. PICK x \in S : m = B - x
  BY <1>2
<1>4. \A k \in S : x >= k
  BY <1>2, <1>3
<1>5. QED
  BY <1>4 DEF Max

-----------------------------------------------------------------------------
(* What the operators of the search return.                                 *)

\* The bounds searchFrame is entered with lie in the audio bytes.
LEMMA NarrowInStream ==
    ASSUME NEW s, StreamOK(s), NEW t \in Nat
    PROVE  /\ NarrowLo(s, t) \in s.audioStart .. s.streamEnd
           /\ NarrowHi(s, t) \in s.audioStart .. s.streamEnd
           /\ NarrowLo(s, t) = s.audioStart
              \/ \E p \in s.points : p.sample <= t /\ NarrowLo(s, t) = s.audioStart + p.off
<1> DEFINE L == {s.audioStart} \cup {s.audioStart + p.off : p \in {q \in Usable(s) : q.sample <= t}}
           H == {s.streamEnd} \cup {s.audioStart + p.off : p \in {q \in Usable(s) : q.sample > t}}
<1>0. /\ s.audioStart \in Nat /\ s.streamEnd \in Nat /\ s.audioStart <= s.streamEnd
      /\ \A p \in s.points : p.sample \in Int /\ p.off \in Int
  BY DEF StreamOK
<1>1. L \subseteq s.audioStart .. s.streamEnd /\ L # {}
  BY <1>0 DEF Usable
<1>2. H \subseteq s.audioStart .. s.streamEnd /\ H # {}
  BY <1>0 DEF Usable
<1>5. NarrowLo(s, t) = Max(L) /\ NarrowHi(s, t) = Min(H)
  BY DEF NarrowLo, NarrowHi
<1>8. \A x \in L : x = s.audioStart \/ \E p \in s.points : p.sample <= t /\ x = s.audioStart + p.off
  BY DEF Usable
<1> HIDE DEF L, H
<1>3. Max(L) \in L
  <2>1. L \subseteq 0 .. s.streamEnd
    BY <1>0, <1>1
  <2>2. QED
    BY <1>0, <1>1, <2>1, MaxNat
<1>4. Min(H) \in H
  <2>1. H \subseteq Nat
    BY <1>0, <1>2
  <2>2. QED
    BY <1>2, <2>1, MinNat
<1>6. Max(L) = s.audioStart \/ \E p \in s.points : p.sample <= t /\ Max(L) = s.audioStart + p.off
  BY <1>3, <1>8
<1>7. QED
  BY <1>1, <1>2, <1>3, <1>4, <1>5, <1>6

\* The first sample of a frame is a natural number.
LEMMA FirstType ==
    ASSUME NEW s, StreamOK(s), NEW i \in Cands(s), NEW nom \in Nat
    PROVE  /\ FirstSample(s, nom, i) \in Nat
           /\ TrueFirst(s, i) \in Nat /\ TrueEnd(s, i) \in Nat
<1>1. /\ s.number[i] \in Nat /\ s.block[i] \in Nat /\ s.trueBlock \in Nat
  BY DEF StreamOK
<1>2. \A a, b \in Nat : a * b \in Nat
  OBVIOUS
<1>3. QED
  BY <1>1, <1>2 DEF FirstSample, TrueFirst, TrueEnd

\* Sizes of the window being probed.
LEMMA WindowFacts ==
    ASSUME TypeOK, base <= stream.streamEnd
    PROVE  /\ Got \in Nat /\ Want \in Nat /\ Got <= Want /\ Got <= window
           /\ base + Got <= stream.streamEnd
           /\ Got > 0 => base + Got <= stream.physEnd
           /\ FirstWindow(stream) \in Nat /\ FirstWindow(stream) >= 2
<1>1. /\ stream.streamEnd \in Nat /\ stream.physEnd \in Nat /\ stream.maxFrame \in Nat
      /\ base \in Nat /\ window \in Nat
  BY DEF TypeOK, StreamOK
<1>2. QED
  BY <1>1, WindowAssumption DEF Got, Want, Least, Most, FirstWindow

\* The frame FindNextFrame stops at is the first one it does not skip; when the
\* window holds it whole, it is a frame the seek may land on.
LEMMA FoundFacts ==
    ASSUME TypeOK, base <= stream.streamEnd, Outcome = "found"
    PROVE  /\ FoundIn \in Survivors(stream) /\ FoundIn \in Cands(stream)
           /\ base <= stream.start[FoundIn]
           /\ stream.start[FoundIn] < stream.end[FoundIn]
           /\ stream.end[FoundIn] <= stream.streamEnd
           /\ \A j \in Survivors(stream) : j < FoundIn => stream.start[j] < base
<1>1. Unskipped # {} /\ stream.end[FoundIn] <= base + Got
  BY DEF Outcome
<1>2. FoundIn \in Unskipped /\ \A j \in Unskipped : FoundIn <= j
  <2>1. stream.n \in Nat
    BY DEF TypeOK, StreamOK
  <2>2. Unskipped \subseteq Nat
    BY <2>1 DEF Unskipped, Cands
  <2>3. QED
    BY <1>1, <2>2, MinNat DEF FoundIn
<1>3. /\ FoundIn \in Cands(stream) /\ base <= stream.start[FoundIn]
      /\ stream.start[FoundIn] + 1 < base + Got
      /\ stream.ok[FoundIn] \/ stream.end[FoundIn] > base + Got
  BY <1>2 DEF Unskipped
<1>4. /\ stream.start \in [Cands(stream) -> Nat] /\ stream.end \in [Cands(stream) -> Nat]
      /\ stream.ok \in [Cands(stream) -> BOOLEAN] /\ base \in Nat /\ stream.n \in Nat
      /\ \A i \in Cands(stream) : stream.start[i] + 2 <= stream.end[i]
      /\ \A i, j \in Cands(stream) : i < j => stream.start[i] < stream.start[j]
      /\ stream.physEnd \in Nat /\ stream.streamEnd \in Nat
  BY DEF TypeOK, StreamOK
<1>5. /\ Got \in Nat /\ base + Got <= stream.streamEnd
      /\ Got > 0 => base + Got <= stream.physEnd
  BY WindowFacts
<1>6. stream.ok[FoundIn] /\ stream.end[FoundIn] <= stream.physEnd
  BY <1>1, <1>3, <1>4, <1>5
<1>7. FoundIn \in Survivors(stream)
  BY <1>3, <1>6 DEF Survivors
<1>8. ASSUME NEW j \in Survivors(stream), j < FoundIn
      PROVE  stream.start[j] < base
  <2>1. j \in Cands(stream) /\ stream.ok[j]
    BY DEF Survivors
  <2>2. stream.start[j] < stream.start[FoundIn]
    BY <2>1, <1>3, <1>4, <1>8
  <2>3. j \in Nat /\ FoundIn \in Nat
    BY <2>1, <1>3, <1>4 DEF Cands
  <2>4. j \notin Unskipped
    BY <1>2, <1>8, <2>3
  <2>5. QED
    BY <2>1, <2>2, <2>4, <1>3, <1>4, <1>5 DEF Unskipped
<1>9. QED
  BY <1>1, <1>3, <1>4, <1>5, <1>7, <1>8

\* A window without a frame to stop at holds no frame the seek could land on.
LEMMA SkippedFacts ==
    ASSUME TypeOK, base <= stream.streamEnd, window >= 2, Outcome = "advance"
    PROVE  /\ base + Got - 1 \in Nat /\ base + Got - 1 <= stream.streamEnd
           /\ base <= base + Got - 1
           /\ \A j \in Survivors(stream) :
                 stream.start[j] < base + Got - 1 => stream.start[j] < base
<1>1. Unskipped = {} /\ ~AtEnd /\ ~(base >= stream.streamEnd)
  BY DEF Outcome
<1>2. /\ Got \in Nat /\ Want \in Nat /\ Got <= Want /\ base + Got <= stream.streamEnd
  BY WindowFacts
<1>3. /\ stream.start \in [Cands(stream) -> Nat] /\ base \in Nat /\ window \in Nat
      /\ stream.streamEnd \in Nat
  BY DEF TypeOK, StreamOK
<1>4. Got > 0
  BY <1>1, <1>2, <1>3 DEF AtEnd, Want, Least
<1>5. ASSUME NEW j \in Survivors(stream), stream.start[j] < base + Got - 1
      PROVE  stream.start[j] < base
  <2>1. j \in Cands(stream) /\ stream.ok[j]
    BY DEF Survivors
  <2>2. QED
    BY <2>1, <1>1, <1>2, <1>3, <1>5 DEF Unskipped
<1>6. QED
  BY <1>2, <1>3, <1>4, <1>5

\* STREAMINFO records no block size and the first frame is whole: the probe from
\* the first audio byte stops at that frame and nowhere else.
LEMMA NominalFound ==
    ASSUME TypeOK, window >= 2, base = stream.audioStart,
           1 \in Survivors(stream), stream.start[1] = stream.audioStart,
           stream.end[1] - stream.audioStart <= MaxWindow
    PROVE  Outcome = "grow" \/ (Outcome = "found" /\ FoundIn = 1)
<1>1. /\ stream.start \in [Cands(stream) -> Nat] /\ stream.end \in [Cands(stream) -> Nat]
      /\ base \in Nat /\ window \in Nat /\ stream.n \in Nat
      /\ stream.streamEnd \in Nat /\ stream.physEnd \in Nat
      /\ stream.physEnd <= stream.streamEnd
      /\ \A i \in Cands(stream) : stream.start[i] + 2 <= stream.end[i]
  BY DEF TypeOK, StreamOK
<1>2. 1 \in Cands(stream) /\ stream.ok[1] /\ stream.end[1] <= stream.physEnd
  BY DEF Survivors
<1>3. stream.start[1] \in Nat /\ stream.end[1] \in Nat /\ stream.start[1] + 2 <= stream.end[1]
  BY <1>1, <1>2
<1>4. Got \in Nat /\ Got >= 2 /\ ~(base >= stream.streamEnd)
  BY <1>1, <1>2, <1>3 DEF Got, Want, Least, Most
<1>5. 1 \in Unskipped
  BY <1>1, <1>2, <1>3, <1>4 DEF Unskipped
<1>6. FoundIn = 1
  <2>1. Unskipped \subseteq Nat /\ \A i \in Unskipped : i >= 1
    BY <1>1 DEF Unskipped, Cands
  <2>2. FoundIn \in Unskipped /\ \A i \in Unskipped : FoundIn <= i
    BY <1>5, <2>1, MinNat DEF FoundIn
  <2>3. QED
    BY <1>5, <2>1, <2>2
<1>7. CASE stream.end[1] <= base + Got
  BY <1>4, <1>5, <1>6, <1>7 DEF Outcome
<1>8. CASE stream.end[1] > base + Got
  <2>1. /\ Got = Want /\ Want = window /\ ~(base + Got >= stream.streamEnd)
        /\ ~(window >= MaxWindow)
    BY <1>1, <1>2, <1>3, <1>8, WindowAssumption DEF Got, Want, Least, Most
  <2>2. ~AtEnd
    BY <1>1, <1>4, <2>1 DEF AtEnd
  <2>3. ~(stream.end[FoundIn] <= base + Got)
    BY <1>1, <1>3, <1>4, <1>6, <1>8
  <2>4. QED
    BY <1>4, <1>5, <2>1, <2>2, <2>3 DEF Outcome
<1>9. QED
  BY <1>1, <1>3, <1>4, <1>7, <1>8

\* While the search compares samples, frame numbers map to the right ones.
LEMMA FoundSamples ==
    ASSUME TypeOK, NominalInv, NominalOK(stream), pc \in {"binary", "linear"}
    PROVE  FoundFirst = TrueFirst(stream, FoundIn) /\ FoundEnd = TrueEnd(stream, FoundIn)
  BY DEF NominalInv, FoundFirst, FoundEnd, TrueFirst, TrueEnd, FirstSample

\* Frames are in sample order.
LEMMA SampleOrder ==
    ASSUME TypeOK, NEW i \in Survivors(stream), NEW j \in Survivors(stream)
    PROVE  /\ i < j => TrueEnd(stream, i) <= TrueFirst(stream, j)
           /\ stream.start[j] < stream.end[i] => j <= i
           /\ TrueFirst(stream, i) \in Nat /\ TrueEnd(stream, i) \in Nat
           /\ TrueFirst(stream, i) < TrueEnd(stream, i)
           /\ i \in Nat
<1>1. /\ i \in Cands(stream) /\ j \in Cands(stream) /\ stream.ok[i] /\ stream.ok[j]
      /\ StreamOK(stream) /\ nominalBlock \in Nat
  BY DEF Survivors, TypeOK
<1>2. /\ stream.start[j] \in Nat /\ stream.end[i] \in Nat /\ stream.block[i] \in Nat \ {0}
      /\ stream.n \in Nat
      /\ i < j => stream.end[i] <= stream.start[j] /\ TrueEnd(stream, i) <= TrueFirst(stream, j)
  BY <1>1 DEF StreamOK
<1>3. TrueFirst(stream, i) \in Nat /\ TrueEnd(stream, i) \in Nat
  BY <1>1, FirstType
<1>4. QED
  BY <1>1, <1>2, <1>3 DEF TrueEnd, Cands

-----------------------------------------------------------------------------
(* The induction.                                                           *)

\* What Enter sets, when it is given bounds inside the stream.
LEMMA EnterFacts ==
    ASSUME TypeOK, NEW l \in Nat, NEW h \in Nat, Enter(l, h),
           l \in stream.audioStart .. stream.streamEnd,
           h \in stream.audioStart .. stream.streamEnd
    PROVE  /\ lo' = l /\ hi' = h /\ lo' \in Nat /\ hi' \in Nat
           /\ base' \in Nat /\ base' \in stream.audioStart .. stream.streamEnd
           /\ window' \in Nat /\ window' >= 2
           /\ pc' \in {"binary", "linear"}
           /\ pc' = "linear" => base' = l
<1>1. FirstWindow(stream) \in Nat /\ FirstWindow(stream) >= 2
  <2>1. stream.maxFrame \in Nat
    BY DEF TypeOK, StreamOK
  <2>2. QED
    BY <2>1, WindowAssumption DEF FirstWindow, Least, Most
<1>2. stream.audioStart \in Nat /\ stream.streamEnd \in Nat
  BY DEF TypeOK, StreamOK
<1>3. h - l > LinearWindow => l + (h - l) \div 2 \in l .. h
  BY WindowAssumption
<1>4. QED
  BY <1>1, <1>2, <1>3 DEF Enter

\* NewDecoder leaves no seek under way: the invariant holds of a fresh decoder.
THEOREM SeekInit == Init => IInv
<1> SUFFICES ASSUME Init PROVE IInv
  OBVIOUS
<1>1. StreamOK(stream)
  BY StreamsAssumption DEF Init
<1>2. TypeOK
  BY <1>1 DEF Init, TypeOK, Resting, StreamOK
<1>3. SearchBoundsInStream /\ ProbeInv /\ BehindInv /\ LandsOnFirstSurvivor
  BY DEF Init, SearchBoundsInStream, ProbeInv, BehindInv, LandsOnFirstSurvivor, Probing
<1>4. NominalInv
  BY DEF Init, NominalInv, NominalOK
<1>5. QED
  BY <1>2, <1>3, <1>4 DEF IInv

\* The parts of the invariant that a step cannot disturb when it neither moves
\* the bounds nor changes the target, the frame or the nominal block size.
LEMMA RestingStep ==
    ASSUME IInv, pc' \in {"failed", "end", "landed"},
           UNCHANGED <<stream, nominalBlock, target, lo, hi, base, window, frame>>,
           endSample' \in Nat, pc' = "landed" => pc = "land"
    PROVE  IInv'
<1>1. TypeOK'
  BY DEF IInv, TypeOK, Resting
<1>2. SearchBoundsInStream' /\ ProbeInv' /\ BehindInv'
  BY DEF IInv, SearchBoundsInStream, ProbeInv, BehindInv, Probing
<1>3. NominalInv'
  BY DEF IInv, NominalInv
<1>4. LandsOnFirstSurvivor'
  BY DEF IInv, LandsOnFirstSurvivor
<1>5. QED
  BY <1>1, <1>2, <1>3, <1>4 DEF IInv

\* A probe that goes on with a larger window, or behind the one it read, has not
\* passed over a frame the seek could land on (probe's loop).
LEMMA ProbeOnStep == IInv /\ ProbeOn => IInv'
<1> SUFFICES ASSUME IInv, ProbeOn PROVE IInv'
  OBVIOUS
<1>0. /\ TypeOK /\ SearchBoundsInStream /\ ProbeInv /\ NominalInv /\ BehindInv
      /\ UNCHANGED <<stream, nominalBlock, target, pc, lo, hi, frame, endSample>>
      /\ pc \in Probing
  BY DEF IInv, ProbeOn
<1>1. /\ base \in stream.audioStart .. stream.streamEnd /\ base <= stream.streamEnd
      /\ window \in Nat /\ window >= 2
      /\ stream.audioStart \in Nat /\ stream.streamEnd \in Nat
  BY <1>0 DEF SearchBoundsInStream, ProbeInv, TypeOK, StreamOK
<1>2. LandsOnFirstSurvivor'
  BY <1>0 DEF LandsOnFirstSurvivor, Probing
<1>3. CASE Outcome = "grow"
  <2>1. base' = base /\ window' = Least(2 * window, MaxWindow)
    BY <1>3 DEF ProbeOn
  <2>2. window' \in Nat /\ window' >= 2
    BY <1>1, <2>1, WindowAssumption DEF Least
  <2>3. TypeOK' /\ SearchBoundsInStream' /\ ProbeInv'
    BY <1>0, <2>1, <2>2 DEF TypeOK, SearchBoundsInStream, ProbeInv
  <2>4. NominalInv' /\ BehindInv'
    BY <1>0, <2>1 DEF NominalInv, BehindInv, Behind
  <2>5. QED
    BY <2>3, <2>4, <1>2 DEF IInv
<1>4. CASE Outcome = "advance"
  <2>1. base' = base + Got - 1 /\ window' = window
    BY <1>4 DEF ProbeOn
  <2>2. /\ base' \in Nat /\ base' <= stream.streamEnd /\ base <= base'
        /\ \A j \in Survivors(stream) : stream.start[j] < base' => stream.start[j] < base
    BY <1>0, <1>1, <1>4, <2>1, SkippedFacts
  <2>3. TypeOK' /\ ProbeInv'
    BY <1>0, <2>1, <2>2 DEF TypeOK, ProbeInv
  <2>4. SearchBoundsInStream'
    BY <1>0, <1>1, <2>2 DEF SearchBoundsInStream
  <2>5. NominalInv'
    <3>1. SUFFICES ASSUME NominalOK(stream), pc = "nominal", base = stream.audioStart,
                          1 \in Survivors(stream), stream.start[1] = stream.audioStart,
                          stream.end[1] - stream.audioStart <= MaxWindow
                   PROVE  FALSE
      BY <1>0, <2>1 DEF NominalInv
    <3>2. QED
      BY <1>0, <1>1, <1>4, <3>1, NominalFound
  <2>6. BehindInv'
    BY <1>0, <2>2 DEF BehindInv, Behind
  <2>7. QED
    BY <1>2, <2>3, <2>4, <2>5, <2>6 DEF IInv
<1>5. QED
  BY <1>3, <1>4 DEF ProbeOn

\* Entering searchFrame from the bounds the SEEKTABLE leaves.
LEMMA EnterNarrowed ==
    ASSUME IInv, NEW t \in Nat, target' = t, stream' = stream, frame' \in {0, frame},
           nominalBlock' \in Nat, endSample' \in Nat,
           NominalOK(stream) => stream.variable \/ nominalBlock' = stream.trueBlock,
           Enter(NarrowLo(stream, t), NarrowHi(stream, t))
    PROVE  IInv'
<1> DEFINE L == NarrowLo(stream, t)
           H == NarrowHi(stream, t)
<1>0. TypeOK /\ StreamOK(stream)
  BY DEF IInv, TypeOK
<1>1. /\ L \in stream.audioStart .. stream.streamEnd /\ H \in stream.audioStart .. stream.streamEnd
      /\ L = stream.audioStart
         \/ \E p \in stream.points : p.sample <= t /\ L = stream.audioStart + p.off
  BY <1>0, NarrowInStream
<1>2. L \in Nat /\ H \in Nat
  BY <1>0, <1>1 DEF StreamOK
<1> HIDE DEF L, H
<1>3. Enter(L, H)
  BY DEF L, H
<1>4. /\ lo' = L /\ hi' = H /\ lo' \in Nat /\ hi' \in Nat
      /\ base' \in Nat /\ base' \in stream.audioStart .. stream.streamEnd
      /\ window' \in Nat /\ window' >= 2
      /\ pc' \in {"binary", "linear"}
      /\ pc' = "linear" => base' = L
  BY <1>0, <1>1, <1>2, <1>3, EnterFacts
<1>5. TypeOK'
  BY <1>0, <1>4 DEF TypeOK, Probing
<1>6. SearchBoundsInStream' /\ ProbeInv'
  BY <1>1, <1>4 DEF SearchBoundsInStream, ProbeInv
<1>7. NominalInv'
  BY <1>4 DEF NominalInv
<1>8. BehindInv'
  <2>1. SUFFICES ASSUME NominalOK(stream), HonestPoints(stream), NEW j \in Survivors(stream),
                        stream.start[j] < L
                 PROVE  TrueEnd(stream, j) <= t
    BY <1>4 DEF BehindInv, Behind
  <2>2. /\ j \in Cands(stream) /\ stream.start[j] \in Nat /\ stream.audioStart <= stream.start[j]
        /\ stream.audioStart \in Nat
    BY <1>0 DEF Survivors, StreamOK
  <2>3. PICK p \in stream.points : p.sample <= t /\ L = stream.audioStart + p.off
    BY <1>1, <2>1, <2>2
  <2>4. TrueEnd(stream, j) <= p.sample
    BY <2>1, <2>3 DEF HonestPoints
  <2>5. p.sample \in Int /\ TrueEnd(stream, j) \in Nat
    BY <1>0, <2>2, FirstType DEF StreamOK
  <2>6. QED
    BY <2>3, <2>4, <2>5
<1>9. LandsOnFirstSurvivor'
  BY <1>4 DEF LandsOnFirstSurvivor
<1>10. QED
  BY <1>5, <1>6, <1>7, <1>8, <1>9 DEF IInv

\* A new call starts the search from bounds that hold the frame sought.
LEMMA SeekToSampleStep ==
    ASSUME IInv, NEW t \in Targets, SeekToSample(t)
    PROVE  IInv'
<1>0. /\ TypeOK /\ StreamOK(stream) /\ NominalInv /\ t \in Nat /\ target' = t /\ frame' = 0
      /\ UNCHANGED <<stream, nominalBlock>> /\ nominalBlock \in Nat
      /\ stream.total \in Nat /\ stream.audioStart \in Nat /\ stream.streamEnd \in Nat
      /\ stream.audioStart <= stream.streamEnd
  BY TargetsAssumption DEF IInv, SeekToSample, TypeOK, StreamOK
<1>1. CASE stream.total > 0 /\ t >= stream.total
  <2>1. endSample' = stream.total /\ pc' = "end" /\ UNCHANGED <<lo, hi, base, window>>
    BY <1>1 DEF SeekToSample, Stop
  <2>2. TypeOK'
    BY <1>0, <2>1 DEF TypeOK, Resting
  <2>3. SearchBoundsInStream' /\ ProbeInv' /\ BehindInv' /\ LandsOnFirstSurvivor'
    BY <2>1 DEF SearchBoundsInStream, ProbeInv, BehindInv, LandsOnFirstSurvivor, Probing
  <2>4. NominalInv'
    BY <1>0, <2>1 DEF NominalInv
  <2>5. QED
    BY <2>2, <2>3, <2>4 DEF IInv
<1>2. CASE ~(stream.total > 0 /\ t >= stream.total) /\ nominalBlock <= 0
  <2>1. /\ endSample' = 0 /\ pc' = "nominal" /\ UNCHANGED <<lo, hi>>
        /\ base' = stream.audioStart /\ window' = FirstWindow(stream)
    BY <1>2 DEF SeekToSample
  <2>2. FirstWindow(stream) \in Nat /\ FirstWindow(stream) >= 2
    <3>1. stream.maxFrame \in Nat
      BY <1>0 DEF StreamOK
    <3>2. QED
      BY <3>1, WindowAssumption DEF FirstWindow, Least, Most
  <2>3. TypeOK'
    BY <1>0, <2>1, <2>2 DEF TypeOK, Probing
  <2>4. SearchBoundsInStream' /\ ProbeInv' /\ BehindInv' /\ LandsOnFirstSurvivor'
    BY <1>0, <1>2, <2>1, <2>2 DEF SearchBoundsInStream, ProbeInv, BehindInv, LandsOnFirstSurvivor
  <2>5. NominalInv'
    BY <1>0, <2>1 DEF NominalInv
  <2>6. QED
    BY <2>3, <2>4, <2>5 DEF IInv
<1>3. CASE ~(stream.total > 0 /\ t >= stream.total) /\ ~(nominalBlock <= 0)
  <2>1. endSample' = 0 /\ Enter(NarrowLo(stream, t), NarrowHi(stream, t))
    BY <1>3 DEF SeekToSample
  <2>2. NominalOK(stream) => stream.variable \/ nominalBlock' = stream.trueBlock
    BY <1>0, <1>3 DEF NominalInv
  <2>3. QED
    BY <1>0, <2>1, <2>2, EnterNarrowed
<1>4. QED
  BY <1>1, <1>2, <1>3

\* ensureNominalBlock learns the right block size before the search compares.
LEMMA NominalProbedStep == IInv /\ NominalProbed => IInv'
<1> SUFFICES ASSUME IInv, NominalProbed PROVE IInv'
  OBVIOUS
<1>0. /\ TypeOK /\ StreamOK(stream) /\ SearchBoundsInStream /\ ProbeInv /\ NominalInv
      /\ pc = "nominal" /\ UNCHANGED <<stream, target, frame, endSample>>
      /\ target \in Nat /\ endSample \in Nat /\ nominalBlock \in Nat
      /\ Outcome \in {"found", "truncated", "notfound"}
      /\ nominalBlock' = IF Outcome = "found" /\ ~stream.variable
                         THEN stream.block[FoundIn] ELSE nominalBlock
      /\ Enter(NarrowLo(stream, target), NarrowHi(stream, target))
  BY DEF IInv, TypeOK, NominalProbed
<1>1. base <= stream.streamEnd /\ window >= 2
  BY <1>0 DEF SearchBoundsInStream, ProbeInv, Probing, StreamOK
<1>2. nominalBlock' \in Nat
  <2>1. Outcome = "found" => FoundIn \in Cands(stream)
    BY <1>0, <1>1, FoundFacts
  <2>2. QED
    BY <1>0, <2>1 DEF StreamOK
<1>3. NominalOK(stream) => stream.variable \/ nominalBlock' = stream.trueBlock
  <2>1. SUFFICES ASSUME NominalOK(stream), ~stream.variable
                 PROVE  nominalBlock' = stream.trueBlock
    OBVIOUS
  <2>2. CASE nominalBlock = 0
    <3>1. /\ 1 \in Survivors(stream) /\ stream.start[1] = stream.audioStart
          /\ stream.block[1] = stream.trueBlock /\ base = stream.audioStart
          /\ stream.end[1] - stream.audioStart <= MaxWindow
      BY <1>0, <2>1, <2>2 DEF NominalInv, StreamOK
    <3>2. Outcome = "found" /\ FoundIn = 1
      BY <1>0, <1>1, <3>1, NominalFound
    <3>3. QED
      BY <1>0, <2>1, <3>1, <3>2
  <2>3. QED
    BY <1>0, <2>2 DEF ProbeInv
<1>4. QED
  BY <1>0, <1>2, <1>3, EnterNarrowed

\* Whatever the probe of the middle found, the half that searchFrame gives up
\* holds no frame the seek should have landed on.
LEMMA BinaryProbedStep == IInv /\ BinaryProbed => IInv'
<1> SUFFICES ASSUME IInv, BinaryProbed PROVE IInv'
  OBVIOUS
<1>0. /\ TypeOK /\ SearchBoundsInStream /\ ProbeInv /\ NominalInv /\ BehindInv
      /\ pc = "binary" /\ UNCHANGED <<stream, nominalBlock, target, endSample>>
      /\ lo \in stream.audioStart .. stream.streamEnd
      /\ hi \in stream.audioStart .. stream.streamEnd
      /\ base \in stream.audioStart .. stream.streamEnd
      /\ stream.audioStart \in Nat /\ stream.streamEnd \in Nat
      /\ lo \in Nat /\ hi \in Nat /\ base \in Nat /\ base <= stream.streamEnd
      /\ target \in Nat
  BY DEF IInv, BinaryProbed, SearchBoundsInStream, Probing, TypeOK, StreamOK
\* What is left to show when the search goes on with other bounds.
<1>1. ASSUME NEW l \in Nat, NEW h \in Nat, Enter(l, h), UNCHANGED frame,
             l \in stream.audioStart .. stream.streamEnd,
             h \in stream.audioStart .. stream.streamEnd,
             NominalOK(stream) /\ HonestPoints(stream) => Behind(l)
      PROVE  IInv'
  <2>1. /\ lo' = l /\ hi' = h /\ lo' \in Nat /\ hi' \in Nat
        /\ base' \in Nat /\ base' \in stream.audioStart .. stream.streamEnd
        /\ window' \in Nat /\ window' >= 2
        /\ pc' \in {"binary", "linear"}
        /\ pc' = "linear" => base' = l
    BY <1>0, <1>1, EnterFacts
  <2>2. TypeOK'
    BY <1>0, <1>1, <2>1 DEF TypeOK, Probing
  <2>3. SearchBoundsInStream' /\ ProbeInv'
    BY <1>0, <1>1, <2>1 DEF SearchBoundsInStream, ProbeInv
  <2>4. NominalInv'
    BY <1>0 DEF NominalInv
  <2>5. BehindInv'
    BY <1>0, <1>1, <2>1 DEF BehindInv, Behind
  <2>6. LandsOnFirstSurvivor'
    BY <2>1 DEF LandsOnFirstSurvivor
  <2>7. QED
    BY <2>2, <2>3, <2>4, <2>5, <2>6 DEF IInv
<1>2. NominalOK(stream) /\ HonestPoints(stream) => Behind(lo)
  BY <1>0 DEF BehindInv
<1>3. CASE Outcome \in {"truncated", "notfound"} /\ Enter(lo, Mid) /\ UNCHANGED frame
  <2>1. Mid \in Nat /\ Mid \in stream.audioStart .. stream.streamEnd
    <3>1. CASE lo <= hi
      BY <1>0, <3>1 DEF Mid
    <3>2. CASE lo > hi
      BY <1>0, <3>2 DEF Mid
    <3>3. QED
      BY <1>0, <3>1, <3>2
  <2>2. QED
    BY <1>0, <1>1, <1>2, <1>3, <2>1
<1>4. CASE Outcome = "found" /\ FoundFirst > target /\ Enter(lo, NewHi) /\ UNCHANGED frame
  <2>1. Mid \in Nat /\ Mid \in stream.audioStart .. stream.streamEnd
    <3>1. CASE lo <= hi
      BY <1>0, <3>1 DEF Mid
    <3>2. CASE lo > hi
      BY <1>0, <3>2 DEF Mid
    <3>3. QED
      BY <1>0, <3>1, <3>2
  <2>2. /\ FoundIn \in Cands(stream) /\ base <= stream.start[FoundIn]
        /\ stream.start[FoundIn] < stream.end[FoundIn]
        /\ stream.end[FoundIn] <= stream.streamEnd
    BY <1>0, <1>4, FoundFacts
  <2>3. stream.start[FoundIn] \in Nat /\ stream.end[FoundIn] \in Nat
    BY <2>2 DEF TypeOK, StreamOK, IInv
  <2>4. NewHi \in Nat /\ NewHi \in stream.audioStart .. stream.streamEnd
    BY <1>0, <2>1, <2>2, <2>3 DEF NewHi
  <2>5. QED
    BY <1>0, <1>1, <1>2, <1>4, <2>4
<1>5. CASE Outcome = "found" /\ target >= FoundEnd /\ Enter(NewLo, hi) /\ UNCHANGED frame
  <2>1. /\ FoundIn \in Survivors(stream) /\ FoundIn \in Cands(stream)
        /\ base <= stream.start[FoundIn] /\ stream.start[FoundIn] < stream.end[FoundIn]
        /\ stream.end[FoundIn] <= stream.streamEnd
    BY <1>0, <1>5, FoundFacts
  <2>2. stream.start[FoundIn] \in Nat /\ stream.end[FoundIn] \in Nat
    BY <2>1 DEF TypeOK, StreamOK, IInv
  <2>3. NewLo \in Nat /\ NewLo \in stream.audioStart .. stream.streamEnd
    BY <1>0, <2>1, <2>2 DEF NewLo
  <2>4. ASSUME NominalOK(stream), NEW j \in Survivors(stream), stream.start[j] < NewLo
        PROVE  TrueEnd(stream, j) <= target
    <3>1. FoundEnd = TrueEnd(stream, FoundIn)
      BY <1>0, <2>4, FoundSamples
    <3>2. j <= FoundIn /\ j \in Nat /\ FoundIn \in Nat
      BY <1>0, <2>1, <2>4, SampleOrder DEF NewLo
    <3>3. /\ j < FoundIn => TrueEnd(stream, j) <= TrueFirst(stream, FoundIn)
          /\ TrueEnd(stream, j) \in Nat
      BY <1>0, <2>1, <2>4, SampleOrder
    <3>4. /\ TrueFirst(stream, FoundIn) < TrueEnd(stream, FoundIn)
          /\ TrueFirst(stream, FoundIn) \in Nat /\ TrueEnd(stream, FoundIn) \in Nat
      BY <1>0, <2>1, SampleOrder
    <3>5. CASE j = FoundIn
      BY <1>5, <3>1, <3>5
    <3>6. CASE j < FoundIn
      BY <1>0, <1>5, <3>1, <3>3, <3>4, <3>6
    <3>7. QED
      BY <3>2, <3>5, <3>6
  <2>5. NominalOK(stream) /\ HonestPoints(stream) => Behind(NewLo)
    BY <2>4 DEF Behind
  <2>6. QED
    BY <1>0, <1>1, <1>5, <2>3, <2>5
<1>6. CASE /\ Outcome = "found" /\ FoundFirst <= target /\ target < FoundEnd
           /\ frame' = FoundIn /\ Stop("land")
  <2>1. FoundIn \in Survivors(stream) /\ FoundIn \in Cands(stream)
    BY <1>0, <1>6, FoundFacts
  <2>2. pc' = "land" /\ UNCHANGED <<lo, hi, base, window>>
    BY <1>6 DEF Stop
  <2>3. TypeOK'
    BY <1>0, <1>6, <2>1, <2>2 DEF TypeOK
  <2>4. SearchBoundsInStream' /\ ProbeInv' /\ BehindInv'
    BY <1>0, <2>2 DEF SearchBoundsInStream, ProbeInv, BehindInv, Probing
  <2>5. NominalInv'
    BY <1>0, <2>2 DEF NominalInv
  <2>6. ASSUME NominalOK(stream)
        PROVE  /\ target < TrueEnd(stream, FoundIn)
               /\ \A j \in Survivors(stream) : j < FoundIn => TrueEnd(stream, j) <= target
    <3>1. FoundFirst = TrueFirst(stream, FoundIn) /\ FoundEnd = TrueEnd(stream, FoundIn)
      BY <1>0, <2>6, FoundSamples
    <3>2. ASSUME NEW j \in Survivors(stream), j < FoundIn
          PROVE  TrueEnd(stream, j) <= target
      <4>1. /\ TrueEnd(stream, j) <= TrueFirst(stream, FoundIn) /\ TrueEnd(stream, j) \in Nat
            /\ TrueFirst(stream, FoundIn) \in Nat
        BY <1>0, <2>1, <3>2, SampleOrder
      <4>2. QED
        BY <1>0, <1>6, <3>1, <4>1
    <3>3. QED
      BY <1>6, <3>1, <3>2
  <2>7. LandsOnFirstSurvivor'
    BY <1>0, <1>6, <2>1, <2>6 DEF LandsOnFirstSurvivor
  <2>8. QED
    BY <2>3, <2>4, <2>5, <2>7 DEF IInv
<1>7. QED
  BY <1>3, <1>4, <1>5, <1>6 DEF BinaryProbed

\* The linear scan passes only frames that end at or before the target.
LEMMA LinearProbedStep == IInv /\ LinearProbed => IInv'
<1> SUFFICES ASSUME IInv, LinearProbed PROVE IInv'
  OBVIOUS
<1>0. /\ TypeOK /\ SearchBoundsInStream /\ ProbeInv /\ NominalInv /\ BehindInv
      /\ pc = "linear" /\ UNCHANGED <<stream, nominalBlock, target>>
      /\ base \in stream.audioStart .. stream.streamEnd
      /\ stream.audioStart \in Nat /\ stream.streamEnd \in Nat
      /\ base \in Nat /\ base <= stream.streamEnd
      /\ target \in Nat /\ endSample \in Nat /\ nominalBlock \in Nat
      /\ StreamOK(stream)
  BY DEF IInv, LinearProbed, SearchBoundsInStream, Probing, TypeOK, StreamOK
<1>1. CASE Outcome \in {"truncated", "notfound"}
  <2>1. /\ pc' \in {"failed", "end"} /\ UNCHANGED <<lo, hi, base, window, frame, endSample>>
    BY <1>1 DEF LinearProbed, Stop
  <2>2. QED
    BY <1>0, <2>1, RestingStep
<1>2. CASE Outcome = "found"
  <2>1. /\ FoundIn \in Survivors(stream) /\ FoundIn \in Cands(stream)
        /\ base <= stream.start[FoundIn] /\ stream.start[FoundIn] < stream.end[FoundIn]
        /\ stream.end[FoundIn] <= stream.streamEnd
        /\ \A j \in Survivors(stream) : j < FoundIn => stream.start[j] < base
    BY <1>0, <1>2, FoundFacts
  <2>2. /\ stream.start[FoundIn] \in Nat /\ stream.end[FoundIn] \in Nat
        /\ stream.block[FoundIn] \in Nat
    BY <1>0, <2>1 DEF StreamOK
  <2>3. FoundEnd \in Nat
    <3>1. FoundFirst \in Nat
      BY <1>0, <2>1, FirstType DEF FoundFirst
    <3>2. QED
      BY <2>2, <3>1 DEF FoundEnd
  <2>4. NominalOK(stream) => FoundEnd = TrueEnd(stream, FoundIn)
    BY <1>0, FoundSamples
  \* Every decodable frame before the one found is behind the base of the scan.
  <2>5. ASSUME NominalOK(stream), HonestPoints(stream), NEW j \in Survivors(stream), j < FoundIn
        PROVE  TrueEnd(stream, j) <= target
    BY <1>0, <2>1, <2>5 DEF BehindInv, Behind
  <2>6. CASE target < FoundEnd
    <3>1. /\ frame' = FoundIn /\ endSample' = FoundEnd /\ pc' = "land"
          /\ UNCHANGED <<lo, hi, base, window>>
      BY <1>0, <1>2, <2>3, <2>6 DEF LinearProbed, Stop
    <3>2. TypeOK'
      BY <1>0, <2>1, <2>3, <3>1 DEF TypeOK
    <3>3. SearchBoundsInStream' /\ ProbeInv' /\ BehindInv'
      BY <1>0, <3>1 DEF SearchBoundsInStream, ProbeInv, BehindInv, Probing
    <3>4. NominalInv'
      BY <1>0, <3>1 DEF NominalInv
    <3>5. LandsOnFirstSurvivor'
      BY <1>0, <2>1, <2>4, <2>5, <2>6, <3>1 DEF LandsOnFirstSurvivor
    <3>6. QED
      BY <3>2, <3>3, <3>4, <3>5 DEF IInv
  <2>7. CASE target >= FoundEnd
    <3>1. /\ base' = stream.end[FoundIn] /\ window' = FirstWindow(stream)
          /\ endSample' = FoundEnd /\ UNCHANGED <<pc, lo, hi, frame>>
      BY <1>0, <1>2, <2>3, <2>7 DEF LinearProbed
    <3>2. window' \in Nat /\ window' >= 2
      <4>1. stream.maxFrame \in Nat
        BY <1>0 DEF StreamOK
      <4>2. QED
        BY <3>1, <4>1, WindowAssumption DEF FirstWindow, Least, Most
    <3>3. TypeOK'
      BY <1>0, <2>2, <2>3, <3>1, <3>2 DEF TypeOK
    <3>4. SearchBoundsInStream' /\ ProbeInv'
      BY <1>0, <2>1, <2>2, <3>1, <3>2 DEF SearchBoundsInStream, ProbeInv
    <3>5. NominalInv'
      BY <1>0, <3>1 DEF NominalInv
    <3>6. ASSUME NominalOK(stream), HonestPoints(stream), NEW j \in Survivors(stream),
                 stream.start[j] < stream.end[FoundIn]
          PROVE  TrueEnd(stream, j) <= target
      <4>1. j <= FoundIn /\ j \in Nat /\ FoundIn \in Nat
        BY <1>0, <2>1, <3>6, SampleOrder
      <4>2. QED
        BY <2>4, <2>5, <2>7, <3>6, <4>1
    <3>7. BehindInv'
      BY <1>0, <3>1, <3>6 DEF BehindInv, Behind
    <3>8. LandsOnFirstSurvivor'
      BY <1>0, <3>1 DEF LandsOnFirstSurvivor
    <3>9. QED
      BY <3>3, <3>4, <3>5, <3>7, <3>8 DEF IInv
  <2>8. QED
    BY <1>0, <2>3, <2>6, <2>7
<1>3. QED
  BY <1>1, <1>2 DEF LinearProbed

\* Every step of a seek, and a failure of the source at any of them, keeps the
\* invariant.
THEOREM SeekStep == IInv /\ [Next]_vars => IInv'
<1> SUFFICES ASSUME IInv, [Next]_vars PROVE IInv'
  OBVIOUS
<1>1. CASE SourceFails
  BY <1>1, RestingStep DEF SourceFails, IInv, TypeOK
<1>2. CASE ProbeOn
  BY <1>2, ProbeOnStep
<1>3. CASE NominalProbed
  BY <1>3, NominalProbedStep
<1>4. CASE BinaryProbed
  BY <1>4, BinaryProbedStep
<1>5. CASE LinearProbed
  BY <1>5, LinearProbedStep
<1>6. CASE Land
  BY <1>6, RestingStep DEF Land, Stop, IInv, TypeOK
<1>7. ASSUME NEW t \in Targets, SeekToSample(t)
      PROVE  IInv'
  BY <1>7, SeekToSampleStep
<1>8. CASE UNCHANGED vars
  BY <1>8 DEF vars, IInv, TypeOK, SearchBoundsInStream, ProbeInv, NominalInv, BehindInv,
              Behind, LandsOnFirstSurvivor
<1>9. QED
  BY <1>1, <1>2, <1>3, <1>4, <1>5, <1>6, <1>7, <1>8 DEF Next, Step

(***************************************************************************)
(* SeekToSample lands on the first decodable frame that holds audio at or   *)
(* after the target, for every stream, every damage and every window size.  *)
(***************************************************************************)
THEOREM SeekCorrect == Spec => []LandsOnFirstSurvivor
<1>1. Init => IInv
  BY SeekInit
<1>2. IInv /\ [Next]_vars => IInv'
  BY SeekStep
<1>3. IInv => LandsOnFirstSurvivor
  BY DEF IInv
<1>4. QED
  BY <1>1, <1>2, <1>3, PTL DEF Spec

(***************************************************************************)
(* narrowBySeekTable and searchFrame keep their bounds, and every probe its *)
(* base, inside the audio bytes, whatever the SEEKTABLE holds.              *)
(***************************************************************************)
THEOREM SeekBounds == Spec => []SearchBoundsInStream
<1>1. Init => IInv
  BY SeekInit
<1>2. IInv /\ [Next]_vars => IInv'
  BY SeekStep
<1>3. IInv => SearchBoundsInStream
  BY DEF IInv
<1>4. QED
  BY <1>1, <1>2, <1>3, PTL DEF Spec

(***************************************************************************)
(* Types of the search's state.                                             *)
(***************************************************************************)
THEOREM SeekTypes == Spec => []TypeOK
<1>1. Init => IInv
  BY SeekInit
<1>2. IInv /\ [Next]_vars => IInv'
  BY SeekStep
<1>3. IInv => TypeOK
  BY DEF IInv
<1>4. QED
  BY <1>1, <1>2, <1>3, PTL DEF Spec


-----------------------------------------------------------------------------
(***************************************************************************)
(* What "end of stream" means.                                              *)
(*                                                                          *)
(* Behind says what the scan has passed; EndMeansNoAudio also needs that it *)
(* does not stop before it has passed everything.  When one window covers   *)
(* the audio bytes that is a fact about windows (NothingAhead).  In a       *)
(* longer stream it holds because the scan of an intact stream never leaves *)
(* the frame boundaries: the base of a linear probe, and every lo such a    *)
(* scan may start from, is the first byte of a frame or the end (AtFrames). *)
(***************************************************************************)

\* Byte b is the first of a decodable frame, or the end of the stream.
FrameAt(b) == b = stream.streamEnd \/ \E i \in Survivors(stream) : stream.start[i] = b

\* Every byte of audio and every usable seek point leads to a frame.
Whole(s) == Intact(s) /\ PointsAtFrames(s)

AtFrames ==
    Whole(stream) =>
        /\ pc \in {"binary", "linear"} => FrameAt(lo)
        /\ pc = "linear" => FrameAt(base)

EndInv == AtFrames /\ EndMeansNoAudio

\* A window that reaches the end of the bytes there are and stops at no frame
\* leaves no frame ahead of its base.
LEMMA NothingAhead ==
    ASSUME TypeOK, base <= stream.streamEnd,
           base >= stream.streamEnd \/ (Unskipped = {} /\ AtEnd)
    PROVE  \A j \in Survivors(stream) : stream.start[j] < base
<1> SUFFICES ASSUME NEW j \in Survivors(stream), ~(stream.start[j] < base)
             PROVE  FALSE
  OBVIOUS
<1>1. /\ j \in Cands(stream) /\ stream.ok[j] /\ stream.end[j] <= stream.physEnd
      /\ stream.start[j] \in Nat /\ stream.end[j] \in Nat
      /\ stream.start[j] + 2 <= stream.end[j]
      /\ base \in Nat /\ stream.physEnd \in Nat /\ stream.streamEnd \in Nat
      /\ stream.physEnd <= stream.streamEnd /\ window \in Nat
  BY DEF Survivors, TypeOK, StreamOK
<1>2. Unskipped = {} /\ AtEnd /\ base <= stream.start[j]
  BY <1>1
<1>4. Got \in Nat /\ Want \in Nat /\ Got <= Want
  BY WindowFacts
<1>3. stream.end[j] <= base + Got
  <2>1. CASE base + Got >= stream.streamEnd
    BY <1>1, <1>4, <2>1
  <2>2. CASE Got < Want
    <3>1. Got = Most(stream.physEnd - base, 0)
      BY <1>4, <2>2 DEF Got, Least
    <3>2. stream.physEnd <= base + Got
      BY <1>1, <1>4, <3>1 DEF Most
    <3>3. QED
      BY <1>1, <1>4, <3>2
  <2>3. QED
    BY <1>2, <2>1, <2>2 DEF AtEnd
<1>5. j \in Unskipped
  BY <1>1, <1>3, <1>4 DEF Unskipped
<1>6. QED
  BY <1>2, <1>5

\* From the first byte of a frame that one window can hold, a probe grows its
\* window or finds that frame: it neither goes on behind it nor gives up.
LEMMA FrameHere ==
    ASSUME TypeOK, window >= 2, base <= stream.streamEnd, Intact(stream),
           NEW i \in Survivors(stream), stream.start[i] = base
    PROVE  Outcome \in {"found", "grow"}
<1>1. /\ i \in Cands(stream) /\ stream.ok[i] /\ stream.end[i] <= stream.physEnd
      /\ stream.start[i] \in Nat /\ stream.end[i] \in Nat /\ i \in Nat
      /\ stream.start[i] + 2 <= stream.end[i]
      /\ base \in Nat /\ stream.physEnd \in Nat /\ stream.streamEnd \in Nat
      /\ stream.physEnd = stream.streamEnd /\ window \in Nat
      /\ stream.end[i] - stream.start[i] <= MaxWindow
  <2>1. i \in Cands(stream) /\ stream.ok[i] /\ stream.end[i] <= stream.physEnd
    BY DEF Survivors
  <2>2. /\ stream.n \in Nat
        /\ stream.start \in [Cands(stream) -> Nat] /\ stream.end \in [Cands(stream) -> Nat]
        /\ \A k \in Cands(stream) : stream.start[k] + 2 <= stream.end[k]
        /\ base \in Nat /\ stream.physEnd \in Nat /\ stream.streamEnd \in Nat
        /\ window \in Nat
    BY DEF TypeOK, StreamOK
  <2>3. /\ stream.physEnd = stream.streamEnd
        /\ stream.end[i] - stream.start[i] <= MaxWindow
    BY DEF Intact
  <2>4. i \in Nat
    BY <2>1, <2>2 DEF Cands
  <2>5. QED
    BY <2>1, <2>2, <2>3, <2>4
<1>2. Got = Want /\ Got \in Nat /\ Got >= 2 /\ ~(base >= stream.streamEnd)
  BY <1>1 DEF Got, Want, Least, Most
<1>3. i \in Unskipped
  BY <1>1, <1>2 DEF Unskipped
<1>4. FoundIn = i
  <2>1. Unskipped \subseteq Nat
    BY DEF Unskipped, Cands, TypeOK, StreamOK
  <2>2. FoundIn \in Unskipped /\ FoundIn <= i
    BY <1>3, <2>1, MinNat DEF FoundIn
  <2>3. FoundIn \in Cands(stream) /\ base <= stream.start[FoundIn] /\ FoundIn \in Nat
    BY <2>1, <2>2 DEF Unskipped
  <2>4. FoundIn < i => stream.start[FoundIn] < stream.start[i] /\ stream.start[FoundIn] \in Nat
    BY <1>1, <2>3 DEF TypeOK, StreamOK
  <2>5. QED
    BY <1>1, <2>2, <2>3, <2>4
<1>5. CASE stream.end[i] <= base + Got
  BY <1>2, <1>3, <1>4, <1>5 DEF Outcome
<1>6. CASE stream.end[i] > base + Got
  <2>1. Want = window /\ ~(base + Got >= stream.streamEnd) /\ ~(window >= MaxWindow)
    BY <1>1, <1>2, <1>6, WindowAssumption DEF Want, Least
  <2>2. ~AtEnd
    BY <1>2, <2>1 DEF AtEnd
  <2>3. ~(stream.end[FoundIn] <= base + Got)
    BY <1>1, <1>2, <1>4, <1>6
  <2>4. QED
    BY <1>2, <1>3, <2>1, <2>2, <2>3 DEF Outcome
<1>7. QED
  BY <1>1, <1>2, <1>5, <1>6

\* A scan that gives up has no frame ahead of it.
LEMMA GivesUpLate ==
    ASSUME IInv, AtFrames, pc = "linear", Outcome = "notfound",
           Whole(stream) \/ stream.streamEnd - stream.audioStart <= MaxWindow
    PROVE  \A j \in Survivors(stream) : stream.start[j] < base
<1>1. /\ TypeOK /\ base \in stream.audioStart .. stream.streamEnd /\ base <= stream.streamEnd
      /\ stream.audioStart \in Nat /\ stream.streamEnd \in Nat /\ base \in Nat
      /\ window \in Nat /\ window >= 2
  BY DEF IInv, SearchBoundsInStream, ProbeInv, Probing, TypeOK, StreamOK
<1>2. CASE base >= stream.streamEnd \/ (Unskipped = {} /\ AtEnd)
  BY <1>1, <1>2, NothingAhead
<1>3. CASE ~(base >= stream.streamEnd \/ (Unskipped = {} /\ AtEnd))
  <2>1. /\ Unskipped # {} /\ ~AtEnd /\ window >= MaxWindow
        /\ ~(base >= stream.streamEnd)
    BY <1>3 DEF Outcome
  <2>2. ~Whole(stream)
    <3>1. SUFFICES ASSUME Whole(stream) PROVE FALSE
      OBVIOUS
    <3>2. PICK i \in Survivors(stream) : stream.start[i] = base
      BY <1>1, <2>1, <3>1 DEF AtFrames, FrameAt
    <3>3. Outcome \in {"found", "grow"}
      BY <1>1, <3>1, <3>2, FrameHere DEF Whole
    <3>4. QED
      BY <3>3
  <2>3. stream.streamEnd - stream.audioStart <= MaxWindow
    BY <2>2
  <2>4. Want = stream.streamEnd - base
    BY <1>1, <2>1, <2>3, WindowAssumption DEF Want, Least
  <2>5. Got \in Nat /\ ~(base + Got >= stream.streamEnd) /\ ~(Got < Want)
    BY <1>1, <2>1, WindowFacts DEF AtEnd
  <2>6. QED
    BY <1>1, <2>4, <2>5
<1>4. QED
  BY <1>2, <1>3

\* The SEEKTABLE of an intact stream starts the search at a frame.
LEMMA NarrowedAtFrame ==
    ASSUME TypeOK, Whole(stream), NEW t \in Nat
    PROVE  FrameAt(NarrowLo(stream, t))
<1> DEFINE L == NarrowLo(stream, t)
<1>1. /\ StreamOK(stream) /\ stream.audioStart \in Nat /\ stream.streamEnd \in Nat
      /\ \A p \in stream.points : p.off \in Int
  BY DEF TypeOK, StreamOK
<1>2. /\ L \in stream.audioStart .. stream.streamEnd
      /\ L = stream.audioStart \/ \E p \in stream.points : L = stream.audioStart + p.off
  BY <1>1, NarrowInStream
<1>3. CASE L = stream.audioStart
  BY <1>3 DEF Whole, Intact, FrameAt
<1>4. ASSUME NEW p \in stream.points, L = stream.audioStart + p.off
      PROVE  FrameAt(L)
  <2>1. p \in Usable(stream)
    BY <1>1, <1>2, <1>4 DEF Usable
  <2>2. QED
    BY <1>4, <2>1 DEF Whole, PointsAtFrames, FrameAt
<1>5. QED
  BY <1>2, <1>3, <1>4

\* The end of a frame the search found is where the next one starts.
LEMMA FoundLeadsToFrame ==
    ASSUME TypeOK, base <= stream.streamEnd, Outcome = "found", Whole(stream)
    PROVE  FrameAt(stream.end[FoundIn])
  BY FoundFacts DEF Whole, Intact, FrameAt

\* Entering searchFrame from the first byte of a frame.
LEMMA EnterAtFrame ==
    ASSUME IInv, NEW l \in Nat, NEW h \in Nat, Enter(l, h), UNCHANGED stream,
           l \in stream.audioStart .. stream.streamEnd,
           h \in stream.audioStart .. stream.streamEnd,
           Whole(stream) => FrameAt(l)
    PROVE  EndInv'
<1>1. /\ lo' = l /\ pc' \in {"binary", "linear"}
      /\ pc' = "linear" => base' = l
  BY EnterFacts DEF IInv
<1>2. EndMeansNoAudio'
  BY <1>1 DEF EndMeansNoAudio
<1>3. Whole(stream)' => FrameAt(lo)' /\ (pc' = "linear" => FrameAt(base)')
  BY <1>1 DEF FrameAt
<1>4. QED
  BY <1>2, <1>3 DEF EndInv, AtFrames

\* A probe of the scan that goes on keeps its base.
LEMMA EndProbeOn ==
    ASSUME IInv, EndInv, ProbeOn
    PROVE  EndInv'
<1>1. /\ TypeOK /\ pc \in Probing
      /\ UNCHANGED <<stream, nominalBlock, target, pc, lo, hi, frame, endSample>>
      /\ base <= stream.streamEnd /\ window >= 2
      /\ stream.audioStart \in Nat /\ stream.streamEnd \in Nat
  BY DEF IInv, ProbeOn, SearchBoundsInStream, ProbeInv, TypeOK, StreamOK
<1>2. EndMeansNoAudio'
  BY <1>1 DEF EndMeansNoAudio, Probing
<1>3. ASSUME Whole(stream), pc = "linear", Outcome = "advance"
      PROVE  FALSE
  <2>1. base \in Nat /\ ~(base >= stream.streamEnd)
    BY <1>3 DEF Outcome, IInv, TypeOK
  <2>2. PICK i \in Survivors(stream) : stream.start[i] = base
    BY <1>1, <1>3, <2>1 DEF EndInv, AtFrames, FrameAt
  <2>3. Outcome \in {"found", "grow"}
    BY <1>1, <1>3, <2>2, FrameHere DEF Whole
  <2>4. QED
    BY <1>3, <2>3
<1>4. Outcome # "advance" => base' = base
  BY DEF ProbeOn
<1>5. AtFrames'
  BY <1>1, <1>3, <1>4 DEF EndInv, AtFrames, FrameAt
<1>6. QED
  BY <1>2, <1>5 DEF EndInv

\* The binary search moves lo to the end of a frame it found, or not at all.
LEMMA EndBinaryProbed ==
    ASSUME IInv, EndInv, BinaryProbed
    PROVE  EndInv'
<1>1. /\ TypeOK /\ pc = "binary" /\ UNCHANGED <<stream, nominalBlock, target, endSample>>
      /\ {lo, hi} \subseteq stream.audioStart .. stream.streamEnd
      /\ base \in stream.audioStart .. stream.streamEnd
      /\ stream.audioStart \in Nat /\ stream.streamEnd \in Nat
      /\ lo \in Nat /\ hi \in Nat /\ base \in Nat /\ base <= stream.streamEnd
  BY DEF IInv, BinaryProbed, SearchBoundsInStream, Probing, TypeOK, StreamOK
<1>2. Whole(stream) => FrameAt(lo)
  BY <1>1 DEF EndInv, AtFrames
<1>3. Mid \in Nat /\ Mid \in stream.audioStart .. stream.streamEnd
  <2>1. CASE lo <= hi
    BY <1>1, <2>1 DEF Mid
  <2>2. CASE lo > hi
    BY <1>1, <2>2 DEF Mid
  <2>3. QED
    BY <1>1, <2>1, <2>2
<1>4. CASE Outcome \in {"truncated", "notfound"} /\ Enter(lo, Mid)
  BY <1>1, <1>2, <1>3, <1>4, EnterAtFrame
<1>5. CASE Outcome = "found" /\ (Enter(lo, NewHi) \/ Enter(NewLo, hi))
  <2>1. /\ FoundIn \in Cands(stream) /\ base <= stream.start[FoundIn]
        /\ stream.start[FoundIn] < stream.end[FoundIn]
        /\ stream.end[FoundIn] <= stream.streamEnd
    BY <1>1, <1>5, FoundFacts
  <2>2. stream.start[FoundIn] \in Nat /\ stream.end[FoundIn] \in Nat
    BY <1>1, <2>1 DEF TypeOK, StreamOK
  <2>3. /\ NewHi \in Nat /\ NewHi \in stream.audioStart .. stream.streamEnd
        /\ NewLo \in Nat /\ NewLo \in stream.audioStart .. stream.streamEnd
    BY <1>1, <1>3, <2>1, <2>2 DEF NewHi, NewLo
  <2>4. Whole(stream) => FrameAt(NewLo)
    BY <1>1, <1>5, FoundLeadsToFrame DEF NewLo
  <2>5. CASE Enter(lo, NewHi)
    BY <1>1, <1>2, <2>3, <2>5, EnterAtFrame
  <2>6. CASE Enter(NewLo, hi)
    BY <1>1, <2>3, <2>4, <2>6, EnterAtFrame
  <2>7. QED
    BY <1>5, <2>5, <2>6
<1>6. CASE Stop("land")
  BY <1>6 DEF Stop, EndInv, AtFrames, EndMeansNoAudio
<1>7. QED
  BY <1>4, <1>5, <1>6 DEF BinaryProbed

\* The scan says "end of stream" only when every frame is behind its base.
LEMMA EndLinearProbed ==
    ASSUME IInv, EndInv, LinearProbed
    PROVE  EndInv'
<1>1. /\ TypeOK /\ pc = "linear" /\ UNCHANGED <<stream, nominalBlock, target>>
      /\ base <= stream.streamEnd
      /\ stream.audioStart \in Nat /\ stream.streamEnd \in Nat
  BY DEF IInv, LinearProbed, SearchBoundsInStream, Probing, TypeOK, StreamOK
<1>2. CASE Outcome = "notfound" /\ Stop("end")
  <2>1. pc' = "end"
    BY <1>2 DEF Stop
  <2>2. AtFrames'
    BY <2>1 DEF AtFrames
  <2>3. SUFFICES ASSUME NominalOK(stream), HonestPoints(stream),
                        Whole(stream) \/ stream.streamEnd - stream.audioStart <= MaxWindow,
                        NEW i \in Survivors(stream)
                 PROVE  TrueEnd(stream, i) <= target
    BY <1>1, <2>2 DEF EndInv, EndMeansNoAudio, Whole
  <2>4. stream.start[i] < base
    BY <1>1, <1>2, <2>3, GivesUpLate DEF EndInv
  <2>5. QED
    BY <1>1, <2>3, <2>4 DEF IInv, BehindInv, Behind
<1>3. CASE Stop("failed") \/ Stop("land")
  BY <1>3 DEF Stop, EndInv, AtFrames, EndMeansNoAudio
<1>4. CASE /\ Outcome = "found" /\ base' = stream.end[FoundIn]
           /\ UNCHANGED <<pc, lo, hi, frame>>
  <2>1. Whole(stream) => FrameAt(base')
    BY <1>1, <1>4, FoundLeadsToFrame
  <2>2. Whole(stream) => FrameAt(lo)
    BY <1>1 DEF EndInv, AtFrames
  <2>3. AtFrames'
    BY <1>1, <1>4, <2>1, <2>2 DEF AtFrames, FrameAt
  <2>4. EndMeansNoAudio'
    BY <1>1, <1>4 DEF EndMeansNoAudio
  <2>5. QED
    BY <2>3, <2>4 DEF EndInv
<1>5. QED
  BY <1>2, <1>3, <1>4 DEF LinearProbed

\* A new call trusts a known length, or starts at a frame.
LEMMA EndSeekToSample ==
    ASSUME IInv, EndInv, NEW t \in Targets, SeekToSample(t)
    PROVE  EndInv'
<1>1. /\ TypeOK /\ t \in Nat /\ target' = t /\ UNCHANGED <<stream, nominalBlock>>
      /\ StreamOK(stream) /\ stream.total \in Nat
      /\ stream.audioStart \in Nat
  BY TargetsAssumption DEF IInv, SeekToSample, TypeOK, StreamOK
<1>2. CASE stream.total > 0 /\ t >= stream.total /\ Stop("end")
  <2>1. pc' = "end"
    BY <1>2 DEF Stop
  <2>2. AtFrames'
    BY <2>1 DEF AtFrames
  <2>3. ASSUME HonestTotal(stream), NEW i \in Survivors(stream)
        PROVE  TrueEnd(stream, i) <= t
    <3>1. TrueEnd(stream, i) <= stream.total
      BY <1>2, <2>3 DEF HonestTotal
    <3>2. TrueEnd(stream, i) \in Nat
      BY <1>1, SampleOrder
    <3>3. QED
      BY <1>1, <1>2, <3>1, <3>2
  <2>4. EndMeansNoAudio'
    BY <1>1, <2>3 DEF EndMeansNoAudio
  <2>5. QED
    BY <2>2, <2>4 DEF EndInv
<1>3. CASE pc' = "nominal"
  BY <1>3 DEF EndInv, AtFrames, EndMeansNoAudio
<1>4. CASE Enter(NarrowLo(stream, t), NarrowHi(stream, t))
  <2>1. /\ NarrowLo(stream, t) \in stream.audioStart .. stream.streamEnd
        /\ NarrowHi(stream, t) \in stream.audioStart .. stream.streamEnd
        /\ stream.streamEnd \in Nat
    BY <1>1, NarrowInStream DEF StreamOK
  <2>2. Whole(stream) => FrameAt(NarrowLo(stream, t))
    BY <1>1, NarrowedAtFrame
  <2>3. NarrowLo(stream, t) \in Nat /\ NarrowHi(stream, t) \in Nat
    BY <1>1, <2>1
  <2>4. QED
    BY <1>1, <1>4, <2>1, <2>2, <2>3, EnterAtFrame
<1>5. QED
  BY <1>2, <1>3, <1>4 DEF SeekToSample

\* The search proper starts at a frame too when the block size had to be probed.
LEMMA EndNominalProbed ==
    ASSUME IInv, EndInv, NominalProbed
    PROVE  EndInv'
<1>1. /\ TypeOK /\ target \in Nat /\ UNCHANGED <<stream, target>> /\ StreamOK(stream)
      /\ stream.audioStart \in Nat /\ stream.streamEnd \in Nat
      /\ Enter(NarrowLo(stream, target), NarrowHi(stream, target))
  BY DEF IInv, NominalProbed, TypeOK, StreamOK
<1>2. /\ NarrowLo(stream, target) \in stream.audioStart .. stream.streamEnd
      /\ NarrowHi(stream, target) \in stream.audioStart .. stream.streamEnd
  BY <1>1, NarrowInStream
<1>3. NarrowLo(stream, target) \in Nat /\ NarrowHi(stream, target) \in Nat
  BY <1>1, <1>2
<1>4. Whole(stream) => FrameAt(NarrowLo(stream, target))
  BY <1>1, NarrowedAtFrame
<1>5. QED
  BY <1>1, <1>2, <1>3, <1>4, EnterAtFrame

\* Every step keeps the second invariant.
LEMMA EndStep == IInv /\ EndInv /\ [Next]_vars => EndInv'
<1> SUFFICES ASSUME IInv, EndInv, [Next]_vars PROVE EndInv'
  OBVIOUS
<1>1. CASE SourceFails \/ Land
  <2>1. pc' \in {"failed", "landed"}
    BY <1>1 DEF SourceFails, Land, Stop
  <2>2. QED
    BY <2>1 DEF EndInv, AtFrames, EndMeansNoAudio
<1>2. CASE ProbeOn
  BY <1>2, EndProbeOn
<1>3. CASE NominalProbed
  BY <1>3, EndNominalProbed
<1>4. CASE BinaryProbed
  BY <1>4, EndBinaryProbed
<1>5. CASE LinearProbed
  BY <1>5, EndLinearProbed
<1>6. ASSUME NEW t \in Targets, SeekToSample(t)
      PROVE  EndInv'
  BY <1>6, EndSeekToSample
<1>7. CASE UNCHANGED vars
  BY <1>7 DEF vars, EndInv, AtFrames, FrameAt, EndMeansNoAudio
<1>8. QED
  BY <1>1, <1>2, <1>3, <1>4, <1>5, <1>6, <1>7 DEF Next, Step

(***************************************************************************)
(* SeekToSample says "end of stream" only when no decodable frame holds a   *)
(* sample at or after the target, in every intact stream of any length and  *)
(* in every damaged one that a single probe window covers.                  *)
(***************************************************************************)
THEOREM EndIsTheEnd == Spec => []EndMeansNoAudio
<1>1. Init => IInv /\ EndInv
  BY SeekInit DEF Init, EndInv, AtFrames, EndMeansNoAudio
<1>2. IInv /\ EndInv /\ [Next]_vars => (IInv /\ EndInv)'
  BY SeekStep, EndStep
<1>3. EndInv => EndMeansNoAudio
  BY DEF EndInv
<1>4. QED
  BY <1>1, <1>2, <1>3, PTL DEF Spec
=============================================================================
