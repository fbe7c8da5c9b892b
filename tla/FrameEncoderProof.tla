-------------------------- MODULE FrameEncoderProof ---------------------------
(***************************************************************************)
(* Proofs about FrameEncoder for every set of configurations, every block   *)
(* and sample size and any number of bytes.                                 *)
(*                                                                          *)
(* None of its properties is inductive.  What keeps them is that an encoder *)
(* that may yet emit a frame holds full blocks only: the frame number, the  *)
(* samples counted and the place of the next byte are then one number, and  *)
(* the caller, which is told of frames, can turn it into bytes.  The rest   *)
(* is where the bytes of a running call are: the frames hold the first,     *)
(* the leftover those that follow, and what is left of the slice the next.  *)
(***************************************************************************)
EXTENDS FrameEncoder, SequenceFacts

Labels == {"idle", "oneshot", "join", "blocks", "final", "check"}

Record == [num : Nat, first : Nat, samples : Nat, size : Nat, pcm : Seq(Nat)]

\* The types that the argument needs.
Typed ==
    /\ cfg \in Configs
    /\ started \in BOOLEAN /\ done \in BOOLEAN
    /\ leftover \in Seq(Nat) /\ p \in Seq(Nat) /\ frames \in Seq(Record)
    /\ frameNum \in Nat /\ total \in Nat
    /\ emitted \in Nat /\ counted \in Nat /\ offered \in Nat /\ accepted \in Nat
    /\ pc \in Labels
    /\ verdict \in {"open", "done", "failed"}

Stored == Len(Pcm)

\* Frame i of a stream, which only the last may be shorter than a block.
Block(f, i, last) ==
    /\ f.num = i - 1 /\ f.first = (i - 1) * BlockSize
    /\ f.pcm = Bytes((i - 1) * BlockBytes, Len(f.pcm))
    /\ Len(f.pcm) \in 1..BlockBytes
    /\ f.samples \in 1..BlockSize /\ f.samples * FrameLen = Len(f.pcm)
    /\ f.samples = BlockSize \/ last

\* The frames so far, and the number of the next.
Numbered ==
    /\ frameNum = Len(frames)
    /\ \A i \in 1..Len(frames) : Block(frames[i], i, done /\ i = Len(frames))

\* What total and the digest are sums of.
Summed ==
    /\ Pcm = Bytes(0, Stored)
    /\ total * FrameLen = Stored
    /\ hashed = IF cfg.skip THEN <<>> ELSE Pcm
    /\ frames # <<>> => total = (Len(frames) - 1) * BlockSize + frames[Len(frames)].samples

\* The STREAMINFO bounds of those frames.
Bounded ==
    IF frames = <<>> THEN bounds = NoBounds
    ELSE /\ bounds.minBlock = frames[1].samples /\ bounds.maxBlock = frames[1].samples
         /\ bounds.minFrame \in Nat /\ bounds.maxFrame \in Nat
         /\ \A i \in 1..Len(frames) :
                frames[i].size \in bounds.minFrame..bounds.maxFrame

\* Full blocks only.
Full ==
    /\ Stored = Len(frames) * BlockBytes
    /\ total = Len(frames) * BlockSize
    /\ \A i \in 1..Len(frames) : frames[i].samples = BlockSize

\* A frame may follow.
Going == ~done \/ pc = "final" \/ (pc = "oneshot" /\ p # <<>>)

\* Where the caller's bytes are.
Placed ==
    /\ leftover = Bytes(Stored, Len(leftover))
    /\ p = Bytes(Stored + Len(leftover), Len(p))
    /\ Len(leftover) < BlockBytes
    /\ Going => Full

\* What each step of a call relies on.
Staged ==
    /\ pc \in {"idle", "final", "check"} => p = <<>>
    /\ pc # "idle" \/ ~done => verdict = "open"
    /\ pc \in {"oneshot", "final", "check"} => done
    /\ pc \in {"join", "blocks"} => started /\ ~done
    /\ ~started \/ pc \in {"blocks", "check"} => leftover = <<>>
    /\ ~started /\ ~done => frames = <<>>
    /\ pc = "oneshot" => ~started /\ Len(p) % FrameLen = 0
    /\ pc = "join" => leftover # <<>> /\ Len(p) >= Need
    /\ pc = "final" => leftover # <<>> /\ Len(leftover) % FrameLen = 0
    /\ verdict = "done" => leftover = <<>> /\ ~Declared

\* What the caller makes of the counts it is given.
Counted ==
    /\ pc \notin {"join", "blocks"} /\ verdict # "failed" =>
           accepted = Stored + Len(leftover) + Len(p)
    /\ pc \in {"join", "blocks"} =>
           /\ offered = Stored + Len(leftover) + Len(p)
           /\ counted + emitted = Len(frames)
    /\ pc = "join" => accepted = Stored + Len(leftover) /\ emitted = 0
    /\ pc = "blocks" => accepted <= Stored
    /\ pc = "idle" /\ ~done => counted = Len(frames)

Books == Numbered /\ Summed /\ Bounded

IInv == Typed /\ Books /\ Placed /\ Staged /\ Counted

-----------------------------------------------------------------------------
(* Blocks and runs of bytes.                                                *)

\* A block has a positive number of bytes, whole samples.
LEMMA BlockSizePos ==
    /\ BlockBytes \in Nat /\ BlockBytes > 0
    /\ BlockSize \in Nat /\ BlockSize > 0 /\ FrameLen \in Nat /\ FrameLen > 0
    /\ BlockBytes % FrameLen = 0
<1>1. BlockSize \in Nat /\ FrameLen \in Nat /\ BlockSize > 0 /\ FrameLen > 0
  BY SizesAssumption
<1>2. BlockSize * FrameLen \in Nat /\ BlockSize * FrameLen > 0
  BY <1>1
<1>3. ASSUME NEW q \in Nat, NEW d \in Nat, d > 0
      PROVE  (q * d) % d = 0
  BY <1>3
<1>4. QED
  BY <1>1, <1>2, <1>3 DEF BlockBytes

\* Whole samples of at most a block are as many as their bytes make.
LEMMA WholeSamples ==
    ASSUME NEW n \in 1..BlockBytes, n % FrameLen = 0
    PROVE  /\ n \div FrameLen \in 1..BlockSize /\ (n \div FrameLen) * FrameLen = n
           /\ n = BlockBytes => n \div FrameLen = BlockSize
<1>1. ASSUME NEW q \in Nat, NEW d \in Nat, d > 0, n <= q * d, n % d = 0
      PROVE  n \div d \in 1..q /\ (n \div d) * d = n
  BY <1>1
<1>2. ASSUME NEW q \in Nat, NEW d \in Nat, d > 0
      PROVE  (q * d) \div d = q
  BY <1>2
<1>3. QED
  BY <1>1, <1>2, BlockSizePos DEF BlockBytes

\* A run of bytes is a run of naturals.
LEMMA BytesAreRun == ASSUME NEW a, NEW n PROVE Bytes(a, n) = Run(a, n)
BY DEF Bytes, Run

\* It is a sequence of naturals of the length asked for.
LEMMA BytesType ==
    ASSUME NEW a \in Nat, NEW n \in Nat
    PROVE  Bytes(a, n) \in Seq(Nat) /\ Len(Bytes(a, n)) = n
BY RunType, BytesAreRun

\* Two runs that follow one another are one run.
LEMMA BytesJoin ==
    ASSUME NEW a \in Nat, NEW n \in Nat, NEW m \in Nat
    PROVE  Bytes(a, n) \o Bytes(a + n, m) = Bytes(a, n + m)
<1>1. Run(a, n) \o Run(a + n, m) = Run(a, n + m)
  BY RunJoin
<1>2. QED
  BY <1>1, BytesAreRun, Zenon

\* What Take and Drop make of a run.
LEMMA BytesCut ==
    ASSUME NEW a \in Nat, NEW n \in Nat, NEW k \in 0..n
    PROVE  /\ Take(Bytes(a, n), k) = Bytes(a, k)
           /\ Drop(Bytes(a, n), k) = Bytes(a + k, n - k)
<1>1. n \in k..n /\ k \in 0..n /\ 0 \in 0..n /\ 0 + 1 = 1 /\ a + 0 = a /\ k - 0 = k
  OBVIOUS
<1>2. SubSeq(Run(a, n), 0 + 1, k) = Run(a + 0, k - 0)
  BY <1>1, RunCut
<1>3. SubSeq(Run(a, n), k + 1, n) = Run(a + k, n - k)
  BY <1>1, RunCut
<1>4. Bytes(a, n) = Run(a, n) /\ Bytes(a, k) = Run(a, k) /\ Bytes(a + k, n - k) = Run(a + k, n - k)
  BY BytesAreRun
<1>5. Len(Run(a, n)) = n
  BY RunType
<1>6. QED
  BY <1>1, <1>2, <1>3, <1>4, <1>5 DEF Take, Drop

\* A run of no bytes is the empty sequence.
LEMMA BytesNone == ASSUME NEW a \in Nat PROVE Bytes(a, 0) = <<>>
BY RunNone, BytesAreRun

-----------------------------------------------------------------------------
(* A frame is emitted.                                                      *)

\* The PCM of frames.
PcmOf(fs) == FlattenSeq([i \in DOMAIN fs |-> fs[i].pcm])

\* It is a sequence of sequences that is flattened.
LEMMA PcmParts ==
    ASSUME NEW fs \in Seq(Record)
    PROVE  /\ [i \in DOMAIN fs |-> fs[i].pcm] \in Seq(Seq(Nat))
           /\ Len([i \in DOMAIN fs |-> fs[i].pcm]) = Len(fs)
<1>1. PICK n \in Nat : fs \in [1..n -> Record] /\ Len(fs) = n /\ DOMAIN fs = 1..n
  BY LenProperties
<1>2. \A i \in 1..n : fs[i].pcm \in Seq(Nat)
  BY <1>1 DEF Record
<1>3. [i \in DOMAIN fs |-> fs[i].pcm] \in [1..n -> Seq(Nat)]
  BY <1>1, <1>2
<1>4. QED
  BY <1>1, <1>3

\* A further frame adds its PCM.
LEMMA PcmAppend ==
    ASSUME NEW fs \in Seq(Record), NEW f \in Record
    PROVE  PcmOf(fs) \in Seq(Nat) /\ PcmOf(Append(fs, f)) = PcmOf(fs) \o f.pcm
<1> DEFINE ss == [i \in DOMAIN fs |-> fs[i].pcm]
           tt == [i \in DOMAIN Append(fs, f) |-> Append(fs, f)[i].pcm]
<1>1. ss \in Seq(Seq(Nat)) /\ Len(ss) = Len(fs)
  BY PcmParts
<1>2. f.pcm \in Seq(Nat)
  BY DEF Record
<1>3. tt \in Seq(Seq(Nat)) /\ Len(tt) = Len(fs) + 1
  <2>1. Append(fs, f) \in Seq(Record) /\ Len(Append(fs, f)) = Len(fs) + 1
    OBVIOUS
  <2>2. QED
    BY <2>1, PcmParts
<1>4. \A i \in 1..Len(tt) : tt[i] = Append(ss, f.pcm)[i]
  BY <1>1, <1>2, <1>3
<1>5. Append(ss, f.pcm) \in Seq(Seq(Nat)) /\ Len(Append(ss, f.pcm)) = Len(fs) + 1
  BY <1>1, <1>2
<1> HIDE DEF ss, tt
<1>6. tt = Append(ss, f.pcm)
  BY <1>3, <1>4, <1>5, SeqEqual
<1>7. FlattenSeq(tt) = FlattenSeq(ss) \o f.pcm /\ FlattenSeq(ss) \in Seq(Nat)
  BY <1>1, <1>2, <1>6, FlattenAppend, FlattenType
<1>8. QED
  BY <1>7 DEF PcmOf, ss, tt

\* No frames, no PCM.
LEMMA PcmNone == PcmOf(<<>>) = <<>>
<1>1. [i \in DOMAIN <<>> |-> <<>>[i].pcm] = <<>>
  OBVIOUS
<1>2. QED
  BY <1>1, FlattenNone DEF PcmOf

\* The number of bytes stored is a natural.
LEMMA StoredIsNat == ASSUME Typed PROVE Stored \in Nat
<1>1. FlattenSeq([i \in DOMAIN frames |-> frames[i].pcm]) \in Seq(Nat)
  BY PcmParts, FlattenType DEF Typed
<1>2. QED
  BY <1>1, LenProperties DEF Stored, Pcm

\* A frame of the next n bytes, an encoder with full blocks only keeps its books, and
\* they are full blocks still unless the frame was short (emitFrame).
LEMMA EmitKeeps ==
    ASSUME Typed, Books, Full, NEW n \in 1..BlockBytes, n % FrameLen = 0,
           NEW final \in BOOLEAN, Emit(Bytes(Stored, n), final), cfg' = cfg,
           n = BlockBytes \/ (final /\ done')
    PROVE  /\ frames' \in Seq(Record) /\ frameNum' \in Nat /\ total' \in Nat
           /\ Books' /\ Len(frames') = Len(frames) + 1
           /\ Stored \in Nat /\ Stored' = Stored + n
           /\ n = BlockBytes => Full'
<1>1. PICK k \in Nat : k = Stored
  BY StoredIsNat
<1>2. PICK m \in Nat : m = Len(frames) /\ frames \in [1..m -> Record]
  BY LenProperties DEF Typed
<1>3. PICK q : q = n \div FrameLen
  OBVIOUS
<1>4. q \in 1..BlockSize /\ q \in Nat /\ q * FrameLen = n /\ (n = BlockBytes => q = BlockSize)
  BY <1>3, WholeSamples, BlockSizePos
<1>5. n \in Nat /\ BlockBytes \in Nat /\ BlockSize \in Nat /\ BlockSize > 0 /\ FrameLen \in Nat
  BY BlockSizePos
<1>6. PICK chunk : chunk = Bytes(k, n)
  OBVIOUS
<1>7. chunk \in Seq(Nat) /\ Len(chunk) = n
  BY <1>5, <1>6, BytesType
<1>8. PICK size, f :
          /\ size \in FrameSizes
          /\ f = [num |-> frameNum, first |-> total, samples |-> q, size |-> size, pcm |-> chunk]
          /\ frames' = Append(frames, f)
          /\ hashed' = IF cfg.skip THEN hashed ELSE hashed \o chunk
          /\ frameNum' = frameNum + 1 /\ total' = total + q
          /\ bounds' = Widened(size, q, final)
  BY <1>1, <1>3, <1>6, <1>7 DEF Emit
<1>9. size \in Nat /\ frameNum \in Nat /\ total \in Nat
  BY <1>8, SizesAssumption DEF Typed
<1>10. f \in Record
  BY <1>4, <1>7, <1>8, <1>9 DEF Record
<1>11. /\ f.num = frameNum /\ f.first = total /\ f.samples = q /\ f.size = size
       /\ f.pcm = chunk
  BY <1>8
<1>12. frames \in Seq(Record)
  BY DEF Typed
<1>13. /\ frames' \in Seq(Record) /\ Len(frames') = m + 1
       /\ \A i \in 1..m : frames'[i] = frames[i]
       /\ frames'[m + 1] = f
  BY <1>2, <1>8, <1>10, <1>12
<1>14. frames' # <<>> /\ \A i \in 1..(m + 1) : i \in 1..m \/ i = m + 1
  BY <1>2, <1>13, EmptySeq
<1>15. Pcm' = Bytes(0, k + n) /\ Stored' = k + n
  <2>1. Pcm = PcmOf(frames) /\ Pcm' = PcmOf(frames')
    BY DEF Pcm, PcmOf
  <2>2. Pcm' = Pcm \o chunk
    BY <2>1, <1>8, <1>10, <1>11, <1>12, PcmAppend
  <2>3. Pcm = Bytes(0, k) /\ 0 + k = k
    BY <1>1 DEF Books, Summed
  <2>4. Pcm' = Bytes(0, k) \o Bytes(0 + k, n)
    BY <2>2, <2>3, <1>6
  <2>5. Pcm' = Bytes(0, k + n)
    <3>1. 0 \in Nat /\ k \in Nat /\ n \in Nat
      BY <1>5
    <3>2. RunsJoin(0, k, n)
      BY <3>1, RunsMeet
    <3>3. Run(0, k) \o Run(0 + k, n) = Run(0, k + n)
      BY <3>2 DEF RunsJoin
    <3>4. QED
      BY <3>3, <2>4, BytesAreRun, Zenon
  <2>6. Len(Bytes(0, k + n)) = k + n
    BY <1>5, BytesType
  <2>7. QED
    BY <2>5, <2>6 DEF Stored
<1>16. Full /\ Numbered /\ Summed /\ Bounded /\ frameNum = m
  BY <1>2 DEF Books, Numbered
<1>17. /\ k = m * BlockBytes /\ total = m * BlockSize
       /\ \A i \in 1..m : frames[i].samples = BlockSize
  BY <1>16, <1>1, <1>2 DEF Full
<1>18. Numbered'
  <2>1. ASSUME NEW i \in 1..m
        PROVE  Block(frames'[i], i, (done /\ i = Len(frames))')
    <3>1. Block(frames[i], i, done /\ i = Len(frames))
      BY <1>2, <1>16 DEF Numbered
    <3>2. frames'[i] = frames[i] /\ frames[i].samples = BlockSize
      BY <1>13, <1>17
    <3>3. QED
      BY <3>1, <3>2 DEF Block
  <2>2. Block(f, m + 1, (done /\ m + 1 = Len(frames))')
    <3>1. m + 1 - 1 = m
      OBVIOUS
    <3>2. f.num = m + 1 - 1 /\ f.first = (m + 1 - 1) * BlockSize
      BY <3>1, <1>11, <1>16, <1>17
    <3>3. f.pcm = Bytes((m + 1 - 1) * BlockBytes, Len(f.pcm)) /\ Len(f.pcm) = n
      BY <3>1, <1>6, <1>7, <1>11, <1>17
    <3>4. f.samples = BlockSize \/ (done' /\ m + 1 = Len(frames'))
      BY <1>4, <1>11, <1>13
    <3>5. QED
      BY <3>2, <3>3, <3>4, <1>4, <1>11 DEF Block
  <2>3. \A i \in 1..(m + 1) : Block(frames'[i], i, (done /\ i = Len(frames))')
    BY <2>1, <2>2, <1>13, <1>14
  <2>4. frameNum' = m + 1
    BY <1>8, <1>16
  <2>5. QED
    BY <2>3, <2>4, <1>13 DEF Numbered
<1>19. Summed'
  <2>1. total' * FrameLen = k + n
    <3>1. total * FrameLen = k
      BY <1>1, <1>16 DEF Summed
    <3>2. (total + q) * FrameLen = total * FrameLen + q * FrameLen
      BY <1>4, <1>5, <1>9
    <3>3. QED
      BY <3>1, <3>2, <1>4, <1>8
  <2>2. hashed' = IF cfg'.skip THEN <<>> ELSE Pcm'
    <3>1. hashed = IF cfg.skip THEN <<>> ELSE Pcm
      BY <1>16 DEF Summed
    <3>2. Pcm' = Pcm \o chunk
      <4>1. Pcm = PcmOf(frames) /\ Pcm' = PcmOf(frames')
        BY DEF Pcm, PcmOf
      <4>2. QED
        BY <4>1, <1>8, <1>10, <1>11, <1>12, PcmAppend
    <3>3. QED
      BY <3>1, <3>2, <1>8
  <2>3. total' = (m + 1 - 1) * BlockSize + frames'[m + 1].samples
    <3>1. m + 1 - 1 = m
      OBVIOUS
    <3>2. QED
      BY <3>1, <1>8, <1>11, <1>13, <1>17
  <2>4. QED
    BY <2>1, <2>2, <2>3, <1>13, <1>15 DEF Summed
<1>20. Bounded'
  <2>1. CASE m = 0
    <3>1. frames = <<>>
      BY <2>1, <1>2, <1>12, EmptySeq
    <3>2. bounds = NoBounds
      BY <3>1, <1>16 DEF Bounded
    <3>3. bounds' = [minBlock |-> q, maxBlock |-> q, minFrame |-> size, maxFrame |-> size]
      BY <3>2, <1>8 DEF Widened
    <3>4. frames'[1] = f /\ \A i \in 1..Len(frames') : i = 1
      BY <2>1, <1>13
    <3>5. QED
      BY <3>3, <3>4, <1>9, <1>11, <1>14 DEF Bounded
  <2>2. CASE m # 0
    <3>1. frames # <<>> /\ 1 \in 1..m
      BY <2>2, <1>2, EmptySeq
    <3>2. /\ bounds.minBlock = BlockSize /\ bounds.maxBlock = BlockSize
          /\ bounds.minFrame \in Nat /\ bounds.maxFrame \in Nat
          /\ \A i \in 1..m : frames[i].size \in bounds.minFrame..bounds.maxFrame
      BY <3>1, <1>2, <1>16, <1>17 DEF Bounded
    <3>3. bounds # NoBounds
      BY <3>2, <1>5 DEF NoBounds
    <3>4. /\ bounds'.minBlock = IF final THEN bounds.minBlock ELSE Least(bounds.minBlock, q)
          /\ bounds'.maxBlock = IF final THEN bounds.maxBlock ELSE Most(bounds.maxBlock, q)
          /\ bounds'.minFrame = Least(bounds.minFrame, size)
          /\ bounds'.maxFrame = Most(bounds.maxFrame, size)
      BY <3>3, <1>8 DEF Widened
    <3>5. final \/ q = BlockSize
      BY <1>4
    <3>6. bounds'.minBlock = BlockSize /\ bounds'.maxBlock = BlockSize
      BY <3>2, <3>4, <3>5 DEF Least, Most
    <3>7. frames'[1].samples = BlockSize
      BY <3>1, <1>13, <1>17
    <3>8. /\ bounds'.minFrame \in Nat /\ bounds'.maxFrame \in Nat
          /\ bounds'.minFrame <= bounds.minFrame /\ bounds'.minFrame <= size
          /\ bounds'.maxFrame >= bounds.maxFrame /\ bounds'.maxFrame >= size
      BY <3>2, <3>4, <1>9 DEF Least, Most
    <3>9. \A i \in 1..m : frames[i].size \in bounds'.minFrame..bounds'.maxFrame
      BY <3>2, <3>8
    <3>10. \A i \in 1..(m + 1) : frames'[i].size \in bounds'.minFrame..bounds'.maxFrame
      BY <3>8, <3>9, <1>9, <1>11, <1>13, <1>14
    <3>11. QED
      BY <3>6, <3>7, <3>8, <3>10, <1>13, <1>14 DEF Bounded
  <2>3. QED
    BY <2>1, <2>2
<1>21. n = BlockBytes => Full'
  <2>1. SUFFICES ASSUME n = BlockBytes PROVE Full'
    OBVIOUS
  <2>2. k + n = (m + 1) * BlockBytes
    BY <2>1, <1>5, <1>17
  <2>3. total' = (m + 1) * BlockSize
    BY <2>1, <1>4, <1>5, <1>8, <1>17
  <2>4. \A i \in 1..(m + 1) : frames'[i].samples = BlockSize
    BY <2>1, <1>4, <1>11, <1>13, <1>14, <1>17
  <2>5. QED
    BY <2>2, <2>3, <2>4, <1>13, <1>15 DEF Full, BlockBytes
<1>22. QED
  BY <1>1, <1>2, <1>4, <1>8, <1>9, <1>13, <1>15, <1>18, <1>19, <1>20, <1>21 DEF Books

-----------------------------------------------------------------------------
(* The invariant.                                                           *)

\* A new encoder holds nothing (NewFrameEncoder).
LEMMA Initially == Init => IInv
<1> SUFFICES ASSUME Init PROVE IInv
  OBVIOUS
<1>1. /\ <<>> \in Seq(Nat) /\ <<>> \in Seq(Record) /\ Len(<<>>) = 0
      /\ \A i \in 1..Len(<<>>) : FALSE
  BY EmptySeq
<1>2. Pcm = <<>> /\ Stored = 0
  BY <1>1, PcmNone DEF Init, Pcm, PcmOf, Stored
<1>3. Bytes(0, 0) = <<>>
  BY BytesNone
<1>4. Typed
  BY <1>1 DEF Init, Typed, Labels
<1>5. Books
  <2>1. Numbered
    BY <1>1 DEF Init, Numbered
  <2>2. Summed
    BY <1>2, <1>3, BlockSizePos DEF Init, Summed
  <2>3. Bounded
    BY DEF Init, Bounded
  <2>4. QED
    BY <2>1, <2>2, <2>3 DEF Books
<1>6. Placed
  <2>1. Full
    BY <1>1, <1>2, BlockSizePos DEF Init, Full
  <2>2. QED
    BY <2>1, <1>1, <1>2, <1>3, BlockSizePos DEF Init, Placed
<1>7. Staged /\ Counted
  BY <1>1, <1>2 DEF Init, Staged, Counted
<1>8. QED
  BY <1>4, <1>5, <1>6, <1>7 DEF IInv

\* The invariant as runs of bytes: k in frames, l left over, r in the rest of the slice.
LEMMA Positions ==
    ASSUME IInv
    PROVE  \E k, l, r \in Nat :
               /\ Stored = k /\ Pcm = Bytes(0, k)
               /\ leftover = Bytes(k, l) /\ Len(leftover) = l
               /\ p = Bytes(k + l, r) /\ Len(p) = r
               /\ Need = BlockBytes - l /\ l < BlockBytes
               /\ leftover = <<>> <=> l = 0
               /\ p = <<>> <=> r = 0
<1>1. Len(leftover) \in Nat /\ Len(p) \in Nat /\ Stored \in Nat
  BY LenProperties, StoredIsNat DEF IInv, Typed
<1>2. (leftover = <<>> <=> Len(leftover) = 0) /\ (p = <<>> <=> Len(p) = 0)
  BY EmptySeq DEF IInv, Typed
<1>3. PICK k, l, r \in Nat : k = Stored /\ l = Len(leftover) /\ r = Len(p)
  BY <1>1
<1>4. WITNESS k \in Nat, l \in Nat, r \in Nat
<1>5. QED
  BY <1>2, <1>3 DEF IInv, Books, Summed, Placed, Need

\* Runs that follow one another establish it.
LEMMA InPlace ==
    ASSUME NEW k \in Nat, NEW l \in Nat, NEW r \in Nat, Stored' = k,
           leftover' = Bytes(k, l), p' = Bytes(k + l, r), l < BlockBytes,
           Going' => Full'
    PROVE  /\ Placed'
           /\ leftover' \in Seq(Nat) /\ p' \in Seq(Nat)
           /\ Len(leftover') = l /\ Len(p') = r /\ Need' = BlockBytes - l
           /\ leftover' = <<>> <=> l = 0
           /\ p' = <<>> <=> r = 0
<1>1. leftover' \in Seq(Nat) /\ Len(leftover') = l
  BY BytesType
<1>2. k + l \in Nat
  OBVIOUS
<1>3. p' \in Seq(Nat) /\ Len(p') = r
  BY <1>2, BytesType
<1>4. Need' = BlockBytes - l
  BY <1>1 DEF Need, BlockBytes
<1>5. Placed'
  BY <1>1, <1>3 DEF Placed, BlockBytes
<1>6. QED
  BY <1>1, <1>3, <1>4, <1>5, EmptySeq

\* A step that emits nothing keeps the books (emitFrame on a failed emit).
LEMMA QuietKeeps ==
    ASSUME Books, UNCHANGED <<stream, frames, cfg>>, done => done'
    PROVE  /\ Books' /\ Stored' = Stored /\ Pcm' = Pcm
           /\ Full => Full'
<1>1. /\ frames' = frames /\ frameNum' = frameNum /\ total' = total /\ hashed' = hashed
      /\ bounds' = bounds /\ cfg' = cfg
  BY DEF stream
<1>2. Pcm' = Pcm /\ Stored' = Stored
  BY <1>1 DEF Pcm, Stored
<1>3. Numbered'
  BY <1>1 DEF Books, Numbered, Block
<1>4. Summed'
  BY <1>1, <1>2 DEF Books, Summed
<1>5. Bounded'
  BY <1>1 DEF Books, Bounded
<1>6. Full => Full'
  BY <1>1, <1>2 DEF Full
<1>7. QED
  BY <1>2, <1>3, <1>4, <1>5, <1>6 DEF Books

\* The one-shot call takes its whole slice or fails at once (EncodeInterleaved).
LEMMA OneShotKeeps ==
    ASSUME IInv, NEW n \in Lengths, EncodeInterleaved(n)
    PROVE  IInv'
<1>1. /\ pc = "idle" /\ ~done /\ ~started /\ done' = TRUE /\ n \in Nat
      /\ cfg' = cfg /\ started' = started /\ leftover' = leftover /\ emitted' = emitted
      /\ UNCHANGED <<stream, frames>> /\ counted' = counted /\ offered' = offered
      /\ \/ /\ verdict' = "failed" /\ pc' = "idle" /\ p' = <<>> /\ accepted' = accepted
         \/ /\ pc' = "oneshot" /\ p' = Bytes(0, n) /\ accepted' = n /\ verdict' = verdict
            /\ n % FrameLen = 0
  BY SizesAssumption DEF EncodeInterleaved, Returns
<1>2. frames = <<>> /\ leftover = <<>> /\ verdict = "open" /\ p = <<>> /\ Full
  BY <1>1 DEF IInv, Staged, Placed, Going
<1>3. Stored = 0
  <2>1. Len(frames) = 0
    BY <1>2, EmptySeq
  <2>2. QED
    BY <2>1, <1>2, BlockSizePos DEF Full
<1>4. Books' /\ Stored' = 0 /\ Full'
  BY <1>1, <1>2, <1>3, QuietKeeps DEF IInv
<1>5. PICK r \in Nat : p' = Bytes(0 + 0, r) /\ (pc' = "oneshot" => r = n)
  <2>1. Bytes(0, 0) = <<>>
    BY BytesNone
  <2>2. QED
    BY <2>1, <1>1
<1>6. leftover' = Bytes(0, 0)
  BY <1>1, <1>2, BytesNone
<1>7. /\ Placed' /\ leftover' \in Seq(Nat) /\ p' \in Seq(Nat)
      /\ Len(leftover') = 0 /\ Len(p') = r
  BY <1>4, <1>5, <1>6, BlockSizePos, InPlace
<1>8. Typed'
  <2>1. accepted' \in Nat /\ frameNum' \in Nat /\ total' \in Nat /\ frames' \in Seq(Record)
    BY <1>1 DEF IInv, Typed, stream
  <2>2. QED
    BY <1>1, <1>7, <2>1 DEF IInv, Typed, Labels
<1>9. Staged'
  BY <1>1, <1>2, <1>5, <1>7 DEF Staged
<1>10. Counted'
  BY <1>1, <1>2, <1>4, <1>5, <1>7 DEF Counted
<1>11. QED
  BY <1>4, <1>7, <1>8, <1>9, <1>10 DEF IInv

\* A call that returns without having emitted: with an error, or at its end with the
\* check of the declared total (EncodeInterleaved, Finalize).
LEMMA ReturnKeeps ==
    ASSUME IInv, UNCHANGED <<stream, frames, cfg, started, leftover>>,
           UNCHANGED <<emitted, counted, offered, accepted>>, done',
           \/ Returns("failed")
           \/ Ends /\ pc \notin {"join", "blocks"} /\ leftover = <<>> /\ p = <<>>
                   /\ verdict # "failed"
    PROVE  IInv'
<1>1. /\ pc' = "idle" /\ p' = <<>> /\ leftover' = leftover /\ started' = started
      /\ cfg' = cfg /\ total' = total /\ verdict' \in {"done", "failed"}
      /\ emitted' = emitted /\ counted' = counted /\ offered' = offered
      /\ accepted' = accepted
  BY DEF Returns, Ends, stream
<1>2. /\ verdict' = "done" =>
          /\ pc \notin {"join", "blocks"} /\ leftover = <<>> /\ p = <<>>
          /\ verdict # "failed" /\ ~Declared
  BY DEF Returns, Ends
<1>3. Books' /\ Stored' = Stored
  BY QuietKeeps DEF IInv
<1>4. PICK k, l, r \in Nat :
          /\ Stored = k /\ leftover = Bytes(k, l) /\ Len(leftover) = l /\ Len(p) = r
          /\ l < BlockBytes /\ (leftover = <<>> <=> l = 0) /\ (p = <<>> <=> r = 0)
  BY Positions
<1>5. p' = Bytes(k + l, 0)
  BY <1>1, <1>4, BytesNone
<1>6. ~Going'
  BY <1>1 DEF Going
<1>7. /\ Placed' /\ leftover' \in Seq(Nat) /\ p' \in Seq(Nat)
      /\ Len(leftover') = l /\ Len(p') = 0
  BY <1>1, <1>3, <1>4, <1>5, <1>6, InPlace
<1>8. Typed'
  <2>1. frameNum' \in Nat /\ total' \in Nat /\ frames' \in Seq(Record) /\ done' \in BOOLEAN
    BY DEF IInv, Typed, stream
  <2>2. QED
    BY <1>1, <1>7, <2>1 DEF IInv, Typed, Labels
<1>9. Staged'
  <2>1. ~started => leftover = <<>>
    BY DEF IInv, Staged
  <2>2. Declared' = Declared
    BY <1>1 DEF Declared
  <2>3. QED
    BY <1>1, <1>2, <2>1, <2>2 DEF Staged
<1>10. Counted'
  <2>1. verdict' = "done" => accepted = k + l + r /\ r = 0
    BY <1>2, <1>4 DEF IInv, Counted
  <2>2. QED
    BY <2>1, <1>1, <1>3, <1>4, <1>7 DEF Counted
<1>11. QED
  BY <1>3, <1>7, <1>8, <1>9, <1>10 DEF IInv

\* A frame of the one-shot call: a whole block, or what is left at its end
\* (EncodeInterleaved).
LEMMA OneShotBlockKeeps ==
    ASSUME IInv, pc = "oneshot", p # <<>>, Emit(Chunk, Len(p) <= BlockBytes),
           p' = Drop(p, Len(Chunk)),
           UNCHANGED <<pc, verdict, state, emitted, counted, offered, accepted>>
    PROVE  IInv'
<1>1. /\ pc' = pc /\ verdict' = verdict /\ emitted' = emitted /\ counted' = counted
      /\ offered' = offered /\ accepted' = accepted /\ cfg' = cfg
      /\ started' = started /\ done' = done /\ leftover' = leftover
  BY DEF state
<1>2. done /\ ~started /\ leftover = <<>> /\ verdict = "open" /\ Full
  BY DEF IInv, Staged, Placed, Going
<1>3. PICK k, l, r \in Nat :
          /\ Stored = k /\ leftover = Bytes(k, l) /\ Len(leftover) = l
          /\ p = Bytes(k + l, r) /\ Len(p) = r
          /\ (leftover = <<>> <=> l = 0) /\ (p = <<>> <=> r = 0)
  BY Positions
<1>4. l = 0 /\ r > 0 /\ p = Bytes(k, r) /\ r % FrameLen = 0
  BY <1>2, <1>3 DEF IInv, Staged
<1>5. PICK n : n = Least(BlockBytes, r)
  OBVIOUS
<1>6. /\ n \in Nat /\ n \in 1..BlockBytes /\ n \in 0..r /\ r - n \in Nat
      /\ n = BlockBytes \/ (n = r /\ r <= BlockBytes)
      /\ k + n \in Nat
  BY <1>4, <1>5, BlockSizePos DEF Least
<1>7. n % FrameLen = 0 /\ (r - n) % FrameLen = 0
  <2>1. ASSUME NEW q \in Nat, NEW d \in Nat, d > 0, r % d = 0, q % d = 0, q <= r
        PROVE  (r - q) % d = 0
    <3>0. ASSUME NEW x \in Nat, x % d = 0
          PROVE  x \div d \in Nat /\ x = (x \div d) * d
      BY <2>1, <3>0
    <3>1. PICK a, b \in Nat : r = a * d /\ q = b * d
      BY <2>1, <3>0
    <3>2. a - b \in Nat /\ r - q = (a - b) * d
      BY <2>1, <3>1
    <3>3. ASSUME NEW x \in Nat PROVE (x * d) % d = 0
      BY <2>1
    <3>4. QED
      BY <3>2, <3>3
  <2>2. CASE n = r
    BY <2>2, <1>4, BlockSizePos
  <2>3. CASE n = BlockBytes
    BY <2>1, <2>3, <1>4, <1>6, BlockSizePos
  <2>4. QED
    BY <2>2, <2>3, <1>6
<1>8. Chunk = Bytes(k, n) /\ Len(Chunk) = n /\ p' = Bytes(k + n, r - n)
  <2>1. Chunk = Take(Bytes(k, r), n)
    BY <1>3, <1>4, <1>5 DEF Chunk
  <2>2. Chunk = Bytes(k, n) /\ Len(Chunk) = n
    BY <2>1, <1>6, BytesCut, BytesType
  <2>3. p' = Drop(Bytes(k, r), n)
    BY <2>2, <1>4
  <2>4. QED
    BY <2>2, <2>3, <1>6, BytesCut
<1>9. /\ frames' \in Seq(Record) /\ frameNum' \in Nat /\ total' \in Nat
      /\ Books' /\ Stored' = k + n /\ (n = BlockBytes => Full')
  <2>1. PICK final \in BOOLEAN : final <=> Len(p) <= BlockBytes
    OBVIOUS
  <2>2. Emit(Chunk, final)
    BY <2>1 DEF Emit, Widened
  <2>3. Emit(Bytes(Stored, n), final) /\ (n = BlockBytes \/ (final /\ done'))
    BY <2>1, <2>2, <1>1, <1>2, <1>3, <1>6, <1>8
  <2>4. QED
    BY <2>1, <2>3, <1>1, <1>2, <1>3, <1>6, <1>7, EmitKeeps DEF IInv
<1>10. PICK b \in Nat, c \in Nat : b = k + n /\ c = r - n
  BY <1>6
<1>11. Going' => Full'
  <2>1. SUFFICES ASSUME Going' PROVE Full'
    OBVIOUS
  <2>2. p' # <<>>
    BY <2>1, <1>1, <1>2 DEF Going
  <2>3. r - n # 0
    BY <2>2, <1>6, <1>8, BytesNone
  <2>4. QED
    BY <2>3, <1>6, <1>9
<1>12. /\ Placed' /\ leftover' \in Seq(Nat) /\ p' \in Seq(Nat)
       /\ Len(leftover') = 0 /\ Len(p') = r - n
  <2>1. leftover' = Bytes(b, 0) /\ p' = Bytes(b + 0, c) /\ Stored' = b
    BY <1>1, <1>2, <1>8, <1>9, <1>10, BytesNone
  <2>2. QED
    BY <2>1, <1>10, <1>11, BlockSizePos, InPlace
<1>13. Typed'
  BY <1>1, <1>9, <1>12 DEF IInv, Typed
<1>14. Staged'
  BY <1>1, <1>2, <1>7, <1>12 DEF Staged
<1>15. Counted'
  <2>1. accepted = k + l + r
    BY <1>2, <1>3 DEF IInv, Counted
  <2>2. QED
    BY <2>1, <1>1, <1>2, <1>4, <1>6, <1>9, <1>12 DEF Counted
<1>16. QED
  BY <1>9, <1>12, <1>13, <1>14, <1>15 DEF IInv

\* A Write too short to complete a block extends the leftover (Write).
LEMMA ShortKeeps ==
    ASSUME IInv, NEW n \in Lengths, Write(n), leftover # <<>> /\ n < Need
    PROVE  IInv'
<1>1. /\ pc = "idle" /\ ~done /\ started' = TRUE /\ emitted' = 0 /\ n \in Nat
      /\ leftover' = leftover \o Bytes(accepted, n)
      /\ accepted' = accepted + n /\ offered' = accepted + n
      /\ pc' = pc /\ p' = p /\ cfg' = cfg /\ done' = done /\ UNCHANGED <<stream, frames>>
      /\ counted' = counted /\ verdict' = verdict
  BY SizesAssumption DEF Write
<1>2. verdict = "open" /\ p = <<>> /\ Full /\ accepted \in Nat /\ counted = Len(frames)
  BY <1>1 DEF IInv, Typed, Staged, Placed, Going, Counted
<1>3. PICK k, l, r \in Nat :
          /\ Stored = k /\ leftover = Bytes(k, l) /\ Len(leftover) = l
          /\ Len(p) = r /\ (p = <<>> <=> r = 0)
          /\ Need = BlockBytes - l /\ l < BlockBytes
  BY Positions
<1>4. r = 0 /\ accepted = k + l
  BY <1>1, <1>2, <1>3 DEF IInv, Counted
<1>5. leftover' = Bytes(k, l + n)
  <2>1. leftover' = Bytes(k, l) \o Bytes(k + l, n)
    BY <1>1, <1>3, <1>4
  <2>2. QED
    BY <2>1, <1>1, BytesJoin
<1>6. l + n \in Nat /\ k + (l + n) \in Nat /\ l + n < BlockBytes
  BY <1>1, <1>3, BlockSizePos
<1>7. p' = Bytes(k + (l + n), 0)
  BY <1>1, <1>2, <1>6, BytesNone
<1>8. Books' /\ Stored' = k /\ Full'
  BY <1>1, <1>2, <1>3, QuietKeeps DEF IInv
<1>9. /\ Placed' /\ leftover' \in Seq(Nat) /\ p' \in Seq(Nat)
      /\ Len(leftover') = l + n /\ Len(p') = 0
  BY <1>5, <1>6, <1>7, <1>8, InPlace
<1>10. frames' = frames /\ frameNum' = frameNum /\ total' = total
  BY <1>1 DEF stream
<1>11. Typed'
  BY <1>1, <1>2, <1>9, <1>10 DEF IInv, Typed
<1>12. Staged'
  BY <1>1, <1>2 DEF Staged
<1>13. Counted'
  <2>1. accepted' = k + l + n
    BY <1>1, <1>4
  <2>2. Stored' + Len(leftover') + Len(p') = k + l + n
    BY <1>1, <1>8, <1>9
  <2>3. QED
    BY <2>1, <2>2, <1>1, <1>2, <1>10 DEF Counted
<1>14. QED
  BY <1>8, <1>9, <1>11, <1>12, <1>13 DEF IInv

\* Any other Write starts on the bytes that follow (Write).
LEMMA StartKeeps ==
    ASSUME IInv, NEW n \in Lengths, Write(n), ~(leftover # <<>> /\ n < Need)
    PROVE  IInv'
<1>1. /\ pc = "idle" /\ ~done /\ started' = TRUE /\ emitted' = 0 /\ n \in Nat
      /\ p' = Bytes(accepted, n) /\ offered' = accepted + n
      /\ pc' = IF leftover # <<>> THEN "join" ELSE "blocks"
      /\ leftover' = leftover /\ accepted' = accepted
      /\ cfg' = cfg /\ done' = done /\ UNCHANGED <<stream, frames>>
      /\ counted' = counted /\ verdict' = verdict
  BY SizesAssumption DEF Write
<1>2. verdict = "open" /\ p = <<>> /\ Full /\ accepted \in Nat /\ counted = Len(frames)
  BY <1>1 DEF IInv, Typed, Staged, Placed, Going, Counted
<1>3. PICK k, l, r \in Nat :
          /\ Stored = k /\ leftover = Bytes(k, l) /\ Len(leftover) = l
          /\ Len(p) = r /\ (p = <<>> <=> r = 0) /\ (leftover = <<>> <=> l = 0)
          /\ Need = BlockBytes - l /\ l < BlockBytes
  BY Positions
<1>4. r = 0 /\ accepted = k + l
  BY <1>1, <1>2, <1>3 DEF IInv, Counted
<1>5. p' = Bytes(k + l, n) /\ leftover' = Bytes(k, l)
  BY <1>1, <1>3, <1>4
<1>6. Books' /\ Stored' = k /\ Full'
  BY <1>1, <1>2, <1>3, QuietKeeps DEF IInv
<1>7. /\ Placed' /\ leftover' \in Seq(Nat) /\ p' \in Seq(Nat)
      /\ Len(leftover') = l /\ Len(p') = n /\ Need' = BlockBytes - l
  BY <1>1, <1>3, <1>5, <1>6, InPlace
<1>8. frames' = frames /\ frameNum' = frameNum /\ total' = total
  BY <1>1 DEF stream
<1>9. Typed'
  BY <1>1, <1>2, <1>7, <1>8 DEF IInv, Typed, Labels
<1>10. Staged'
  BY <1>1, <1>2, <1>3, <1>7 DEF Staged
<1>11. Counted'
  <2>1. accepted' = k + l /\ offered' = k + l + n /\ k <= Stored'
    BY <1>1, <1>4, <1>6
  <2>2. pc' = "blocks" => l = 0
    BY <1>1, <1>3
  <2>3. counted' + emitted' = Len(frames')
    BY <1>1, <1>2, <1>8, LenProperties DEF IInv, Typed
  <2>4. QED
    BY <2>1, <2>2, <2>3, <1>1, <1>3, <1>6, <1>7 DEF Counted
<1>12. QED
  BY <1>6, <1>7, <1>9, <1>10, <1>11 DEF IInv

\* Completing the leftover's block moves it and the slice's first bytes to a frame
\* (Write).
LEMMA JoinKeeps ==
    ASSUME IInv, pc = "join", Emit(Joined, FALSE), emitted' = emitted + 1,
           leftover' = <<>>, p' = Drop(p, Need), pc' = "blocks",
           UNCHANGED <<cfg, started, done, counted, offered, accepted, verdict>>
    PROVE  IInv'
<1>1. /\ cfg' = cfg /\ started' = started /\ done' = done /\ counted' = counted
      /\ offered' = offered /\ accepted' = accepted /\ verdict' = verdict
  OBVIOUS
<1>2. /\ started /\ ~done /\ verdict = "open" /\ Full /\ Len(p) >= Need
      /\ offered = Stored + Len(leftover) + Len(p) /\ counted + emitted = Len(frames)
      /\ accepted = Stored + Len(leftover) /\ counted \in Nat /\ emitted \in Nat
  BY DEF IInv, Typed, Staged, Placed, Going, Counted
<1>3. PICK k, l, r \in Nat :
          /\ Stored = k /\ leftover = Bytes(k, l) /\ Len(leftover) = l
          /\ p = Bytes(k + l, r) /\ Len(p) = r
          /\ Need = BlockBytes - l /\ l < BlockBytes
  BY Positions
<1>4. PICK n : n = Need
  OBVIOUS
<1>5. PICK b \in Nat, c \in Nat : b = k + BlockBytes /\ c = r - n
  BY <1>2, <1>3, <1>4, BlockSizePos
<1>6. n \in Nat /\ n \in 0..r /\ l + n = BlockBytes /\ k + l \in Nat /\ k + l + n = b
  BY <1>2, <1>3, <1>4, <1>5, BlockSizePos
<1>7. Joined = Bytes(k, BlockBytes) /\ p' = Bytes(b, c)
  <2>1. Take(Bytes(k + l, r), n) = Bytes(k + l, n) /\ Drop(Bytes(k + l, r), n) = Bytes(k + l + n, r - n)
    BY <1>6, BytesCut
  <2>2. Joined = Bytes(k, l) \o Bytes(k + l, n)
    BY <2>1, <1>3, <1>4 DEF Joined
  <2>3. n \in Nat /\ k \in Nat /\ l \in Nat
    BY <1>6
  <2>4. Bytes(k, l) \o Bytes(k + l, n) = Bytes(k, l + n)
    BY <2>3, BytesJoin, Zenon
  <2>5. p' = Bytes(b, c)
    BY <2>1, <1>3, <1>4, <1>5, <1>6
  <2>6. l + n = BlockBytes
    BY <1>6
  <2>7. QED
    BY <2>2, <2>4, <2>5, <2>6, Zenon
<1>8. /\ frames' \in Seq(Record) /\ frameNum' \in Nat /\ total' \in Nat
      /\ Books' /\ Len(frames') = Len(frames) + 1 /\ Stored' = b /\ Full'
  <2>1. PICK m : m = BlockBytes
    OBVIOUS
  <2>2. Bytes(Stored, m) = Joined
    BY <2>1, <1>3, <1>7
  <2>3. Emit(Bytes(Stored, m), FALSE)
    BY <2>2, Zenon
  <2>4. m \in 1..BlockBytes /\ m % FrameLen = 0
    BY <2>1, BlockSizePos
  <2>5. QED
    BY <2>1, <2>3, <2>4, <1>1, <1>2, <1>3, <1>5, EmitKeeps DEF IInv
<1>9. leftover' = Bytes(b, 0) /\ p' = Bytes(b + 0, c)
  BY <1>7, BytesNone
<1>10. /\ Placed' /\ leftover' \in Seq(Nat) /\ p' \in Seq(Nat)
       /\ Len(leftover') = 0 /\ Len(p') = c
  BY <1>8, <1>9, BlockSizePos, InPlace
<1>11. Typed'
  BY <1>1, <1>2, <1>8, <1>10 DEF IInv, Typed, Labels
<1>12. Staged'
  BY <1>1, <1>2 DEF Staged
<1>13. Counted'
  <2>1. offered' = b + 0 + c /\ accepted' <= b
    BY <1>1, <1>2, <1>3, <1>5, <1>6
  <2>2. counted' + emitted' = Len(frames')
    BY <1>1, <1>2, <1>8
  <2>3. QED
    BY <2>1, <2>2, <1>8, <1>10 DEF Counted
<1>14. QED
  BY <1>8, <1>10, <1>11, <1>12, <1>13 DEF IInv

\* A whole block of the slice becomes a frame (Write).
LEMMA BlockKeeps ==
    ASSUME IInv, pc = "blocks", Len(p) >= BlockBytes, Emit(Take(p, BlockBytes), FALSE),
           emitted' = emitted + 1, p' = Drop(p, BlockBytes),
           UNCHANGED <<state, pc, counted, offered, accepted, verdict>>
    PROVE  IInv'
<1>1. /\ cfg' = cfg /\ started' = started /\ done' = done /\ counted' = counted
      /\ offered' = offered /\ accepted' = accepted /\ verdict' = verdict
      /\ leftover' = leftover /\ pc' = pc
  BY DEF state
<1>2. /\ started /\ ~done /\ verdict = "open" /\ Full /\ leftover = <<>>
      /\ offered = Stored + Len(leftover) + Len(p) /\ counted + emitted = Len(frames)
      /\ accepted <= Stored /\ accepted \in Nat /\ counted \in Nat /\ emitted \in Nat
  BY DEF IInv, Typed, Staged, Placed, Going, Counted
<1>3. PICK k, l, r \in Nat :
          /\ Stored = k /\ Len(leftover) = l /\ p = Bytes(k + l, r) /\ Len(p) = r
          /\ (leftover = <<>> <=> l = 0)
  BY Positions
<1>4. l = 0 /\ p = Bytes(k, r)
  BY <1>2, <1>3
<1>5. PICK b \in Nat, c \in Nat : b = k + BlockBytes /\ c = r - BlockBytes
  BY <1>3, BlockSizePos
<1>6. Take(p, BlockBytes) = Bytes(k, BlockBytes) /\ p' = Bytes(b, c)
  <2>1. BlockBytes \in 0..r
    BY <1>3, BlockSizePos
  <2>2. QED
    BY <2>1, <1>4, <1>5, BytesCut
<1>7. /\ frames' \in Seq(Record) /\ frameNum' \in Nat /\ total' \in Nat
      /\ Books' /\ Len(frames') = Len(frames) + 1 /\ Stored' = b /\ Full'
  <2>1. PICK m : m = BlockBytes
    OBVIOUS
  <2>2. Bytes(Stored, m) = Take(p, BlockBytes)
    BY <2>1, <1>3, <1>6
  <2>3. Emit(Bytes(Stored, m), FALSE)
    BY <2>2, Zenon
  <2>4. m \in 1..BlockBytes /\ m % FrameLen = 0
    BY <2>1, BlockSizePos
  <2>5. QED
    BY <2>1, <2>3, <2>4, <1>1, <1>2, <1>3, <1>5, EmitKeeps DEF IInv
<1>8. leftover' = Bytes(b, 0) /\ p' = Bytes(b + 0, c)
  BY <1>1, <1>2, <1>6, BytesNone
<1>9. /\ Placed' /\ leftover' \in Seq(Nat) /\ p' \in Seq(Nat)
      /\ Len(leftover') = 0 /\ Len(p') = c
  BY <1>7, <1>8, BlockSizePos, InPlace
<1>10. Typed'
  BY <1>1, <1>2, <1>7, <1>9 DEF IInv, Typed, Labels
<1>11. Staged'
  BY <1>1, <1>2 DEF Staged
<1>12. Counted'
  <2>1. offered' = b + 0 + c /\ accepted' <= b
    BY <1>1, <1>2, <1>3, <1>4, <1>5, BlockSizePos
  <2>2. counted' + emitted' = Len(frames')
    BY <1>1, <1>2, <1>7
  <2>3. QED
    BY <2>1, <2>2, <1>1, <1>7, <1>9 DEF Counted
<1>13. QED
  BY <1>7, <1>9, <1>10, <1>11, <1>12 DEF IInv

\* From the frames a failed Write reports, the caller finds the bytes the encoder has:
\* those of the frames, and the leftover if the join has failed (Write).
LEMMA FailKeeps ==
    ASSUME IInv, pc \in {"join", "blocks"}, UNCHANGED <<stream, frames>>, WriteFails
    PROVE  IInv'
<1>1. /\ cfg' = cfg /\ started' = started /\ done' = done /\ leftover' = leftover
      /\ emitted' = emitted /\ offered' = offered /\ verdict' = verdict
      /\ counted' = counted + emitted /\ accepted' = Most(accepted, counted' * BlockBytes)
      /\ pc' = "idle" /\ p' = <<>>
  BY DEF WriteFails, Returns, state
<1>2. /\ started /\ ~done /\ verdict = "open" /\ Full /\ accepted \in Nat
      /\ counted + emitted = Len(frames) /\ counted \in Nat /\ emitted \in Nat
      /\ pc = "join" => accepted = Stored + Len(leftover)
      /\ pc = "blocks" => leftover = <<>> /\ accepted <= Stored
  BY DEF IInv, Typed, Staged, Placed, Going, Counted
<1>3. PICK k, l, r \in Nat :
          /\ Stored = k /\ leftover = Bytes(k, l) /\ Len(leftover) = l
          /\ (leftover = <<>> <=> l = 0) /\ l < BlockBytes
  BY Positions
<1>4. Books' /\ Stored' = k /\ Full'
  BY <1>1, <1>2, <1>3, QuietKeeps DEF IInv
<1>5. k + l \in Nat /\ leftover' = Bytes(k, l) /\ p' = Bytes(k + l, 0)
  BY <1>1, <1>3, BytesNone
<1>6. /\ Placed' /\ leftover' \in Seq(Nat) /\ p' \in Seq(Nat)
      /\ Len(leftover') = l /\ Len(p') = 0
  BY <1>3, <1>4, <1>5, InPlace
<1>7. accepted' = k + l
  <2>1. counted' * BlockBytes = k
    BY <1>1, <1>2, <1>3 DEF Full
  <2>2. CASE pc = "join"
    BY <2>1, <2>2, <1>1, <1>2, <1>3 DEF Most
  <2>3. CASE pc = "blocks"
    BY <2>1, <2>3, <1>1, <1>2, <1>3 DEF Most
  <2>4. QED
    BY <2>2, <2>3
<1>8. frames' = frames /\ frameNum' = frameNum /\ total' = total
  BY DEF stream
<1>9. Typed'
  BY <1>1, <1>2, <1>5, <1>6, <1>7, <1>8 DEF IInv, Typed, Labels
<1>10. Staged'
  BY <1>1, <1>2 DEF Staged
<1>11. Counted'
  BY <1>1, <1>2, <1>4, <1>6, <1>7, <1>8 DEF Counted
<1>12. QED
  BY <1>4, <1>6, <1>9, <1>10, <1>11 DEF IInv

\* What is too short for a block becomes the leftover (Write).
LEMMA StashKeeps ==
    ASSUME IInv, WriteStash
    PROVE  IInv'
<1>1. /\ cfg' = cfg /\ started' = started /\ done' = done /\ leftover' = p
      /\ emitted' = emitted /\ offered' = offered /\ verdict' = verdict
      /\ counted' = counted + emitted /\ accepted' = offered
      /\ pc' = "idle" /\ p' = <<>> /\ pc = "blocks" /\ Len(p) < BlockBytes
      /\ UNCHANGED <<stream, frames>>
  BY DEF WriteStash, Returns
<1>2. /\ started /\ ~done /\ verdict = "open" /\ Full /\ leftover = <<>>
      /\ counted + emitted = Len(frames) /\ counted \in Nat /\ emitted \in Nat
      /\ offered = Stored + Len(leftover) + Len(p) /\ offered \in Nat
  BY <1>1 DEF IInv, Typed, Staged, Placed, Going, Counted
<1>3. PICK k, l, r \in Nat :
          /\ Stored = k /\ Len(leftover) = l /\ p = Bytes(k + l, r) /\ Len(p) = r
          /\ (leftover = <<>> <=> l = 0)
  BY Positions
<1>4. l = 0 /\ p = Bytes(k, r) /\ r < BlockBytes
  BY <1>1, <1>2, <1>3
<1>5. Books' /\ Stored' = k /\ Full'
  BY <1>1, <1>2, <1>3, QuietKeeps DEF IInv
<1>6. k + r \in Nat /\ leftover' = Bytes(k, r) /\ p' = Bytes(k + r, 0)
  BY <1>1, <1>4, BytesNone
<1>7. /\ Placed' /\ leftover' \in Seq(Nat) /\ p' \in Seq(Nat)
      /\ Len(leftover') = r /\ Len(p') = 0
  BY <1>4, <1>5, <1>6, InPlace
<1>8. accepted' = k + r
  BY <1>1, <1>2, <1>3, <1>4
<1>9. frames' = frames /\ frameNum' = frameNum /\ total' = total
  BY <1>1 DEF stream
<1>10. Typed'
  BY <1>1, <1>2, <1>6, <1>7, <1>8, <1>9 DEF IInv, Typed, Labels
<1>11. Staged'
  BY <1>1, <1>2 DEF Staged
<1>12. Counted'
  BY <1>1, <1>2, <1>5, <1>7, <1>8, <1>9 DEF Counted
<1>13. QED
  BY <1>5, <1>7, <1>10, <1>11, <1>12 DEF IInv

\* Finalize with a leftover of whole samples goes on to its frame (Finalize).
LEMMA FlushKeeps ==
    ASSUME IInv, pc = "idle", ~done, started, done' = TRUE, pc' = "final",
           Len(leftover) % FrameLen = 0, leftover # <<>>, UNCHANGED <<p, verdict>>,
           UNCHANGED <<cfg, started, leftover, stream, emitted, frames, counted, offered,
                       accepted>>
    PROVE  IInv'
<1>1. /\ cfg' = cfg /\ started' = started /\ leftover' = leftover /\ emitted' = emitted
      /\ counted' = counted /\ offered' = offered /\ accepted' = accepted
      /\ verdict' = verdict /\ p' = p
      /\ frames' = frames /\ frameNum' = frameNum /\ total' = total
  BY DEF stream
<1>2. verdict = "open" /\ p = <<>> /\ Full
  BY DEF IInv, Staged, Placed, Going
<1>3. Books' /\ Stored' = Stored /\ Full'
  BY <1>2, QuietKeeps DEF IInv
<1>4. Placed'
  BY <1>1, <1>3 DEF IInv, Placed, BlockBytes
<1>5. Typed'
  BY <1>1 DEF IInv, Typed, Labels
<1>6. Staged'
  BY <1>1, <1>2 DEF Staged
<1>7. Counted'
  BY <1>1, <1>2, <1>3 DEF IInv, Counted
<1>8. QED
  BY <1>3, <1>4, <1>5, <1>6, <1>7 DEF IInv

\* Finalize's last frame takes the leftover (Finalize).
LEMMA FinalKeeps ==
    ASSUME IInv, pc = "final", Emit(leftover, TRUE), pc' = "check", leftover' = <<>>,
           UNCHANGED <<p, verdict, cfg, started, done, emitted, counted, offered, accepted>>
    PROVE  IInv'
<1>1. /\ cfg' = cfg /\ started' = started /\ done' = done /\ emitted' = emitted
      /\ counted' = counted /\ offered' = offered /\ accepted' = accepted
      /\ verdict' = verdict /\ p' = p
  OBVIOUS
<1>2. /\ done /\ verdict = "open" /\ p = <<>> /\ Full /\ leftover # <<>>
      /\ Len(leftover) % FrameLen = 0 /\ accepted = Stored + Len(leftover) + Len(p)
  BY DEF IInv, Staged, Placed, Going, Counted
<1>3. PICK k, l, r \in Nat :
          /\ Stored = k /\ leftover = Bytes(k, l) /\ Len(leftover) = l /\ Len(p) = r
          /\ (leftover = <<>> <=> l = 0) /\ (p = <<>> <=> r = 0) /\ l < BlockBytes
  BY Positions
<1>4. PICK b \in Nat : b = k + l
  OBVIOUS
<1>5. r = 0 /\ l \in 1..BlockBytes /\ l % FrameLen = 0
  BY <1>2, <1>3, BlockSizePos
<1>6. /\ frames' \in Seq(Record) /\ frameNum' \in Nat /\ total' \in Nat
      /\ Books' /\ Stored' = b
  <2>1. Bytes(Stored, l) = leftover
    BY <1>3
  <2>2. PICK final \in BOOLEAN : final = TRUE
    OBVIOUS
  <2>3. Emit(Bytes(Stored, l), final)
    BY <2>1, <2>2, Zenon
  <2>4. Typed /\ Books /\ Full /\ cfg' = cfg /\ final /\ done'
    BY <2>2, <1>1, <1>2 DEF IInv
  <2>5. /\ frames' \in Seq(Record) /\ frameNum' \in Nat /\ total' \in Nat
        /\ Books' /\ Stored' = Stored + l
    BY <2>3, <2>4, <1>5, EmitKeeps
  <2>6. QED
    BY <2>5, <1>3, <1>4
<1>7. leftover' = Bytes(b, 0) /\ p' = Bytes(b + 0, 0) /\ ~Going'
  BY <1>1, <1>2, BytesNone DEF Going
<1>8. /\ Placed' /\ leftover' \in Seq(Nat) /\ p' \in Seq(Nat)
      /\ Len(leftover') = 0 /\ Len(p') = 0
  BY <1>6, <1>7, BlockSizePos, InPlace
<1>9. Typed'
  BY <1>1, <1>6, <1>8 DEF IInv, Typed, Labels
<1>10. Staged'
  BY <1>1, <1>2 DEF Staged
<1>11. Counted'
  BY <1>1, <1>2, <1>3, <1>4, <1>5, <1>6, <1>8 DEF Counted
<1>12. QED
  BY <1>6, <1>8, <1>9, <1>10, <1>11 DEF IInv

\* Every step of the encoder keeps the invariant.
LEMMA Inductive == IInv /\ [Next]_vars => IInv'
<1> SUFFICES ASSUME IInv, [Next]_vars PROVE IInv'
  OBVIOUS
<1>1. CASE \E n \in Lengths : EncodeInterleaved(n)
  BY <1>1, OneShotKeeps
<1>2. CASE \E n \in Lengths : Write(n)
  BY <1>2, ShortKeeps, StartKeeps
<1>3. CASE OneShotBlock
  <2>1. CASE EmitFails(Chunk) /\ Returns("failed")
    <3>1. /\ UNCHANGED <<stream, frames, cfg, started, leftover>> /\ done' = done /\ done
          /\ UNCHANGED <<emitted, counted, offered, accepted>>
      BY <2>1, <1>3 DEF OneShotBlock, EmitFails, state, IInv, Staged
    <3>2. QED
      BY <3>1, <2>1, ReturnKeeps
  <2>2. CASE Emit(Chunk, Len(p) <= BlockBytes) /\ p' = Drop(p, Len(Chunk)) /\ UNCHANGED <<pc, verdict>>
    <3>1. pc = "oneshot" /\ p # <<>> /\ UNCHANGED <<state, emitted, counted, offered, accepted>>
      BY <1>3 DEF OneShotBlock
    <3>2. UNCHANGED <<pc, verdict, state, emitted, counted, offered, accepted>>
      BY <3>1, <2>2
    <3>3. QED
      BY <3>1, <3>2, <2>2, OneShotBlockKeeps
  <2>3. QED
    BY <2>1, <2>2, <1>3 DEF OneShotBlock
<1>4. CASE OneShotEnds
  <2>1. /\ UNCHANGED <<stream, frames, cfg, started, leftover>> /\ done' = done /\ done
        /\ UNCHANGED <<emitted, counted, offered, accepted>>
        /\ Ends /\ pc = "oneshot" /\ p = <<>>
    BY <1>4 DEF OneShotEnds, state, IInv, Staged
  <2>2. leftover = <<>> /\ verdict = "open"
    BY <2>1 DEF IInv, Staged
  <2>3. QED
    BY <2>1, <2>2, ReturnKeeps
<1>5. CASE WriteJoin
  <2>1. CASE EmitFails(Joined) /\ WriteFails
    BY <2>1, <1>5, FailKeeps DEF WriteJoin, EmitFails
  <2>2. CASE ~(EmitFails(Joined) /\ WriteFails)
    <3>1. /\ pc = "join" /\ Emit(Joined, FALSE) /\ emitted' = emitted + 1
          /\ leftover' = <<>> /\ p' = Drop(p, Need) /\ pc' = "blocks"
          /\ UNCHANGED <<cfg, started, done, counted, offered, accepted, verdict>>
      BY <2>2, <1>5 DEF WriteJoin
    <3>2. QED
      BY <3>1, JoinKeeps
  <2>3. QED
    BY <2>1, <2>2
<1>6. CASE WriteBlock
  <2>1. CASE EmitFails(Take(p, BlockBytes)) /\ WriteFails
    BY <2>1, <1>6, FailKeeps DEF WriteBlock, EmitFails
  <2>2. CASE ~(EmitFails(Take(p, BlockBytes)) /\ WriteFails)
    <3>1. /\ pc = "blocks" /\ Len(p) >= BlockBytes /\ Emit(Take(p, BlockBytes), FALSE)
          /\ emitted' = emitted + 1 /\ p' = Drop(p, BlockBytes)
          /\ UNCHANGED <<state, pc, counted, offered, accepted, verdict>>
      BY <2>2, <1>6 DEF WriteBlock
    <3>2. QED
      BY <3>1, BlockKeeps
  <2>3. QED
    BY <2>1, <2>2
<1>7. CASE WriteStash
  BY <1>7, StashKeeps
<1>8. CASE Finalize
  <2>1. /\ pc = "idle" /\ ~done /\ started /\ done' = TRUE
        /\ UNCHANGED <<cfg, started, leftover, stream, emitted, frames, counted, offered,
                       accepted>>
    BY <1>8 DEF Finalize
  <2>2. verdict = "open" /\ p = <<>>
    BY <2>1 DEF IInv, Staged
  <2>3. /\ UNCHANGED <<stream, frames, cfg, started, leftover>> /\ done'
        /\ UNCHANGED <<emitted, counted, offered, accepted>>
    BY <2>1
  <2>4. CASE Returns("failed")
    BY <2>3, <2>4, ReturnKeeps
  <2>5. CASE /\ Len(leftover) % FrameLen = 0 /\ leftover # <<>> /\ pc' = "final"
             /\ UNCHANGED <<p, verdict>>
    BY <2>1, <2>5, FlushKeeps
  <2>6. CASE leftover = <<>> /\ Ends
    BY <2>1, <2>2, <2>3, <2>6, ReturnKeeps
  <2>7. QED
    BY <2>4, <2>5, <2>6, <1>8 DEF Finalize
<1>9. CASE FinalBlock
  <2>1. CASE EmitFails(leftover) /\ Returns("failed") /\ UNCHANGED leftover
    <3>1. /\ UNCHANGED <<stream, frames, cfg, started, leftover>> /\ done' = done /\ done
          /\ UNCHANGED <<emitted, counted, offered, accepted>>
      BY <2>1, <1>9 DEF FinalBlock, EmitFails, IInv, Staged
    <3>2. QED
      BY <3>1, <2>1, ReturnKeeps
  <2>2. CASE Emit(leftover, TRUE) /\ pc' = "check" /\ leftover' = <<>> /\ UNCHANGED <<p, verdict>>
    <3>1. pc = "final" /\ UNCHANGED <<cfg, started, done, emitted, counted, offered, accepted>>
      BY <1>9 DEF FinalBlock
    <3>2. UNCHANGED <<p, verdict, cfg, started, done, emitted, counted, offered, accepted>>
      BY <3>1, <2>2
    <3>3. QED
      BY <3>1, <3>2, <2>2, FinalKeeps
  <2>3. QED
    BY <2>1, <2>2, <1>9 DEF FinalBlock
<1>10. CASE FinalCheck
  <2>1. /\ UNCHANGED <<stream, frames, cfg, started, leftover>> /\ done' = done /\ done
        /\ UNCHANGED <<emitted, counted, offered, accepted>>
        /\ Ends /\ pc = "check"
    BY <1>10 DEF FinalCheck, state, IInv, Staged
  <2>2. leftover = <<>> /\ verdict = "open" /\ p = <<>>
    BY <2>1 DEF IInv, Staged
  <2>3. QED
    BY <2>1, <2>2, ReturnKeeps
<1>11. CASE UNCHANGED vars
  <2>1. /\ cfg' = cfg /\ started' = started /\ done' = done /\ leftover' = leftover
        /\ pc' = pc /\ p' = p /\ emitted' = emitted /\ counted' = counted
        /\ offered' = offered /\ accepted' = accepted /\ verdict' = verdict
        /\ frames' = frames /\ frameNum' = frameNum /\ total' = total
        /\ UNCHANGED <<stream, frames, cfg>>
    BY <1>11 DEF vars, state, stream, call, caller
  <2>2. Books' /\ Stored' = Stored /\ (Full => Full')
    BY <2>1, QuietKeeps DEF IInv
  <2>3. Typed'
    BY <2>1 DEF IInv, Typed
  <2>4. Placed'
    BY <2>1, <2>2 DEF IInv, Placed, Going
  <2>5. Staged'
    BY <2>1 DEF IInv, Staged, Need, Declared
  <2>6. Counted'
    BY <2>1, <2>2 DEF IInv, Counted
  <2>7. QED
    BY <2>2, <2>3, <2>4, <2>5, <2>6 DEF IInv
<1>12. QED
  BY <1>1, <1>2, <1>3, <1>4, <1>5, <1>6, <1>7, <1>8, <1>9, <1>10, <1>11 DEF Next

\* The invariant holds of every run.
LEMMA Invariant == Spec => []IInv
BY Initially, Inductive, PTL DEF Spec

-----------------------------------------------------------------------------
(* The frames.                                                              *)

\* The invariant gives the frames of a one-shot call.
LEMMA FramesFollow == IInv => FramesOfOneShot
<1> SUFFICES ASSUME IInv PROVE FramesOfOneShot
  OBVIOUS
<1>1. DOMAIN frames = 1..Len(frames)
  BY LenProperties DEF IInv, Typed
<1>2. ASSUME NEW i \in 1..Len(frames)
      PROVE  /\ frames[i].num = i - 1
             /\ Len(frames[i].pcm) = BlockBytes \/ (done /\ i = Len(frames))
             /\ frames[i].pcm = Bytes((i - 1) * BlockBytes, Len(frames[i].pcm))
  <2>1. Block(frames[i], i, done /\ i = Len(frames))
    BY DEF IInv, Books, Numbered
  <2>2. QED
    BY <2>1, BlockSizePos DEF Block, BlockBytes
<1>3. PICK k, l, r \in Nat :
          /\ Stored = k /\ Len(leftover) = l /\ Len(p) = r
          /\ (leftover = <<>> <=> l = 0) /\ (p = <<>> <=> r = 0)
  BY Positions
<1>4. ASSUME pc = "idle", verdict # "failed"
      PROVE  accepted = Stored + Len(leftover)
  <2>1. p = <<>> /\ accepted = Stored + Len(leftover) + Len(p)
    BY <1>4 DEF IInv, Staged, Counted
  <2>2. QED
    BY <2>1, <1>3
<1>5. pc = "idle" /\ ~done => accepted = Len(Pcm) + Len(leftover)
  BY <1>4 DEF IInv, Staged, Stored
<1>6. verdict = "done" => Len(Pcm) = accepted
  <2>1. verdict = "done" => pc = "idle" /\ leftover = <<>>
    BY DEF IInv, Staged
  <2>2. QED
    BY <2>1, <1>3, <1>4 DEF Stored
<1>7. QED
  BY <1>1, <1>2, <1>5, <1>6 DEF FramesOfOneShot

\* However the input is split and whichever calls of emit fail and are made up for, the
\* frames are those of one call with the whole input, and a call that ends without an
\* error has them all (EncodeInterleaved, Write, Finalize, emitFrame).
THEOREM SameFrames == Spec => []FramesOfOneShot
BY Invariant, FramesFollow, PTL

-----------------------------------------------------------------------------
(* The STREAMINFO.                                                          *)

\* A block size that is at least a lone frame's, and a full block's if there are
\* several, maps the frames.
LEMMA MapsFrames ==
    ASSUME IInv, NEW si, si.minBlock = si.maxBlock, si.maxBlock \in Nat,
           si.maxBlock >= MinStreamBlock,
           Len(frames) > 1 => si.maxBlock = BlockSize,
           Len(frames) = 1 => frames[1].samples <= si.maxBlock
    PROVE  Maps(si)
<1>1. DOMAIN frames = 1..Len(frames) /\ Len(frames) \in Nat
  BY LenProperties DEF IInv, Typed
<1>2. ASSUME NEW i \in 1..Len(frames)
      PROVE  /\ frames[i].first = frames[i].num * si.maxBlock
             /\ frames[i].samples <= si.maxBlock
  <2>1. /\ frames[i].num = i - 1 /\ frames[i].first = (i - 1) * BlockSize
        /\ frames[i].samples \in 1..BlockSize
    BY DEF IInv, Books, Numbered, Block
  <2>2. CASE Len(frames) > 1
    BY <2>1, <2>2, BlockSizePos
  <2>3. CASE Len(frames) = 1
    <3>1. i = 1
      BY <2>3
    <3>2. QED
      BY <3>1, <2>1, <2>3, BlockSizePos
  <2>4. QED
    BY <2>2, <2>3, <1>1
<1>3. QED
  BY <1>1, <1>2 DEF Maps

\* What the invariant says of the first frame.
LEMMA FirstFrame ==
    ASSUME IInv, frames # <<>>
    PROVE  /\ Len(frames) \in Nat /\ Len(frames) >= 1
           /\ frames[1].samples \in 1..BlockSize
           /\ Len(frames) > 1 => frames[1].samples = BlockSize
<1>1. Len(frames) \in Nat /\ Len(frames) # 0
  BY EmptySeq, LenProperties DEF IInv, Typed
<1>2. Len(frames) >= 1 /\ 1 \in 1..Len(frames) /\ (Len(frames) > 1 => 1 # Len(frames))
  BY <1>1
<1>3. \A i \in 1..Len(frames) :
          /\ frames[i].samples \in 1..BlockSize
          /\ frames[i].samples = BlockSize \/ i = Len(frames)
  BY DEF IInv, Books, Numbered, Block
<1>4. frames[1].samples \in 1..BlockSize
  BY <1>2, <1>3
<1>5. frames[1].samples = BlockSize \/ 1 = Len(frames)
  BY <1>2, <1>3
<1>6. QED
  BY <1>1, <1>2, <1>4, <1>5, Zenon

\* The invariant makes the STREAMINFO true.
LEMMA InfoFollows == IInv => InfoIsTrue
<1> SUFFICES ASSUME IInv PROVE InfoIsTrue
  OBVIOUS
<1>1. /\ MinStreamBlock \in Nat /\ MinStreamBlock <= BlockSize /\ BlockSize \in Nat
      /\ cfg.declared \in Nat /\ total \in Nat
  BY SizesAssumption, ConfigsAssumption DEF IInv, Typed
<1>2. DOMAIN frames = 1..Len(frames) /\ Len(frames) \in Nat
      /\ (frames = <<>> <=> Len(frames) = 0)
  BY LenProperties, EmptySeq DEF IInv, Typed
<1>3. ASSUME pc = "idle", done
      PROVE  /\ Maps(StreamInfo)
             /\ StreamInfo.total * FrameLen = Len(Pcm)
             /\ ~cfg.skip => StreamInfo.md5 = Pcm
             /\ \A i \in DOMAIN frames :
                    frames[i].size \in StreamInfo.minFrame..StreamInfo.maxFrame
  <2>1. PICK si : si = StreamInfo
    OBVIOUS
  <2>2. /\ si.minBlock = Most(bounds.minBlock, MinStreamBlock)
        /\ si.maxBlock = Most(bounds.maxBlock, MinStreamBlock)
        /\ si.minFrame = bounds.minFrame /\ si.maxFrame = bounds.maxFrame
        /\ si.total = total /\ (~cfg.skip => si.md5 = hashed)
    BY <2>1, <1>3 DEF StreamInfo
  <2>3. CASE frames = <<>>
    <3>1. bounds.minBlock = 0 /\ bounds.maxBlock = 0
      BY <2>3 DEF IInv, Books, Bounded, NoBounds
    <3>2. Maps(si)
      BY <3>1, <2>2, <2>3, <1>1, <1>2, MapsFrames DEF Most
    <3>3. \A i \in DOMAIN frames : frames[i].size \in si.minFrame..si.maxFrame
      BY <2>3, <1>2
    <3>4. QED
      BY <3>2, <3>3, <2>1, <2>2 DEF IInv, Books, Summed, Stored
  <2>4. CASE frames # <<>>
    <3>1. /\ bounds.minBlock = frames[1].samples /\ bounds.maxBlock = frames[1].samples
          /\ \A i \in 1..Len(frames) : frames[i].size \in bounds.minFrame..bounds.maxFrame
      BY <2>4 DEF IInv, Books, Bounded
    <3>2. /\ si.minBlock = si.maxBlock /\ si.maxBlock \in Nat
          /\ si.maxBlock >= MinStreamBlock /\ frames[1].samples <= si.maxBlock
          /\ Len(frames) > 1 => si.maxBlock = BlockSize
      BY <3>1, <2>2, <2>4, <1>1, FirstFrame DEF Most
    <3>3. Maps(si)
      BY <3>2, MapsFrames
    <3>4. \A i \in DOMAIN frames : frames[i].size \in si.minFrame..si.maxFrame
      BY <3>1, <2>2, <1>2
    <3>5. QED
      BY <3>3, <3>4, <2>1, <2>2 DEF IInv, Books, Summed, Stored
  <2>5. QED
    BY <2>3, <2>4
<1>4. ASSUME verdict = "done"
      PROVE  Maps(UpfrontInfo)
  <2>1. cfg.declared = 0 \/ total = cfg.declared
    BY <1>1, <1>4 DEF IInv, Staged, Declared
  <2>2. PICK si, d : /\ si = UpfrontInfo
                     /\ d = IF cfg.declared > 0 THEN Least(cfg.declared, BlockSize) ELSE BlockSize
    OBVIOUS
  <2>3. si.minBlock = Most(d, MinStreamBlock) /\ si.maxBlock = Most(d, MinStreamBlock)
    BY <2>2 DEF UpfrontInfo
  <2>4. d \in Nat /\ d <= BlockSize
    BY <2>2, <1>1 DEF Least
  <2>5. /\ si.minBlock = si.maxBlock /\ si.maxBlock \in Nat /\ si.maxBlock >= MinStreamBlock
        /\ si.maxBlock >= d /\ (d = BlockSize => si.maxBlock = BlockSize)
    BY <2>3, <2>4, <1>1 DEF Most
  <2>6. CASE frames = <<>>
    BY <2>2, <2>5, <2>6, <1>2, MapsFrames
  <2>7. CASE frames # <<>>
    <3>1. PICK m \in Nat, s \in 1..BlockSize :
              /\ m = Len(frames) - 1 /\ s = frames[Len(frames)].samples
              /\ total = m * BlockSize + s
      <4>1. Len(frames) - 1 \in Nat /\ Len(frames) \in 1..Len(frames)
        BY <2>7, <1>2
      <4>2. frames[Len(frames)].samples \in 1..BlockSize
        BY <4>1 DEF IInv, Books, Numbered, Block
      <4>3. total = (Len(frames) - 1) * BlockSize + frames[Len(frames)].samples
        BY <2>7 DEF IInv, Books, Summed
      <4>4. QED
        BY <4>1, <4>2, <4>3
    <3>2. m = 0 => Len(frames) = 1 /\ s = frames[1].samples /\ total = s
      BY <3>1, <1>1, <1>2
    <3>3. m > 0 => total >= BlockSize
      <4>1. m > 0 => m * BlockSize >= BlockSize
        BY <1>1
      <4>2. QED
        BY <4>1, <3>1, <1>1
    <3>4. Len(frames) > 1 => d = BlockSize
      BY <3>1, <3>3, <2>1, <2>2, <1>1, <1>2 DEF Least
    <3>5. Len(frames) = 1 => frames[1].samples <= d
      BY <3>1, <3>2, <2>1, <2>2, <1>1, <1>2 DEF Least
    <3>6. Len(frames) = 1 => frames[1].samples <= si.maxBlock
      BY <3>1, <3>2, <3>5, <2>4, <2>5
    <3>7. Maps(si)
      BY <3>4, <3>6, <2>5, MapsFrames
    <3>8. QED
      BY <3>7, <2>2
  <2>8. QED
    BY <2>6, <2>7
<1>5. QED
  BY <1>3, <1>4 DEF InfoIsTrue

\* Between calls, and after one that failed, the STREAMINFO of a used-up encoder is that
\* of exactly the frames the caller accepted, and the one reported before the first
\* frame maps a stream that ended without an error (StreamInfo, emitFrame).
THEOREM InfoStaysTrue == Spec => []InfoIsTrue
BY Invariant, InfoFollows, PTL

-----------------------------------------------------------------------------
(* The refinement of PcmStream.                                             *)

\* The runs from the first byte are PcmStream's.
LEMMA CountIsBytes == ASSUME NEW n \in Nat PROVE Promise!Count(n) = Bytes(0, n)
BY DEF Promise!Count, Bytes

\* The bytes an open encoder has, in its frames, its leftover and a one-shot slice.
LEMMA TakenOpen ==
    ASSUME IInv, verdict = "open"
    PROVE  /\ Len(Pcm) \in Nat /\ Len(leftover) \in Nat /\ Len(p) \in Nat
           /\ Pcm = Bytes(0, Len(Pcm))
           /\ Taken = IF pc \in {"join", "blocks"} THEN Len(Pcm) + Len(leftover)
                      ELSE Len(Pcm) + Len(leftover) + Len(p)
           /\ pc = "idle" => Len(p) = 0
<1>1. PICK k, l, r \in Nat :
          /\ Stored = k /\ Len(leftover) = l /\ Len(p) = r /\ Pcm = Bytes(0, k)
          /\ (p = <<>> <=> r = 0)
  BY Positions
<1>2. pc = "idle" => p = <<>>
  BY DEF IInv, Staged
<1>3. Taken = IF pc \in {"join", "blocks"} THEN k + l ELSE k + l + r
  BY <1>1 DEF Taken, Stored, IInv, Counted
<1>4. QED
  BY <1>1, <1>2, <1>3 DEF Stored

\* A step that only adds to the bytes taken and to those in frames advances, if the
\* stream is open before and after.
LEMMA Advances ==
    ASSUME IInv, IInv', verdict = "open", verdict' = "open",
           Taken' >= Taken, Len(Pcm') >= Len(Pcm)
    PROVE  Promise!Advance
<1>1. Len(Pcm) \in Nat
  BY TakenOpen
<1>2. /\ total' \in Nat /\ total' * FrameLen = Len(Pcm') /\ Pcm' = Bytes(0, Len(Pcm'))
      /\ Len(leftover') \in Nat /\ Len(p') \in Nat /\ accepted' \in Nat
  BY LenProperties DEF IInv, Typed, Books, Summed, Stored
<1>3. PICK k \in Nat : k = Len(Pcm')
  <2>1. PICK t \in Nat : t = total'
    BY <1>2
  <2>2. t * FrameLen \in Nat
    BY BlockSizePos
  <2>3. QED
    BY <2>1, <2>2, <1>2
<1>4. Taken' \in Nat /\ k <= Taken'
  <2>1. CASE pc' \in {"join", "blocks"}
    BY <2>1, <1>2, <1>3 DEF Taken
  <2>2. CASE pc' \notin {"join", "blocks"}
    <3>1. accepted' = k + Len(leftover') + Len(p')
      BY <2>2, <1>3 DEF IInv, Counted, Stored
    <3>2. QED
      BY <3>1, <2>2, <1>2 DEF Taken
  <2>3. QED
    BY <2>1, <2>2
<1>5. Len(Pcm') \in Len(Pcm)..Taken'
  BY <1>1, <1>3, <1>4
<1>6. Pcm' = Promise!Count(Len(Pcm'))
  BY <1>2, <1>3, CountIsBytes
<1>7. Status = "open" /\ Status' = Status
  BY DEF Status
<1>8. QED
  BY <1>5, <1>6, <1>7 DEF Promise!Advance

\* A frame adds to the bytes in frames (emitFrame).
LEMMA EmitGrows ==
    ASSUME IInv, IInv', NEW chunk, NEW final, Emit(chunk, final)
    PROVE  Len(Pcm') >= Len(Pcm)
<1>1. PICK f, n : /\ frames' = Append(frames, f) /\ f.samples = n /\ total' = total + n
  BY DEF Emit
<1>2. frames \in Seq(Record) /\ frames' \in Seq(Record) /\ total \in Nat
  BY DEF IInv, Typed
<1>3. n \in Nat
  <2>1. PICK m \in Nat : m = Len(frames)
    BY <1>2, LenProperties
  <2>2. Len(frames') = m + 1 /\ frames'[m + 1] = f
    BY <2>1, <1>1, <1>2
  <2>3. m + 1 \in 1..Len(frames')
    BY <2>1, <2>2
  <2>4. f \in Record
    BY <2>2, <2>3, <1>2, ElementOfSeq
  <2>5. QED
    BY <2>4, <1>1 DEF Record
<1>4. total * FrameLen = Len(Pcm) /\ total' * FrameLen = Len(Pcm')
  BY DEF IInv, Books, Summed, Stored
<1>5. (total + n) * FrameLen = total * FrameLen + n * FrameLen /\ n * FrameLen \in Nat
  BY <1>2, <1>3, BlockSizePos
<1>6. total * FrameLen \in Nat
  BY <1>2, BlockSizePos
<1>7. QED
  BY <1>1, <1>4, <1>5, <1>6

\* A call that ends the stream closes it with every byte in frames, or fails it.
LEMMA EndsMap ==
    ASSUME IInv, IInv', verdict = "open", Returns("failed") \/ Ends,
           UNCHANGED <<stream, frames, accepted>>, pc \notin {"join", "blocks"}
    PROVE  Promise!Close \/ Promise!Fail
<1>1. /\ pc' = "idle" /\ verdict' \in {"failed", "done"} /\ accepted' = accepted
      /\ frames' = frames
  BY DEF Returns, Ends
<1>2. Taken' = Taken /\ Pcm' = Pcm /\ Taken = accepted
  BY <1>1 DEF Taken, Pcm
<1>3. CASE verdict' = "failed"
  BY <1>2, <1>3 DEF Promise!Fail, Status
<1>4. CASE verdict' = "done"
  <2>1. leftover' = <<>> /\ p' = <<>> /\ accepted' = Stored' + Len(leftover') + Len(p')
    BY <1>1, <1>4 DEF IInv, Staged, Counted
  <2>2. PICK k \in Nat : k = Len(Pcm) /\ Pcm = Bytes(0, k)
    BY TakenOpen
  <2>3. Stored' = k /\ Len(<<>>) = 0
    BY <1>2, <2>2, EmptySeq DEF Stored
  <2>4. accepted = k
    BY <1>1, <2>1, <2>3
  <2>5. Pcm = Promise!Count(Taken)
    BY <1>2, <2>2, <2>4, CountIsBytes
  <2>6. QED
    BY <1>2, <1>4, <2>5 DEF Promise!Close, Status
<1>5. QED
  BY <1>1, <1>3, <1>4

\* A new encoder is a new stream (NewFrameEncoder).
LEMMA StartsMap == Init => Promise!Init
<1> SUFFICES ASSUME Init PROVE Promise!Init
  OBVIOUS
<1>1. Pcm = <<>>
  BY PcmNone DEF Init, Pcm, PcmOf
<1>2. QED
  BY <1>1 DEF Init, Promise!Init, Taken, Status

\* A Write that emits moves bytes of its slice to frames, and takes them (Write).
LEMMA WritesMap ==
    ASSUME IInv, IInv', pc \in {"join", "blocks"}, pc' = "blocks", verdict' = verdict,
           offered' = offered, NEW chunk, Emit(chunk, FALSE), NEW n \in Nat,
           p' = Drop(p, n), n <= Len(p)
    PROVE  Promise!Advance
<1>1. verdict = "open"
  BY DEF IInv, Staged
<1>2. /\ Len(Pcm) \in Nat /\ Len(leftover) \in Nat /\ Len(p) \in Nat
      /\ Taken = Len(Pcm) + Len(leftover)
  BY <1>1, TakenOpen
<1>3. offered = Len(Pcm) + Len(leftover) + Len(p)
  BY DEF IInv, Counted, Stored
<1>4. offered' = Len(Pcm') + Len(leftover') + Len(p')
  BY DEF IInv, Counted, Stored
<1>5. Len(p') = Len(p) - n
  <2>1. p \in Seq(Nat) /\ n \in 0..Len(p)
    BY <1>2 DEF IInv, Typed
  <2>2. QED
    BY <2>1, CutInTwo DEF Drop
<1>6. Len(Pcm') \in Nat /\ Len(leftover') \in Nat
  <2>1. /\ total' \in Nat /\ total' * FrameLen = Len(Pcm') /\ Len(leftover') \in Nat
    BY LenProperties DEF IInv, Typed, Books, Summed, Stored
  <2>2. PICK t \in Nat : t = total'
    BY <2>1
  <2>3. t * FrameLen \in Nat
    BY BlockSizePos
  <2>4. QED
    BY <2>1, <2>2, <2>3
<1>7. Taken' = Len(Pcm') + Len(leftover')
  BY DEF Taken
<1>8. Taken' >= Taken
  BY <1>2, <1>3, <1>4, <1>5, <1>6, <1>7
<1>9. QED
  BY <1>1, <1>8, EmitGrows, Advances

\* Every step maps to a step of PcmStream or to none.
LEMMA StepsMap ==
    IInv /\ IInv' /\ [Next]_vars => [Promise!Next]_<<Taken, Pcm, Status>>
<1> SUFFICES ASSUME IInv, IInv', [Next]_vars
             PROVE  Promise!Next \/ UNCHANGED <<Taken, Pcm, Status>>
  OBVIOUS
<1>0. /\ ~done => verdict = "open"
      /\ pc # "idle" => verdict = "open"
  BY DEF IInv, Staged
<1> DEFINE Same == UNCHANGED <<Taken, Pcm, Status>>
<1>1. CASE \E n \in Lengths : EncodeInterleaved(n)
  <2>1. PICK n \in Lengths : EncodeInterleaved(n)
    BY <1>1
  <2>2. /\ pc = "idle" /\ ~done /\ ~started /\ UNCHANGED <<stream, frames>> /\ n \in Nat
        /\ \/ Returns("failed") /\ UNCHANGED accepted
           \/ pc' = "oneshot" /\ accepted' = n /\ UNCHANGED verdict
    BY <2>1, SizesAssumption DEF EncodeInterleaved
  <2>3. CASE Returns("failed") /\ UNCHANGED accepted
    BY <2>2, <2>3, <1>0, EndsMap DEF Promise!Next
  <2>4. CASE pc' = "oneshot" /\ accepted' = n /\ UNCHANGED verdict
    <3>1. frames = <<>> /\ leftover = <<>> /\ p = <<>>
      BY <2>2 DEF IInv, Staged
    <3>2. Pcm = <<>> /\ Pcm' = Pcm /\ Len(<<>>) = 0
      BY <2>2, <3>1, PcmNone, EmptySeq DEF Pcm, PcmOf
    <3>3. Taken = 0 /\ Taken' = n /\ Len(Pcm') >= Len(Pcm)
      BY <2>2, <2>4, <3>1, <3>2, <1>0, TakenOpen DEF Taken
    <3>4. Taken' >= Taken
      BY <2>2, <3>3
    <3>5. QED
      BY <2>2, <2>4, <3>3, <3>4, <1>0, Advances DEF Promise!Next
  <2>5. QED
    BY <2>2, <2>3, <2>4
<1>2. CASE \E n \in Lengths : Write(n)
  <2>1. PICK n \in Lengths : Write(n)
    BY <1>2
  <2>2. /\ pc = "idle" /\ ~done /\ verdict' = verdict /\ frames' = frames /\ n \in Nat
        /\ \/ accepted' = accepted + n /\ pc' = pc
           \/ accepted' = accepted /\ pc' \in {"join", "blocks"} /\ leftover' = leftover
    BY <2>1, SizesAssumption DEF Write
  <2>3. Pcm' = Pcm /\ verdict = "open" /\ accepted \in Nat /\ Len(Pcm) \in Nat
    BY <2>2, <1>0, TakenOpen DEF Pcm, IInv, Typed
  <2>4. Taken = accepted /\ Taken = Len(Pcm) + Len(leftover)
    BY <2>2, <2>3, TakenOpen DEF Taken
  <2>5. Taken' >= Taken
    <3>1. CASE accepted' = accepted + n /\ pc' = pc
      BY <3>1, <2>2, <2>3, <2>4 DEF Taken
    <3>2. CASE pc' \in {"join", "blocks"} /\ leftover' = leftover
      BY <3>2, <2>2, <2>3, <2>4 DEF Taken
    <3>3. QED
      BY <3>1, <3>2, <2>2
  <2>6. QED
    BY <2>2, <2>3, <2>5, Advances DEF Promise!Next
<1>3. CASE OneShotBlock
  <2>1. CASE EmitFails(Chunk) /\ Returns("failed")
    BY <2>1, <1>0, <1>3, EndsMap DEF OneShotBlock, EmitFails, Promise!Next
  <2>2. CASE Emit(Chunk, Len(p) <= BlockBytes) /\ UNCHANGED <<pc, verdict>>
    <3>1. pc = "oneshot" /\ accepted' = accepted /\ accepted \in Nat /\ verdict = "open"
      BY <1>0, <1>3 DEF OneShotBlock, IInv, Typed
    <3>2. Taken' = accepted /\ Taken = accepted
      BY <2>2, <3>1 DEF Taken
    <3>3. Len(Pcm') >= Len(Pcm)
      BY <2>2, EmitGrows
    <3>4. Taken' >= Taken
      BY <3>1, <3>2
    <3>5. QED
      BY <2>2, <3>1, <3>3, <3>4, Advances DEF Promise!Next
  <2>3. QED
    BY <2>1, <2>2, <1>3 DEF OneShotBlock
<1>4. CASE OneShotEnds \/ FinalCheck
  BY <1>0, <1>4, EndsMap DEF OneShotEnds, FinalCheck, Promise!Next
<1>5. CASE pc \in {"join", "blocks"} /\ UNCHANGED <<stream, frames>> /\ WriteFails
  <2>1. /\ pc' = "idle" /\ verdict' = verdict /\ verdict = "open" /\ leftover' = leftover
        /\ frames' = frames
    BY <1>0, <1>5 DEF WriteFails, Returns, state
  <2>2. Pcm' = Pcm /\ Len(Pcm) \in Nat /\ Len(leftover) \in Nat
    BY <2>1, TakenOpen DEF Pcm
  <2>3. accepted' = Stored' + Len(leftover') + Len(p') /\ p' = <<>> /\ Len(<<>>) = 0
    BY <2>1, EmptySeq DEF IInv, Staged, Counted
  <2>4. accepted' = Len(Pcm) + Len(leftover)
    BY <2>1, <2>2, <2>3 DEF Stored
  <2>5. Taken' = Taken
    BY <1>5, <2>1, <2>4 DEF Taken
  <2>6. QED
    BY <2>1, <2>2, <2>5 DEF Status
<1>6. CASE WriteJoin /\ ~WriteFails
  <2>1. /\ pc = "join" /\ pc' = "blocks" /\ verdict' = verdict /\ offered' = offered
        /\ Emit(Joined, FALSE) /\ p' = Drop(p, Need)
    BY <1>6 DEF WriteJoin
  <2>2. Need \in Nat /\ Need <= Len(p)
    <3>1. PICK l \in Nat : Need = BlockBytes - l /\ l < BlockBytes
      BY Positions
    <3>2. QED
      BY <3>1, <2>1, BlockSizePos DEF IInv, Staged
  <2>3. QED
    BY <2>1, <2>2, WritesMap DEF Promise!Next
<1>7. CASE WriteBlock /\ ~WriteFails
  <2>1. /\ pc = "blocks" /\ pc' = "blocks" /\ verdict' = verdict /\ offered' = offered
        /\ Emit(Take(p, BlockBytes), FALSE) /\ p' = Drop(p, BlockBytes)
        /\ BlockBytes <= Len(p)
    BY <1>7, TakenOpen, <1>0, BlockSizePos DEF WriteBlock
  <2>2. QED
    BY <2>1, BlockSizePos, WritesMap DEF Promise!Next
<1>8. CASE WriteStash
  <2>1. /\ pc = "blocks" /\ pc' = "idle" /\ verdict' = verdict /\ accepted' = offered
        /\ frames' = frames /\ verdict = "open"
    BY <1>0, <1>8 DEF WriteStash, Returns
  <2>2. /\ Pcm' = Pcm /\ Len(Pcm) \in Nat /\ Len(leftover) \in Nat /\ Len(p) \in Nat
        /\ Taken = Len(Pcm) + Len(leftover)
    BY <2>1, TakenOpen DEF Pcm
  <2>3. offered = Len(Pcm) + Len(leftover) + Len(p)
    BY <2>1 DEF IInv, Counted, Stored
  <2>4. Taken' = offered
    BY <2>1 DEF Taken
  <2>5. Taken' >= Taken /\ Len(Pcm') >= Len(Pcm)
    BY <2>2, <2>3, <2>4
  <2>6. QED
    BY <2>1, <2>5, Advances DEF Promise!Next
<1>9. CASE Finalize
  <2>1. /\ pc = "idle" /\ ~done /\ UNCHANGED <<stream, frames, accepted>>
        /\ frames' = frames /\ accepted' = accepted
        /\ Returns("failed") \/ Ends \/ (pc' = "final" /\ verdict' = verdict)
    BY <1>9 DEF Finalize
  <2>2. CASE Returns("failed") \/ Ends
    BY <2>1, <2>2, <1>0, EndsMap DEF Promise!Next
  <2>3. CASE pc' = "final" /\ verdict' = verdict
    BY <2>1, <2>3 DEF Taken, Pcm, Status
  <2>4. QED
    BY <2>1, <2>2, <2>3
<1>10. CASE FinalBlock
  <2>1. CASE EmitFails(leftover) /\ Returns("failed")
    BY <2>1, <1>0, <1>10, EndsMap DEF FinalBlock, EmitFails, Promise!Next
  <2>2. CASE Emit(leftover, TRUE) /\ pc' = "check" /\ verdict' = verdict
    <3>1. pc = "final" /\ accepted' = accepted /\ accepted \in Nat /\ verdict = "open"
      BY <1>0, <1>10 DEF FinalBlock, IInv, Typed
    <3>2. Taken' = accepted /\ Taken = accepted
      BY <2>2, <3>1 DEF Taken
    <3>3. Len(Pcm') >= Len(Pcm)
      BY <2>2, EmitGrows
    <3>4. Taken' >= Taken
      BY <3>1, <3>2
    <3>5. QED
      BY <2>2, <3>1, <3>3, <3>4, Advances DEF Promise!Next
  <2>3. QED
    BY <2>1, <2>2, <1>10 DEF FinalBlock
<1>11. CASE UNCHANGED vars
  BY <1>11 DEF vars, state, call, caller, Taken, Pcm, Status
<1>12. CASE (WriteJoin \/ WriteBlock) /\ WriteFails
  <2>1. pc \in {"join", "blocks"} /\ pc' = "idle"
    BY <1>12 DEF WriteJoin, WriteBlock, WriteFails, Returns
  <2>2. UNCHANGED <<stream, frames>>
    BY <1>12, <2>1 DEF WriteJoin, WriteBlock, EmitFails
  <2>3. QED
    BY <2>1, <2>2, <1>5, <1>12
<1>13. QED
  BY <1>1, <1>2, <1>3, <1>4, <1>6, <1>7, <1>8, <1>9, <1>10, <1>11, <1>12 DEF Next

\* The frame encoder implements PcmStream: its bytes reach the container in order, and
\* a last call without an error means that all of them did (EncodeInterleaved, Write,
\* Finalize).
THEOREM KeepsItsPromise == Spec => KeepsPromise
<1>1. Spec => []IInv
  BY Invariant
<1>2. QED
  BY <1>1, StartsMap, StepsMap, PTL DEF Spec, KeepsPromise, Promise!Spec
=============================================================================
