--------------------------- MODULE RoundTripProof ---------------------------
(***************************************************************************)
(* Proofs about Encoder, about the file that it leaves and what ReadMetadata *)
(* makes of it (StoredFile), and about decoding that file (RoundTrip): for   *)
(* every set of configurations, every block and sample size, any number of   *)
(* bytes, any leading tag, foreign block and limit.                          *)
(*                                                                          *)
(* The encoder.  NothingLostOrRepeated is not inductive.  What keeps it is   *)
(* where the bytes of a running call are: the frames hold the first bytes,   *)
(* the leftover those that follow, and the rest of the slice those that      *)
(* follow what the call has placed; a call that is past its join, and a      *)
(* Close that is past its flush, has no leftover (IInv).                     *)
(*                                                                          *)
(* The file.  What is read of it is what was meant, as the blocks meant lie  *)
(* in it one behind the other, whoever put them there (Filed), and the       *)
(* reader is at one of them with what those before it hold (Walked).         *)
(*                                                                          *)
(* The decoder.  The frames that it meets are those written, up to one that  *)
(* is cut or that a failed write has spoilt (SourceIs, Meets); what it has   *)
(* decoded and delivered is what the first of them hold (Decodes).           *)
(***************************************************************************)
EXTENDS RoundTrip, SequenceFacts

Closings == {"verify", "info", "table", "shrink", "pad", "end"}

\* The types that the argument needs.
Typed ==
    /\ audio \in Seq(Nat) /\ leftover \in Seq(Nat) /\ p \in Seq(Nat)
    /\ accepted \in Nat /\ written \in Nat
    /\ closed \in BOOLEAN
    /\ pc \in {"idle", "join", "blocks", "final"} \cup Closings
    /\ verdict \in {"open", "done", "failed", "unusable"}

\* Where the caller's bytes are.
Placed ==
    /\ audio = Bytes(0, Len(audio))
    /\ leftover = Bytes(Len(audio), Len(leftover))
    /\ p = Bytes(accepted + written, Len(p))
    /\ Len(audio) + Len(leftover) = accepted + written
    /\ Len(leftover) < BlockBytes

\* What each step of a call relies on.
Staged ==
    /\ pc \notin {"join", "blocks"} => written = 0 /\ p = <<>>
    /\ pc = "join" => written = 0 /\ Len(p) >= Need
    /\ pc \in Closings \cup {"blocks"} => leftover = <<>>
    /\ pc # "idle" => verdict = "open"
    /\ verdict = "open" => (pc \in Closings \cup {"final"} <=> closed)
    /\ verdict \in {"done", "failed"} => closed

IInv == Typed /\ Placed /\ Staged

-----------------------------------------------------------------------------
(* Runs of bytes.                                                           *)

\* A block has a positive number of bytes.
LEMMA BlockSizePos == BlockBytes \in Nat /\ BlockBytes > 0
<1>1. BlockSize \in Nat /\ FrameLen \in Nat /\ BlockSize > 0 /\ FrameLen > 0
  BY SizesAssumption
<1>2. BlockSize * FrameLen \in Nat /\ BlockSize * FrameLen > 0
  BY <1>1
<1>3. QED
  BY <1>2 DEF BlockBytes

\* A run of bytes is a run of naturals.
LEMMA BytesAreRun == ASSUME NEW a, NEW n PROVE Bytes(a, n) = Run(a, n)
BY DEF Bytes, Run

\* It is a sequence of naturals of the length asked for.
LEMMA BytesType ==
    ASSUME NEW a \in Nat, NEW n \in Nat
    PROVE  /\ Bytes(a, n) \in Seq(Nat)
           /\ Len(Bytes(a, n)) = n
           /\ \A i \in 1..n : Bytes(a, n)[i] = a + i
BY RunType, BytesAreRun

\* Two runs that follow one another are one run.
LEMMA BytesJoin ==
    ASSUME NEW a \in Nat, NEW n \in Nat, NEW m \in Nat
    PROVE  Bytes(a, n) \o Bytes(a + n, m) = Bytes(a, n + m)
<1>1. Run(a, n) \o Run(a + n, m) = Run(a, n + m)
  BY RunJoin
<1>2. QED
  BY <1>1, BytesAreRun, Zenon

\* The part of a run between two places is a run.
LEMMA BytesCut ==
    ASSUME NEW a \in Nat, NEW n \in Nat, NEW k \in 0..n, NEW l \in k..n
    PROVE  SubSeq(Bytes(a, n), k + 1, l) = Bytes(a + k, l - k)
<1>1. SubSeq(Run(a, n), k + 1, l) = Run(a + k, l - k)
  BY RunCut
<1>2. QED
  BY <1>1, BytesAreRun, Zenon

\* A run of no bytes is the empty sequence.
LEMMA BytesNone == ASSUME NEW a \in Nat PROVE Bytes(a, 0) = <<>>
BY RunNone, BytesAreRun

-----------------------------------------------------------------------------
(* The invariant.                                                           *)

\* A new encoder has taken and stored nothing (NewEncoder).
LEMMA Initially == Init => IInv
<1> SUFFICES ASSUME Init PROVE IInv
  OBVIOUS
<1>1. <<>> \in Seq(Nat) /\ Len(<<>>) = 0
  BY EmptySeq
<1>2. Typed
  BY <1>1 DEF Init, Typed
<1>3. Placed
  BY <1>1, BytesNone, BlockSizePos DEF Init, Placed
<1>4. Staged
  BY DEF Init, Staged, Closings
<1>5. QED
  BY <1>2, <1>3, <1>4 DEF IInv

\* The invariant as runs of bytes: a in the sink, l left over, r in the rest of
\* the slice.
LEMMA Positions ==
    ASSUME IInv
    PROVE  \E a, l, r \in Nat :
               /\ audio = Bytes(0, a) /\ Len(audio) = a
               /\ leftover = Bytes(a, l) /\ Len(leftover) = l
               /\ p = Bytes(a + l, r) /\ Len(p) = r
               /\ a + l = accepted + written
               /\ Need = BlockBytes - l /\ l < BlockBytes
<1>1. Len(audio) \in Nat /\ Len(leftover) \in Nat /\ Len(p) \in Nat
  BY LenProperties DEF IInv, Typed
<1>2. WITNESS Len(audio) \in Nat, Len(leftover) \in Nat, Len(p) \in Nat
<1>3. QED
  BY DEF IInv, Placed, Need

\* Runs that follow one another establish it.
LEMMA InPlace ==
    ASSUME NEW a \in Nat, NEW l \in Nat, NEW r \in Nat,
           audio' = Bytes(0, a), leftover' = Bytes(a, l), p' = Bytes(a + l, r),
           a + l = accepted' + written', l < BlockBytes
    PROVE  /\ Placed'
           /\ audio' \in Seq(Nat) /\ leftover' \in Seq(Nat) /\ p' \in Seq(Nat)
           /\ Len(leftover') = l /\ Len(p') = r /\ Need' = BlockBytes - l
<1>1. audio' \in Seq(Nat) /\ Len(audio') = a
  BY BytesType
<1>2. leftover' \in Seq(Nat) /\ Len(leftover') = l
  BY BytesType
<1>3. a + l \in Nat
  OBVIOUS
<1>4. p' \in Seq(Nat) /\ Len(p') = r
  BY <1>3, BytesType
<1>5. Need' = BlockBytes - l
  BY <1>2 DEF Need, BlockBytes
<1>6. Placed'
  BY <1>1, <1>2, <1>4 DEF Placed, BlockBytes
<1>7. QED
  BY <1>1, <1>2, <1>4, <1>5, <1>6

\* Binding a new sink starts over, also when it fails after the reset (Reset).
LEMMA FreshStarts ==
    ASSUME IInv, NEW c, Fresh(c), EmptySink, UNCHANGED call, pc = "idle",
           accepted' = 0, verdict' \in {"open", "unusable"}
    PROVE  IInv'
<1>1. /\ audio' = <<>> /\ leftover' = <<>> /\ p' = <<>> /\ written' = 0
      /\ accepted' = 0 /\ pc' = "idle" /\ closed' = FALSE
  BY DEF Fresh, EmptySink, call, IInv, Staged, Closings
<1>2. Bytes(0, 0) = <<>>
  BY BytesNone
<1>3. Placed' /\ audio' \in Seq(Nat) /\ leftover' \in Seq(Nat) /\ p' \in Seq(Nat)
  BY <1>1, <1>2, InPlace, BlockSizePos
<1>4. Typed'
  <2>1. accepted' \in Nat /\ written' \in Nat
    BY <1>1
  <2>2. closed' \in BOOLEAN
    BY <1>1, Zenon
  <2>3. verdict' \in {"open", "done", "failed", "unusable"}
    OBVIOUS
  <2>4. QED
    BY <1>1, <1>3, <2>1, <2>2, <2>3 DEF Typed
<1>5. Staged'
  BY <1>1 DEF Staged, Closings
<1>6. QED
  BY <1>3, <1>4, <1>5 DEF IInv

\* A short Write extends the leftover by the bytes it reports (Write).
LEMMA ShortKeeps ==
    ASSUME IInv, NEW n \in WriteLengths, WriteShort(n)
    PROVE  IInv'
<1>1. n \in Nat /\ written = 0 /\ accepted \in Nat
  BY SizesAssumption DEF WriteShort, IInv, Typed, Staged, Closings
<1>2. /\ accepted' = accepted + n /\ written' = 0 /\ p' = <<>> /\ pc' = "idle"
      /\ audio' = audio /\ closed' = closed /\ verdict' = verdict /\ pc = "idle"
      /\ n < Need /\ leftover' = leftover \o Bytes(accepted, n)
  BY DEF WriteShort, Return, sink
<1>3. PICK a, l \in Nat :
          /\ audio = Bytes(0, a) /\ leftover = Bytes(a, l)
          /\ a + l = accepted /\ Need = BlockBytes - l
  BY <1>1, Positions
<1>4. leftover' = Bytes(a, l + n)
  <2>1. leftover' = Bytes(a, l) \o Bytes(a + l, n)
    BY <1>2, <1>3
  <2>2. QED
    BY <2>1, <1>1, BytesJoin
<1>5. p' = Bytes(a + (l + n), 0)
  BY <1>1, <1>2, BytesNone
<1>6. l + n \in Nat /\ a + (l + n) = accepted' + written' /\ l + n < BlockBytes
  BY <1>1, <1>2, <1>3, BlockSizePos
<1>7. Placed' /\ audio' \in Seq(Nat) /\ leftover' \in Seq(Nat) /\ p' \in Seq(Nat)
  BY <1>2, <1>3, <1>4, <1>5, <1>6, InPlace
<1>8. Typed'
  BY <1>1, <1>2, <1>7 DEF IInv, Typed
<1>9. Staged'
  BY <1>2 DEF IInv, Staged, Closings
<1>10. QED
  BY <1>7, <1>8, <1>9 DEF IInv

\* Any other Write starts on the bytes that follow those consumed (Write).
LEMMA StartKeeps ==
    ASSUME IInv, NEW n \in WriteLengths, WriteStarts(n)
    PROVE  IInv'
<1>1. /\ n \in Nat /\ written = 0 /\ accepted \in Nat /\ verdict = "open"
  BY SizesAssumption DEF WriteStarts, Usable, IInv, Typed, Staged, Closings
<1>2. /\ p' = Bytes(accepted, n) /\ p' \in Seq(Nat) /\ Len(p') = n
  BY <1>1, BytesType DEF WriteStarts
<1>3. /\ accepted' = accepted /\ written' = written /\ leftover' = leftover
      /\ audio' = audio /\ closed' = closed /\ verdict' = verdict /\ ~closed
      /\ pc' = IF leftover # <<>> THEN "join" ELSE "blocks"
      /\ leftover = <<>> \/ n >= Need
  BY DEF WriteStarts, sink
<1>4. Typed'
  BY <1>2, <1>3 DEF IInv, Typed
<1>5. Placed'
  BY <1>1, <1>2, <1>3 DEF IInv, Placed
<1>6. Staged'
  BY <1>1, <1>2, <1>3 DEF IInv, Staged, Closings, Need
<1>7. QED
  BY <1>4, <1>5, <1>6 DEF IInv

\* Completing the leftover's block places it and the slice's first bytes (Write).
LEMMA JoinKeeps ==
    ASSUME IInv, WriteJoin
    PROVE  IInv'
<1>1. /\ audio' = audio \o (leftover \o SubSeq(p, 1, Need))
      /\ leftover' = <<>> /\ p' = SubSeq(p, Need + 1, Len(p)) /\ written' = Need
      /\ pc = "join" /\ pc' = "blocks"
      /\ accepted' = accepted /\ closed' = closed /\ verdict' = verdict
  BY DEF WriteJoin, Emit
<1>2. written = 0 /\ Len(p) >= Need /\ accepted \in Nat
  BY <1>1 DEF IInv, Typed, Staged, Closings
<1>3. PICK a, l, r \in Nat :
          /\ audio = Bytes(0, a) /\ leftover = Bytes(a, l)
          /\ p = Bytes(a + l, r) /\ Len(p) = r
          /\ a + l = accepted + written
          /\ Need = BlockBytes - l /\ l < BlockBytes
  BY Positions
<1> DEFINE k == Need
<1>4. k \in 0..r /\ k \in Nat /\ r \in k..r /\ 0 \in 0..r /\ k \in 0..r /\ a + l \in Nat
  BY <1>2, <1>3, BlockSizePos
<1>5. SubSeq(p, 1, k) = Bytes(a + l, k)
  <2>1. SubSeq(p, 0 + 1, k) = Bytes(a + l + 0, k - 0)
    BY <1>3, <1>4, BytesCut
  <2>2. QED
    BY <2>1, <1>4
<1>6. p' = Bytes(a + (l + k) + 0, r - k)
  <2>1. SubSeq(Bytes(a + l, r), k + 1, r) = Bytes(a + l + k, r - k)
    BY <1>4, BytesCut
  <2>2. a + l + k = a + (l + k) + 0
    BY <1>4
  <2>3. QED
    BY <2>1, <2>2, <1>1, <1>3
<1> HIDE DEF k
<1>7. /\ audio' = audio \o (leftover \o SubSeq(p, 1, k))
       /\ written' = k /\ accepted' = accepted
  BY <1>1 DEF k
<1>8. leftover \o SubSeq(p, 1, k) = Bytes(a, l + k)
  <2>1. leftover \o SubSeq(p, 1, k) = Bytes(a, l) \o Bytes(a + l, k)
    BY <1>3, <1>5
  <2>2. QED
    BY <2>1, <1>4, BytesJoin
<1>9. audio' = Bytes(0, a + (l + k))
  <2>1. audio' = Bytes(0, a) \o Bytes(0 + a, l + k)
    <3>1. 0 + a = a
      OBVIOUS
    <3>2. QED
      BY <3>1, <1>7, <1>3, <1>8
  <2>2. l + k \in Nat
    BY <1>4
  <2>3. QED
    BY <2>1, <2>2, BytesJoin
<1>10. a + (l + k) \in Nat /\ r - k \in Nat
  BY <1>4
<1>11. leftover' = Bytes(a + (l + k), 0)
  BY <1>1, <1>10, BytesNone
<1>12. a + (l + k) + 0 = accepted' + written'
  BY <1>7, <1>2, <1>3, <1>4
<1>13. Placed' /\ audio' \in Seq(Nat) /\ leftover' \in Seq(Nat) /\ p' \in Seq(Nat)
  BY <1>6, <1>9, <1>10, <1>11, <1>12, InPlace, BlockSizePos
<1>14. Typed'
  BY <1>1, <1>7, <1>4, <1>13 DEF IInv, Typed
<1>15. Staged'
  BY <1>1 DEF IInv, Staged, Closings
<1>16. QED
  BY <1>13, <1>14, <1>15 DEF IInv

\* A whole block of the slice is placed (Write).
LEMMA BlockKeeps ==
    ASSUME IInv, WriteBlock
    PROVE  IInv'
<1>1. /\ audio' = audio \o SubSeq(p, 1, BlockBytes)
      /\ p' = SubSeq(p, BlockBytes + 1, Len(p)) /\ written' = written + BlockBytes
      /\ pc = "blocks" /\ pc' = pc /\ leftover' = leftover
      /\ accepted' = accepted /\ closed' = closed /\ verdict' = verdict
      /\ Len(p) >= BlockBytes
  BY DEF WriteBlock, Emit
<1>2. leftover = <<>> /\ accepted \in Nat /\ written \in Nat
  BY <1>1 DEF IInv, Typed, Staged, Closings
<1>3. PICK a, l, r \in Nat :
          /\ audio = Bytes(0, a)
          /\ leftover = Bytes(a, l) /\ Len(leftover) = l
          /\ p = Bytes(a + l, r) /\ Len(p) = r
          /\ a + l = accepted + written
  BY Positions
<1>4. l = 0 /\ p = Bytes(a, r)
  <2>1. l = 0
    BY <1>2, <1>3, EmptySeq
  <2>2. QED
    BY <2>1, <1>3
<1> DEFINE k == BlockBytes
<1>5. k \in 0..r /\ k \in Nat /\ r \in k..r /\ 0 \in 0..r /\ a + k \in Nat /\ r - k \in Nat
  BY <1>1, <1>3, BlockSizePos
<1> HIDE DEF k
<1>6. SubSeq(p, 1, k) = Bytes(a, k)
  <2>1. SubSeq(Bytes(a, r), 0 + 1, k) = Bytes(a + 0, k - 0)
    BY <1>5, BytesCut
  <2>2. QED
    BY <2>1, <1>4, <1>5
<1>7. p' = Bytes(a + k + 0, r - k)
  <2>1. SubSeq(Bytes(a, r), k + 1, r) = Bytes(a + k, r - k)
    BY <1>5, BytesCut
  <2>2. QED
    BY <2>1, <1>1, <1>3, <1>4, <1>5 DEF k
<1>8. audio' = Bytes(0, a + k)
  <2>1. audio' = Bytes(0, a) \o Bytes(0 + a, k)
    <3>1. 0 + a = a /\ audio' = audio \o SubSeq(p, 1, k)
      BY <1>1 DEF k
    <3>2. QED
      BY <3>1, <1>3, <1>6
  <2>2. QED
    BY <2>1, <1>5, BytesJoin
<1>9. leftover' = Bytes(a + k, 0)
  BY <1>1, <1>2, <1>5, BytesNone
<1>10. a + k + 0 = accepted' + written'
  BY <1>1, <1>2, <1>3, <1>4, <1>5 DEF k
<1>11. Placed' /\ audio' \in Seq(Nat) /\ leftover' \in Seq(Nat) /\ p' \in Seq(Nat)
  BY <1>5, <1>7, <1>8, <1>9, <1>10, InPlace, BlockSizePos
<1>12. Typed'
  BY <1>1, <1>2, <1>5, <1>11 DEF IInv, Typed, k
<1>13. Staged'
  BY <1>1 DEF IInv, Staged, Closings
<1>14. QED
  BY <1>11, <1>12, <1>13 DEF IInv

\* A failed Write reports what it has placed and forgets the rest (Write).
LEMMA FailKeeps ==
    ASSUME IInv, WriteFails
    PROVE  IInv'
<1>1. /\ audio' = audio /\ leftover' = leftover /\ closed' = closed
      /\ verdict' = verdict /\ pc \in {"join", "blocks"}
      /\ accepted' = accepted + written /\ pc' = "idle" /\ p' = <<>> /\ written' = 0
  BY DEF WriteFails, EmitFails, Return
<1>2. accepted \in Nat /\ written \in Nat
  BY DEF IInv, Typed
<1>3. PICK a, l \in Nat :
          /\ audio = Bytes(0, a) /\ leftover = Bytes(a, l)
          /\ a + l = accepted + written /\ l < BlockBytes
  BY Positions
<1>4. p' = Bytes(a + l, 0) /\ a + l = accepted' + written'
  BY <1>1, <1>2, <1>3, BytesNone
<1>5. Placed' /\ audio' \in Seq(Nat) /\ leftover' \in Seq(Nat) /\ p' \in Seq(Nat)
  BY <1>1, <1>3, <1>4, InPlace
<1>6. Typed'
  BY <1>1, <1>2, <1>5 DEF IInv, Typed
<1>7. Staged'
  BY <1>1 DEF IInv, Staged, Closings
<1>8. QED
  BY <1>5, <1>6, <1>7 DEF IInv

\* What is too short for a block becomes the leftover (Write).
LEMMA StashKeeps ==
    ASSUME IInv, WriteStash
    PROVE  IInv'
<1>1. /\ audio' = audio /\ leftover' = p /\ closed' = closed
      /\ verdict' = verdict /\ pc = "blocks" /\ Len(p) < BlockBytes
      /\ accepted' = accepted + (written + Len(p))
      /\ pc' = "idle" /\ p' = <<>> /\ written' = 0
  BY DEF WriteStash, Return, sink
<1>2. accepted \in Nat /\ written \in Nat /\ leftover = <<>>
  BY <1>1 DEF IInv, Typed, Staged, Closings
<1>3. PICK a, l, r \in Nat :
          /\ audio = Bytes(0, a)
          /\ leftover = Bytes(a, l) /\ Len(leftover) = l
          /\ p = Bytes(a + l, r) /\ Len(p) = r
          /\ a + l = accepted + written
  BY Positions
<1>4. l = 0
  BY <1>2, <1>3, EmptySeq
<1>5. leftover' = Bytes(a, r) /\ r < BlockBytes /\ a + r \in Nat
  BY <1>1, <1>3, <1>4
<1>6. p' = Bytes(a + r, 0) /\ a + r = accepted' + written'
  BY <1>1, <1>2, <1>3, <1>4, <1>5, BytesNone
<1>7. Placed' /\ audio' \in Seq(Nat) /\ leftover' \in Seq(Nat) /\ p' \in Seq(Nat)
  BY <1>1, <1>3, <1>5, <1>6, InPlace
<1>8. Typed'
  <2>1. accepted' \in Nat /\ written' \in Nat
    BY <1>1, <1>2, <1>3
  <2>2. QED
    BY <2>1, <1>1, <1>7 DEF IInv, Typed
<1>9. Staged'
  BY <1>1 DEF IInv, Staged, Closings
<1>10. QED
  BY <1>7, <1>8, <1>9 DEF IInv

\* Close's last frame takes the leftover (Close).
LEMMA FinalKeeps ==
    ASSUME IInv, CloseFinal
    PROVE  IInv'
<1>1. /\ audio' = audio \o leftover /\ leftover' = <<>> /\ closed' = closed
      /\ verdict' = verdict /\ pc = "final" /\ pc' = "verify"
      /\ p' = p /\ written' = written /\ accepted' = accepted
  BY DEF CloseFinal, Emit
<1>2. PICK a, l, r \in Nat :
          /\ audio = Bytes(0, a) /\ leftover = Bytes(a, l)
          /\ p = Bytes(a + l, r) /\ a + l = accepted + written
  BY Positions
<1>3. audio' = Bytes(0, a + l)
  <2>1. audio' = Bytes(0, a) \o Bytes(0 + a, l)
    BY <1>1, <1>2
  <2>2. QED
    BY <2>1, BytesJoin
<1>4. a + l \in Nat /\ leftover' = Bytes(a + l, 0) /\ p' = Bytes(a + l + 0, r)
  BY <1>1, <1>2, BytesNone
<1>5. a + l + 0 = accepted' + written'
  BY <1>1, <1>2
<1>6. Placed' /\ audio' \in Seq(Nat) /\ leftover' \in Seq(Nat) /\ p' \in Seq(Nat)
  BY <1>3, <1>4, <1>5, InPlace, BlockSizePos
<1>7. Typed'
  BY <1>1, <1>6 DEF IInv, Typed, Closings
<1>8. Staged'
  BY <1>1 DEF IInv, Staged, Closings
<1>9. QED
  BY <1>6, <1>7, <1>8 DEF IInv

\* No other step of Close, and no rejected Reset, moves a byte.
LEMMA OthersKeep ==
    ASSUME IInv,
           \/ Close \/ CloseFinalFails \/ CloseVerify \/ ClosePatches
           \/ ClosePatchFails \/ CloseEnds \/ \E c \in Configs : ResetRejected(c)
    PROVE  IInv'
<1>1. UNCHANGED <<audio, leftover, p, written, accepted>>
  BY DEF Close, CloseFinalFails, EmitFails, CloseVerify, ClosePatches, ClosePatchFails,
         CloseEnds, ResetRejected, CloseReturns, sink, call
<1>2. Placed'
  BY <1>1 DEF IInv, Placed
<1>3. Typed' /\ Staged'
  <2>1. CASE Close
    BY <2>1, <1>1 DEF Close, CloseReturns, Usable, IInv, Typed, Staged, Closings
  <2>2. CASE CloseFinalFails
    BY <2>2, <1>1 DEF CloseFinalFails, CloseReturns, IInv, Typed, Staged, Closings
  <2>3. CASE CloseVerify
    BY <2>3, <1>1 DEF CloseVerify, CloseReturns, IInv, Typed, Staged, Closings
  <2>4. CASE ClosePatches
    BY <2>4, <1>1 DEF ClosePatches, Patched, AfterInfo, AfterTable, IInv, Typed, Staged,
                      Closings
  <2>5. CASE ClosePatchFails
    BY <2>5, <1>1 DEF ClosePatchFails, CloseReturns, IInv, Typed, Staged, Closings
  <2>6. CASE CloseEnds
    BY <2>6, <1>1 DEF CloseEnds, CloseReturns, IInv, Typed, Staged, Closings
  <2>7. CASE \E c \in Configs : ResetRejected(c)
    BY <2>7, <1>1 DEF ResetRejected, call, IInv, Typed, Staged, Closings
  <2>8. QED
    BY <2>1, <2>2, <2>3, <2>4, <2>5, <2>6, <2>7
<1>4. QED
  BY <1>2, <1>3 DEF IInv

\* Every step of the encoder keeps the invariant.
LEMMA Inductive == IInv /\ [Next]_vars => IInv'
<1> SUFFICES ASSUME IInv, [Next]_vars PROVE IInv'
  OBVIOUS
<1>1. CASE \E c \in Configs : Reset(c)
  BY <1>1, FreshStarts DEF Reset
<1>2. CASE \E c \in Configs : ResetFails(c)
  BY <1>2, FreshStarts DEF ResetFails
<1>3. CASE \E n \in WriteLengths : WriteShort(n)
  BY <1>3, ShortKeeps
<1>4. CASE \E n \in WriteLengths : WriteStarts(n)
  BY <1>4, StartKeeps
<1>5. CASE WriteJoin
  BY <1>5, JoinKeeps
<1>6. CASE WriteBlock
  BY <1>6, BlockKeeps
<1>7. CASE WriteFails
  BY <1>7, FailKeeps
<1>8. CASE WriteStash
  BY <1>8, StashKeeps
<1>9. CASE CloseFinal
  BY <1>9, FinalKeeps
<1>10. CASE \/ Close \/ CloseFinalFails \/ CloseVerify \/ ClosePatches
            \/ ClosePatchFails \/ CloseEnds \/ \E c \in Configs : ResetRejected(c)
  BY <1>10, OthersKeep
<1>11. CASE UNCHANGED vars
  <2>1. UNCHANGED <<pc, audio, leftover, p, accepted, written, closed, verdict>>
    BY <1>11 DEF vars, sink, call
  <2>2. Typed'
    BY <2>1 DEF IInv, Typed
  <2>3. Placed'
    BY <2>1 DEF IInv, Placed
  <2>4. Staged'
    BY <2>1 DEF IInv, Staged, Need
  <2>5. QED
    BY <2>2, <2>3, <2>4 DEF IInv
<1>12. QED
  BY <1>1, <1>2, <1>3, <1>4, <1>5, <1>6, <1>7, <1>8, <1>9, <1>10, <1>11
     DEF Next, Write, Closing

\* The invariant accounts for every byte consumed, once and in order.
LEMMA Accounted == IInv => NothingLostOrRepeated
<1> SUFFICES ASSUME IInv PROVE audio \o leftover = Bytes(0, accepted + written)
  BY DEF NothingLostOrRepeated
<1>1. PICK a, l \in Nat :
          /\ audio = Bytes(0, a) /\ leftover = Bytes(a, l)
          /\ a + l = accepted + written
  BY Positions
<1>2. audio \o leftover = Bytes(0, a) \o Bytes(0 + a, l)
  BY <1>1
<1>3. Bytes(0, a) \o Bytes(0 + a, l) = Bytes(0, a + l)
  BY BytesJoin
<1>4. QED
  BY <1>1, <1>2, <1>3

\* However slices are cut and whichever writes fail and are retried, the frames
\* and the leftover hold the bytes consumed, in order (Write, emitBlock, Close).
THEOREM BytesAccounted == Spec => []NothingLostOrRepeated
<1>1. Spec => []IInv
  BY Initially, Inductive, PTL DEF Spec
<1>2. QED
  BY <1>1, Accounted, PTL

-----------------------------------------------------------------------------
(* The refinement of PcmStream.                                             *)

\* The runs from the first byte are PcmStream's.
LEMMA CountIsBytes == ASSUME NEW n \in Nat PROVE Promise!Count(n) = Bytes(0, n)
BY DEF Promise!Count, Bytes

\* A step that only adds to the bytes taken and to those stored advances, if the
\* stream is open before and after.
LEMMA Advances ==
    ASSUME IInv, IInv', verdict = "open", verdict' = "open",
           accepted' + written' >= accepted + written,
           Len(audio') >= Len(audio)
    PROVE  Promise!Advance
<1>1. PICK a, l \in Nat : audio = Bytes(0, a) /\ Len(audio) = a
  BY Positions
<1>2. /\ Len(audio') \in Nat /\ Len(leftover') \in Nat
      /\ audio' = Bytes(0, Len(audio'))
      /\ Len(audio') + Len(leftover') = accepted' + written'
  BY LenProperties DEF IInv, Typed, Placed
<1>3. audio' = Promise!Count(Len(audio'))
  BY <1>2, CountIsBytes
<1>4. Len(audio') \in Len(audio)..(accepted' + written')
  BY <1>1, <1>2
<1>5. QED
  BY <1>3, <1>4 DEF Promise!Advance, Status

\* A step of Write, or the flush of Close, that takes or stores bytes advances.
LEMMA WritesAdvance ==
    ASSUME IInv, IInv',
           \/ \E n \in WriteLengths : WriteShort(n) \/ WriteStarts(n)
           \/ WriteJoin \/ WriteBlock \/ WriteStash \/ CloseFinal
    PROVE  Promise!Advance
<1>1. /\ Len(audio) \in Nat /\ Len(leftover) \in Nat /\ Len(p) \in Nat
      /\ Len(audio') \in Nat /\ Len(leftover') \in Nat
      /\ accepted \in Nat /\ written \in Nat /\ Need \in Nat
      /\ Len(audio) + Len(leftover) = accepted + written
      /\ Len(audio') + Len(leftover') = accepted' + written'
  <2>1. Need \in Nat
    BY Positions, BlockSizePos
  <2>2. QED
    BY <2>1, LenProperties DEF IInv, Typed, Placed
<1>2. Len(<<>>) = 0
  BY EmptySeq
<1>3. CASE \E n \in WriteLengths : WriteShort(n)
  <2>1. PICK n \in WriteLengths : WriteShort(n)
    BY <1>3
  <2>2. /\ pc = "idle" /\ ~closed /\ verdict # "unusable" /\ audio' = audio
        /\ accepted' = accepted + n /\ written' = 0 /\ verdict' = verdict /\ n \in Nat
    BY <2>1, SizesAssumption DEF WriteShort, Usable, Return, sink
  <2>3. verdict = "open" /\ written = 0
    BY <2>2 DEF IInv, Typed, Staged, Closings
  <2>4. QED
    BY <2>2, <2>3, <1>1, Advances
<1>4. CASE \E n \in WriteLengths : WriteStarts(n)
  <2>1. /\ pc = "idle" /\ ~closed /\ verdict # "unusable" /\ audio' = audio
        /\ accepted' = accepted /\ written' = written /\ verdict' = verdict
    BY <1>4 DEF WriteStarts, Usable, sink
  <2>2. verdict = "open"
    BY <2>1 DEF IInv, Typed, Staged, Closings
  <2>3. QED
    BY <2>1, <2>2, <1>1, Advances
<1>5. CASE WriteJoin
  <2>1. /\ pc = "join" /\ accepted' = accepted /\ written' = Need
        /\ leftover' = <<>> /\ verdict' = verdict
    BY <1>5 DEF WriteJoin
  <2>2. verdict = "open" /\ written = 0
    BY <2>1 DEF IInv, Typed, Staged, Closings
  <2>3. Len(audio') >= Len(audio) /\ accepted' + written' >= accepted + written
    BY <2>1, <2>2, <1>1, <1>2
  <2>4. QED
    BY <2>1, <2>2, <2>3, Advances
<1>6. CASE WriteBlock
  <2>1. /\ pc = "blocks" /\ accepted' = accepted /\ written' = written + BlockBytes
        /\ leftover' = leftover /\ verdict' = verdict
    BY <1>6 DEF WriteBlock
  <2>2. verdict = "open"
    BY <2>1 DEF IInv, Typed, Staged, Closings
  <2>3. Len(audio') >= Len(audio) /\ accepted' + written' >= accepted + written
    BY <2>1, <1>1, BlockSizePos
  <2>4. QED
    BY <2>1, <2>2, <2>3, Advances
<1>7. CASE WriteStash
  <2>1. /\ pc = "blocks" /\ accepted' = accepted + (written + Len(p)) /\ written' = 0
        /\ audio' = audio /\ verdict' = verdict
    BY <1>7 DEF WriteStash, Return, sink
  <2>2. verdict = "open"
    BY <2>1 DEF IInv, Typed, Staged, Closings
  <2>3. QED
    BY <2>1, <2>2, <1>1, Advances
<1>8. CASE CloseFinal
  <2>1. /\ pc = "final" /\ accepted' = accepted /\ written' = written
        /\ leftover' = <<>> /\ verdict' = verdict
    BY <1>8 DEF CloseFinal
  <2>2. verdict = "open"
    BY <2>1 DEF IInv, Typed, Staged, Closings
  <2>3. Len(audio') >= Len(audio)
    BY <2>1, <1>1, <1>2
  <2>4. QED
    BY <2>1, <2>2, <2>3, <1>1, Advances
<1>9. QED
  BY <1>3, <1>4, <1>5, <1>6, <1>7, <1>8

\* A step that moves no byte closes, fails or changes nothing a caller can tell.
LEMMA ClosingsMap ==
    ASSUME IInv,
           \/ Close \/ CloseFinalFails \/ CloseVerify \/ ClosePatches
           \/ ClosePatchFails \/ CloseEnds \/ WriteFails
           \/ \E c \in Configs : ResetRejected(c)
    PROVE  \/ Promise!Close \/ Promise!Fail
           \/ UNCHANGED <<accepted + written, audio, Status>>
<1>1. audio' = audio /\ accepted' + written' = accepted + written
  <2>1. CASE WriteFails
    BY <2>1 DEF WriteFails, EmitFails, Return, IInv, Typed
  <2>2. CASE ~WriteFails
    BY <2>2 DEF Close, CloseFinalFails, EmitFails, CloseVerify, ClosePatches,
                ClosePatchFails, CloseEnds, ResetRejected, CloseReturns, sink, call
  <2>3. QED
    BY <2>1, <2>2
<1>2. CASE verdict' = verdict
  BY <1>1, <1>2 DEF Status
<1>3. CASE verdict' \in {"failed", "unusable"}
  BY <1>1, <1>3 DEF Promise!Fail, Status
<1>4. CASE verdict' = "done" /\ verdict' # verdict
  <2>1. pc \in Closings
    BY <1>4 DEF Close, CloseFinalFails, CloseVerify, ClosePatches, ClosePatchFails,
                CloseEnds, WriteFails, ResetRejected, CloseReturns, Closings
  <2>2. verdict = "open" /\ leftover = <<>>
    BY <2>1 DEF IInv, Staged, Closings
  <2>3. PICK a, l \in Nat :
            /\ audio = Bytes(0, a) /\ Len(leftover) = l /\ a + l = accepted + written
    BY Positions
  <2>4. l = 0
    BY <2>2, <2>3, EmptySeq
  <2>5. audio = Promise!Count(accepted + written)
    BY <2>3, <2>4, CountIsBytes
  <2>6. QED
    BY <1>1, <1>4, <2>2, <2>5 DEF Promise!Close, Status
<1>5. verdict' = verdict \/ verdict' \in {"failed", "unusable", "done"}
  BY DEF Close, CloseFinalFails, CloseVerify, ClosePatches, ClosePatchFails,
         CloseEnds, WriteFails, ResetRejected, CloseReturns
<1>6. QED
  BY <1>2, <1>3, <1>4, <1>5

\* A new encoder is a new stream (NewEncoder).
LEMMA StartsMap == Init => Promise!Init
BY DEF Init, Promise!Init, Status

\* Every step maps to a step of PcmStream or to none.
LEMMA StepsMap ==
    IInv /\ IInv' /\ [Next]_vars => [Promise!Next]_<<accepted + written, audio, Status>>
<1> SUFFICES ASSUME IInv, IInv', [Next]_vars
             PROVE  [Promise!Next]_<<accepted + written, audio, Status>>
  OBVIOUS
<1>1. CASE \E c \in Configs : Reset(c) \/ ResetFails(c)
  <2>1. /\ pc = "idle" /\ accepted' = 0 /\ written' = written /\ audio' = <<>>
        /\ verdict' \in {"open", "unusable"}
    BY <1>1 DEF Reset, ResetFails, EmptySink, call
  <2>2. written = 0
    BY <2>1 DEF IInv, Staged, Closings
  <2>3. QED
    BY <2>1, <2>2 DEF Promise!Next, Promise!Restart, Status
<1>2. CASE \/ \E n \in WriteLengths : WriteShort(n) \/ WriteStarts(n)
           \/ WriteJoin \/ WriteBlock \/ WriteStash \/ CloseFinal
  BY <1>2, WritesAdvance DEF Promise!Next
<1>3. CASE \/ Close \/ CloseFinalFails \/ CloseVerify \/ ClosePatches
           \/ ClosePatchFails \/ CloseEnds \/ WriteFails
           \/ \E c \in Configs : ResetRejected(c)
  BY <1>3, ClosingsMap DEF Promise!Next
<1>4. CASE UNCHANGED vars
  BY <1>4 DEF vars, sink, call, Status
<1>5. QED
  BY <1>1, <1>2, <1>3, <1>4 DEF Next, Write, Closing

\* The encoder implements PcmStream: its bytes reach the sink in order, and a nil
\* from Close means that all of them did (NewEncoder, Write, Close, Reset).
THEOREM KeepsItsPromise == Spec => KeepsPromise
<1>1. Spec => []IInv
  BY Initially, Inductive, PTL DEF Spec
<1>2. QED
  BY <1>1, StartsMap, StepsMap, PTL DEF Spec, KeepsPromise, Promise!Spec

-----------------------------------------------------------------------------
(***************************************************************************)
(* The frames are those of a fixed-blocksize stream, and what Close leaves  *)
(* in front of them is true of them: the STREAMINFO, the chain of block     *)
(* headers and the seek points.  That holds for every block and sample size *)
(* and whatever fails between two writes.                                   *)
(*                                                                          *)
(* Until Close has flushed, every frame is full and the samples counted are *)
(* theirs; a flush starts with at least a sample and less than a block      *)
(* (Blocks).  The counts are those of the frames at every step, and the     *)
(* header is the placeholder until it is patched (Measured, Headed).  Each  *)
(* step of Close leaves one of three layouts of block headers (Chained).    *)
(* The next boundary is where the interval after the last frame's starts    *)
(* (PointsDue).                                                             *)
(***************************************************************************)

\* Frame i of a stream of full blocks, its samples aside.
Numbered(f, i) == f.num = i - 1 /\ f.first = (i - 1) * BlockSize

\* The frames so far, and what the next one gets for its number and first sample.
Blocks ==
    /\ Len(frames) \in Nat /\ DOMAIN frames = 1..Len(frames)
    /\ frameNum = Len(frames)
    /\ \A i \in DOMAIN frames :
           /\ Numbered(frames[i], i)
           /\ frames[i].samples \in 1..BlockSize
           /\ frames[i].samples = BlockSize \/ (closed /\ i = Len(frames))
    /\ ~closed \/ pc = "final" =>
           /\ total = Len(frames) * BlockSize
           /\ \A i \in DOMAIN frames : frames[i].samples = BlockSize
    /\ pc = "final" => closed /\ Len(leftover) > 0 /\ Len(leftover) % FrameLen = 0

-----------------------------------------------------------------------------
(* Whole samples.                                                           *)

\* A whole block has BlockSize samples.
LEMMA FullBlock == BlockBytes \div FrameLen = BlockSize
<1>1. ASSUME NEW q \in Nat, NEW d \in Nat, d > 0
      PROVE  (q * d) \div d = q
  BY <1>1
<1>2. BlockSize \in Nat /\ FrameLen \in Nat /\ FrameLen > 0
  BY SizesAssumption
<1>3. QED
  BY <1>1, <1>2 DEF BlockBytes

\* Whole samples of less than a block are at least one and at most a block's.
LEMMA PartialBlock ==
    ASSUME NEW n \in Nat, n > 0, n < BlockBytes, n % FrameLen = 0
    PROVE  n \div FrameLen \in 1..BlockSize
<1>1. ASSUME NEW q \in Nat, NEW d \in Nat, d > 0, n < q * d, n % d = 0
      PROVE  n \div d \in 1..q
  BY <1>1
<1>2. BlockSize \in Nat /\ FrameLen \in Nat /\ FrameLen > 0
  BY SizesAssumption
<1>3. QED
  BY <1>1, <1>2 DEF BlockBytes

\* The chunk that WriteJoin puts together is a block.
LEMMA JoinedChunk ==
    ASSUME IInv, pc = "join"
    PROVE  Len(leftover \o SubSeq(p, 1, Need)) = BlockBytes
<1>1. /\ leftover \in Seq(Nat) /\ p \in Seq(Nat) /\ Len(p) >= Need
      /\ Len(leftover) \in Nat /\ Len(leftover) < BlockBytes /\ Need = BlockBytes - Len(leftover)
  BY LenProperties DEF IInv, Typed, Placed, Staged, Closings, Need
<1>2. Need \in Int /\ Need > 0 /\ Need <= Len(p) /\ Len(p) \in Nat
  BY <1>1, BlockSizePos, LenProperties
<1>3. \A i \in 1..Need : p[i] \in Nat
  BY <1>1, <1>2, ElementOfSeq
<1>4. SubSeq(p, 1, Need) \in Seq(Nat) /\ Len(SubSeq(p, 1, Need)) = Need
  BY <1>2, <1>3, SubSeqProperties
<1>5. Len(leftover \o SubSeq(p, 1, Need)) = Len(leftover) + Need
  BY <1>1, <1>4, ConcatProperties
<1>6. QED
  BY <1>1, <1>5, BlockSizePos

\* The chunk that WriteBlock cuts off is a block.
LEMMA CutChunk ==
    ASSUME IInv, pc = "blocks", Len(p) >= BlockBytes
    PROVE  Len(SubSeq(p, 1, BlockBytes)) = BlockBytes
<1>1. p \in Seq(Nat) /\ Len(p) \in Nat /\ BlockBytes \in Int /\ BlockBytes > 0
  BY BlockSizePos, LenProperties DEF IInv, Typed
<1>2. \A i \in 1..BlockBytes : p[i] \in Nat
  BY <1>1, ElementOfSeq
<1>3. QED
  BY <1>1, <1>2, SubSeqProperties

-----------------------------------------------------------------------------
(* The invariant.                                                           *)

\* A frame of n samples keeps the numbering, and ends it unless it is full (emitBlock).
LEMMA EmitNumbers ==
    ASSUME Blocks, NEW chunk, NEW final, Emit(chunk, final), ~closed \/ pc = "final",
           NEW n \in 1..BlockSize, Len(chunk) \div FrameLen = n,
           n = BlockSize \/ closed', pc' # "final"
    PROVE  Blocks'
<1>1. PICK f : /\ frames' = Append(frames, f)
               /\ f.num = frameNum /\ f.first = total /\ f.samples = n
               /\ frameNum' = frameNum + 1 /\ total' = total + n
  BY DEF Emit
<1>2. /\ Len(frames) \in Nat /\ DOMAIN frames = 1..Len(frames) /\ BlockSize \in Nat
      /\ frameNum = Len(frames) /\ total = Len(frames) * BlockSize
      /\ \A i \in DOMAIN frames : Numbered(frames[i], i) /\ frames[i].samples = BlockSize
  BY SizesAssumption DEF Blocks
<1> DEFINE m == Len(frames) + 1
<1>3. /\ Len(frames') = m /\ DOMAIN frames' = 1..m /\ m \in Nat
      /\ \A i \in 1..(m - 1) : frames'[i] = frames[i]
      /\ frames'[m] = f
  BY <1>1, <1>2
<1>4. Numbered(f, m)
  BY <1>1, <1>2 DEF Numbered
<1>5. total' = m * BlockSize \/ n # BlockSize
  BY <1>1, <1>2
<1> HIDE DEF m
<1>6. m - 1 = Len(frames)
  BY <1>2 DEF m
<1>7. \A i \in 1..m : i \in 1..(m - 1) \/ i = m
  BY <1>3
<1>8. \A i \in 1..(m - 1) : Numbered(frames'[i], i) /\ frames'[i].samples = BlockSize
  BY <1>2, <1>3, <1>6
<1>9. \A i \in DOMAIN frames' :
          /\ Numbered(frames'[i], i)
          /\ frames'[i].samples \in 1..BlockSize
          /\ frames'[i].samples = BlockSize \/ (closed' /\ i = m)
  <2>1. TAKE i \in DOMAIN frames'
  <2>2. CASE i \in 1..(m - 1)
    BY <2>2, <1>8, SizesAssumption
  <2>3. CASE i = m
    BY <2>3, <1>1, <1>3, <1>4
  <2>4. QED
    BY <2>2, <2>3, <1>3, <1>7
<1>10. ~closed' => /\ total' = m * BlockSize
                   /\ \A i \in DOMAIN frames' : frames'[i].samples = BlockSize
  BY <1>5, <1>9
<1>11. frameNum' = m
  BY <1>1, <1>2 DEF m
<1>12. QED
  BY <1>3, <1>9, <1>10, <1>11 DEF Blocks

\* A step that emits no frame keeps the numbering, if it starts no flush.
LEMMA QuietKeeps ==
    ASSUME Blocks, frames' = frames, frameNum' = frameNum, total' = total,
           closed' \/ closed' = closed, pc' # "final", ~closed' => ~closed
    PROVE  Blocks'
BY DEF Blocks, Numbered

\* A new encoder has no frames (NewEncoder).
LEMMA StartsNumbered == Init => Blocks
<1>1. Len(<<>>) = 0 /\ DOMAIN <<>> = 1..0
  OBVIOUS
<1>2. BlockSize \in Nat
  BY SizesAssumption
<1>3. QED
  BY <1>1, <1>2 DEF Init, Blocks

\* A new sink has none (Reset).
LEMMA FreshNumbered ==
    ASSUME NEW c, Fresh(c), EmptySink, pc' = "idle"
    PROVE  Blocks'
<1>1. /\ frames' = <<>> /\ frameNum' = 0 /\ total' = 0
  BY DEF Fresh, EmptySink
<1>2. Len(frames') = 0 /\ DOMAIN frames' = 1..0
  BY <1>1
<1>3. BlockSize \in Nat
  BY SizesAssumption
<1>4. QED
  BY <1>1, <1>2, <1>3 DEF Blocks

\* A running Write has an open encoder.
LEMMA WritingOpen == ASSUME IInv, pc \in {"join", "blocks"} PROVE ~closed
BY DEF IInv, Staged, Closings

\* Every step keeps the numbering (init, Write, emitBlock, Close).
LEMMA NumberingKept == IInv /\ Blocks /\ [Next]_vars => Blocks'
<1> SUFFICES ASSUME IInv, Blocks, [Next]_vars PROVE Blocks'
  OBVIOUS
<1>0. BlockSize \in 1..BlockSize
  BY SizesAssumption
<1>1. CASE \E c \in Configs : Reset(c) \/ ResetFails(c)
  BY <1>1, FreshNumbered DEF Reset, ResetFails, call
<1>2. CASE WriteJoin
  <2>1. /\ pc = "join" /\ Emit(leftover \o SubSeq(p, 1, Need), FALSE)
        /\ pc' = "blocks" /\ closed' = closed
    BY <1>2 DEF WriteJoin
  <2>2. QED
    BY <2>1, <1>0, WritingOpen, JoinedChunk, FullBlock, EmitNumbers
<1>3. CASE WriteBlock
  <2>1. /\ pc = "blocks" /\ Len(p) >= BlockBytes /\ Emit(SubSeq(p, 1, BlockBytes), FALSE)
        /\ pc' = "blocks" /\ closed' = closed
    BY <1>3 DEF WriteBlock
  <2>2. QED
    BY <2>1, <1>0, WritingOpen, CutChunk, FullBlock, EmitNumbers
<1>4. CASE CloseFinal
  <2>1. pc = "final" /\ Emit(leftover, TRUE) /\ pc' = "verify" /\ closed' = closed
    BY <1>4 DEF CloseFinal
  <2>2. /\ closed /\ Len(leftover) \in Nat /\ Len(leftover) > 0
        /\ Len(leftover) < BlockBytes /\ Len(leftover) % FrameLen = 0
    BY <2>1, LenProperties DEF Blocks, IInv, Typed, Placed
  <2>3. Len(leftover) \div FrameLen \in 1..BlockSize
    BY <2>2, PartialBlock
  <2>4. QED
    BY <2>1, <2>2, <2>3, EmitNumbers
<1>5. CASE Close
  <2>1. /\ closed' /\ ~closed /\ leftover' = leftover
        /\ frames' = frames /\ frameNum' = frameNum /\ total' = total
    BY <1>5 DEF Close, stream, sink
  <2>2. CASE pc' = "final"
    <3>1. leftover # <<>> /\ Len(leftover) % FrameLen = 0
      BY <1>5, <2>2 DEF Close, CloseReturns
    <3>2. Len(leftover) > 0
      BY <3>1, EmptySeq, LenProperties DEF IInv, Typed
    <3>3. QED
      BY <2>1, <2>2, <3>1, <3>2 DEF Blocks, Numbered
  <2>3. CASE pc' # "final"
    BY <2>1, <2>3, QuietKeeps
  <2>4. QED
    BY <2>2, <2>3
<1>6. CASE \/ \E n \in WriteLengths : WriteShort(n) \/ WriteStarts(n)
           \/ WriteFails \/ WriteStash
  <2>1. /\ frames' = frames /\ frameNum' = frameNum /\ total' = total
        /\ closed' = closed /\ pc' # "final"
    BY <1>6 DEF WriteShort, WriteStarts, WriteFails, WriteStash, EmitFails, Return,
                stream, sink
  <2>2. QED
    BY <2>1, QuietKeeps
<1>7. CASE CloseFinalFails \/ CloseVerify \/ ClosePatches \/ ClosePatchFails \/ CloseEnds
  <2>1. /\ frames' = frames /\ frameNum' = frameNum /\ total' = total
        /\ closed' = closed /\ pc' # "final"
    BY <1>7 DEF CloseFinalFails, CloseVerify, ClosePatches, ClosePatchFails, CloseEnds,
                CloseReturns, EmitFails, Patched, AfterInfo, AfterTable, stream, sink
  <2>2. QED
    BY <2>1, QuietKeeps
<1>8. CASE (\E c \in Configs : ResetRejected(c)) \/ UNCHANGED vars
  <2>1. UNCHANGED <<frames, frameNum, total, closed, pc, leftover>>
    BY <1>8 DEF ResetRejected, vars, stream, sink, call
  <2>2. QED
    BY <2>1 DEF Blocks, Numbered
<1>9. QED
  BY <1>1, <1>2, <1>3, <1>4, <1>5, <1>6, <1>7, <1>8 DEF Next, Write, Closing

\* Whatever writes fail and are retried and whenever Close is called, the frames are
\* numbered from 0, full but for the last, and placed by their numbers (emitBlock).
THEOREM FramesAreFixed == Spec => []FixedBlocks
<1>1. Spec => []IInv
  BY Initially, Inductive, PTL DEF Spec
<1>2. Spec => []Blocks
  BY <1>1, StartsNumbered, NumberingKept, PTL DEF Spec
<1>3. IInv /\ Blocks => FixedBlocks
  BY DEF IInv, Placed, Blocks, Numbered, FixedBlocks
<1>4. QED
  BY <1>1, <1>2, <1>3, PTL

-----------------------------------------------------------------------------
(* What Close writes to STREAMINFO.                                         *)

\* Close has begun to patch the header and has written STREAMINFO.
Patching == {"table", "shrink", "pad", "end"}

\* The counts that STREAMINFO is patched with are those of the frames in the sink.
Measured ==
    /\ cfg.md5 = "running" => hashed = audio
    /\ total \in Nat /\ total * FrameLen = Len(audio)
    /\ bounds \in [minBlock: Nat, maxBlock: Nat, minFrame: Nat, maxFrame: Nat]
    /\ \A i \in DOMAIN frames :
           /\ frames[i].size \in bounds.minFrame..bounds.maxFrame
           /\ bounds.minBlock = frames[1].samples /\ bounds.maxBlock = frames[1].samples
           /\ i = Len(frames) => total = frames[i].first + frames[i].samples
    /\ frames = <<>> => bounds = NoBounds /\ total = 0

\* The STREAMINFO that describes the frames.
TrueInfo ==
    [bounds |-> [bounds EXCEPT !.minBlock = Most(@, MinStreamBlock),
                               !.maxBlock = Most(@, MinStreamBlock)],
     total  |-> total,
     md5    |-> IF cfg.md5 = "running" THEN hashed ELSE InitialInfo(cfg).md5]

\* STREAMINFO is the placeholder until Close patches it and true from then on; a sink
\* that does not seek keeps the placeholder, whose total Close has checked.
Headed ==
    /\ ConfigOK(cfg)
    /\ Usable => ~Unwritable(cfg)
    /\ verdict = "open" /\ pc \notin Patching => info = InitialInfo(cfg)
    /\ pc \in Patching \cup {"info"} => cfg.seekable
    /\ pc \in Patching \/ (verdict = "done" /\ cfg.seekable) => info = TrueInfo
    /\ verdict = "done" /\ ~cfg.seekable => info = InitialInfo(cfg) /\ ~Declared

\* A frame of whole samples keeps the counts (emitBlock).
LEMMA EmitMeasures ==
    ASSUME Typed, Blocks, Measured, NEW chunk \in Seq(Nat), NEW final \in BOOLEAN,
           Emit(chunk, final), UNCHANGED cfg,
           NEW n \in 1..BlockSize, Len(chunk) \div FrameLen = n, Len(chunk) = n * FrameLen,
           final \/ n = BlockSize,
           total = Len(frames) * BlockSize, \A i \in DOMAIN frames : frames[i].samples = BlockSize
    PROVE  Measured'
<1>1. PICK size \in FrameSizes :
          /\ frames' = Append(frames, [num |-> frameNum, first |-> total, samples |-> n,
                                       size |-> size, at |-> end])
          /\ audio' = audio \o chunk
          /\ hashed' = IF cfg.md5 = "running" THEN hashed \o chunk ELSE hashed
          /\ total' = total + n
          /\ bounds' = Widened(size, n, final)
  BY DEF Emit
<1>2. size \in Nat /\ size > 0 /\ n \in Nat /\ n > 0 /\ FrameLen \in Nat /\ BlockSize \in Nat
  BY SizesAssumption
<1>3. /\ Len(frames) \in Nat /\ DOMAIN frames = 1..Len(frames)
  BY DEF Blocks
<1>4. cfg'.md5 = "running" => hashed' = audio'
  BY <1>1 DEF Measured
<1>5. total' \in Nat /\ total' * FrameLen = Len(audio')
  <2>1. Len(audio') = Len(audio) + Len(chunk) 
    BY <1>1, ConcatProperties DEF Typed
  <2>2. total \in Nat /\ Len(audio) = total * FrameLen
    BY DEF Measured
  <2>3. (total + n) * FrameLen = total * FrameLen + n * FrameLen
    BY <2>2, <1>2
  <2>4. QED
    BY <1>1, <1>2, <2>1, <2>2, <2>3
<1> DEFINE m == Len(frames) + 1
<1>6. /\ Len(frames') = m /\ DOMAIN frames' = 1..m /\ m \in Nat
      /\ \A i \in 1..Len(frames) : frames'[i] = frames[i]
      /\ frames'[m] = [num |-> frameNum, first |-> total, samples |-> n,
                       size |-> size, at |-> end]
      /\ frames' # <<>>
  BY <1>1, <1>3
<1>7. /\ bounds' \in [minBlock: Nat, maxBlock: Nat, minFrame: Nat, maxFrame: Nat]
      /\ size \in bounds'.minFrame..bounds'.maxFrame
      /\ frames = <<>> => bounds'.minBlock = n /\ bounds'.maxBlock = n
      /\ \A i \in DOMAIN frames :
             /\ frames[i].size \in bounds'.minFrame..bounds'.maxFrame
             /\ bounds'.minBlock = frames[1].samples /\ bounds'.maxBlock = frames[1].samples
  <2>1. CASE frames = <<>>
    <3>1. bounds' = [minBlock |-> n, maxBlock |-> n, minFrame |-> size, maxFrame |-> size]
      BY <2>1, <1>1 DEF Measured, Widened
    <3>2. DOMAIN frames = {}
      BY <2>1
    <3>3. QED
      BY <3>1, <3>2, <1>2
  <2>2. CASE frames # <<>>
    <3>1. 1 \in DOMAIN frames
      BY <2>2, <1>3
    <3>2. /\ frames[1].samples = BlockSize
          /\ bounds.minBlock = BlockSize /\ bounds.maxBlock = BlockSize
          /\ bounds \in [minBlock: Nat, maxBlock: Nat, minFrame: Nat, maxFrame: Nat]
          /\ \A i \in DOMAIN frames : frames[i].size \in bounds.minFrame..bounds.maxFrame
      BY <3>1 DEF Measured
    <3>3. bounds # NoBounds
      BY <3>2, SizesAssumption DEF NoBounds
    <3>4. bounds' = [minBlock |-> BlockSize, maxBlock |-> BlockSize,
                     minFrame |-> Least(bounds.minFrame, size),
                     maxFrame |-> Most(bounds.maxFrame, size)]
      BY <3>2, <3>3, <1>1, <1>2 DEF Widened, Least, Most
    <3>5. PICK u, v \in Nat : bounds.minFrame = u /\ bounds.maxFrame = v
      BY <3>2
    <3>6. /\ bounds'.minFrame = Least(u, size) /\ bounds'.maxFrame = Most(v, size)
          /\ Least(u, size) \in Nat /\ Most(v, size) \in Nat
          /\ size \in Least(u, size)..Most(v, size)
          /\ \A x \in u..v : x \in Least(u, size)..Most(v, size)
      BY <3>4, <3>5, <1>2 DEF Least, Most
    <3>7. bounds' \in [minBlock: Nat, maxBlock: Nat, minFrame: Nat, maxFrame: Nat]
      BY <3>4, <3>5, <3>6, <1>2
    <3>8. \A i \in DOMAIN frames : frames[i].size \in bounds'.minFrame..bounds'.maxFrame
      BY <3>2, <3>5, <3>6
    <3>9. QED
      BY <2>2, <3>2, <3>4, <3>6, <3>7, <3>8
  <2>3. QED
    BY <2>1, <2>2
<1> HIDE DEF m
<1>8. m = Len(frames) + 1 /\ (frames = <<>> => m = 1) /\ (frames # <<>> => Len(frames) >= 1)
  BY <1>3 DEF m
<1>9. frames # <<>> => 1 \in DOMAIN frames /\ frames'[1] = frames[1]
  BY <1>3, <1>6, <1>8
<1>10. frames = <<>> => frames'[1].samples = n
  BY <1>6, <1>8
<1>11. bounds'.minBlock = frames'[1].samples /\ bounds'.maxBlock = frames'[1].samples
  BY <1>7, <1>9, <1>10
<1>12. ASSUME NEW i \in DOMAIN frames'
       PROVE  frames'[i].size \in bounds'.minFrame..bounds'.maxFrame
  <2>1. CASE i \in DOMAIN frames
    BY <2>1, <1>3, <1>6, <1>7
  <2>2. CASE i \notin DOMAIN frames
    <3>1. i = m
      BY <2>2, <1>3, <1>6, <1>8
    <3>2. QED
      BY <3>1, <1>6, <1>7
  <2>3. QED
    BY <2>1, <2>2
<1>13. m = Len(frames') => total' = frames'[m].first + frames'[m].samples
  BY <1>1, <1>6
<1>14. QED
  BY <1>4, <1>5, <1>6, <1>7, <1>11, <1>12, <1>13 DEF Measured

\* A step that leaves the frames and the counts alone keeps them so.
LEMMA MeasureKeeps ==
    ASSUME Measured, UNCHANGED <<frames, audio, hashed, total, bounds>>,
           cfg' = cfg
    PROVE  Measured'
BY DEF Measured, NoBounds

\* A new encoder has counted nothing (NewEncoder).
LEMMA StartsMeasured == Init => Measured
<1>1. Len(<<>>) = 0 /\ DOMAIN <<>> = {} /\ 0 * FrameLen = 0
  BY SizesAssumption
<1>2. QED
  BY <1>1 DEF Init, Measured, NoBounds

\* Neither has one bound to a new sink (Reset).
LEMMA FreshMeasured ==
    ASSUME NEW c, Fresh(c), EmptySink
    PROVE  Measured'
<1>1. /\ frames' = <<>> /\ audio' = <<>> /\ hashed' = <<>> /\ total' = 0 /\ bounds' = NoBounds
  BY DEF Fresh, EmptySink
<1>2. Len(<<>>) = 0 /\ DOMAIN <<>> = {} /\ 0 * FrameLen = 0
  BY SizesAssumption
<1>3. QED
  BY <1>1, <1>2 DEF Measured, NoBounds

\* The frames that Write puts together are whole and so is the leftover that Close flushes.
LEMMA MeasureKept == IInv /\ Blocks /\ Measured /\ [Next]_vars => Measured'
<1> SUFFICES ASSUME IInv, Blocks, Measured, [Next]_vars PROVE Measured'
  OBVIOUS
<1>0. /\ Typed /\ BlockSize \in 1..BlockSize /\ TRUE \in BOOLEAN /\ FALSE \in BOOLEAN
      /\ BlockBytes = BlockSize * FrameLen /\ BlockBytes \in Nat /\ BlockBytes > 0
  BY SizesAssumption, BlockSizePos DEF IInv, BlockBytes
<1>1. CASE \E c \in Configs : Reset(c) \/ ResetFails(c)
  BY <1>1, FreshMeasured DEF Reset, ResetFails
<1>2. CASE WriteJoin
  <2>1. /\ pc = "join" /\ Emit(leftover \o SubSeq(p, 1, Need), FALSE) /\ UNCHANGED cfg
    BY <1>2 DEF WriteJoin
  <2>2. leftover \o SubSeq(p, 1, Need) \in Seq(Nat)
    <3>1. /\ leftover \in Seq(Nat) /\ p \in Seq(Nat) /\ Len(p) >= Need /\ Need \in Nat
      BY <2>1, Positions, BlockSizePos DEF IInv, Typed, Staged, Closings
    <3>2. \A i \in 1..Need : p[i] \in Nat
      BY <3>1, ElementOfSeq, LenProperties
    <3>3. SubSeq(p, 1, Need) \in Seq(Nat)
      BY <3>1, <3>2, SubSeqProperties
    <3>4. QED
      BY <3>1, <3>3, ConcatProperties
  <2>3. QED
    BY <2>1, <2>2, <1>0, WritingOpen, JoinedChunk, FullBlock, EmitMeasures DEF Blocks
<1>3. CASE WriteBlock
  <2>1. /\ pc = "blocks" /\ Len(p) >= BlockBytes /\ UNCHANGED cfg
        /\ Emit(SubSeq(p, 1, BlockBytes), FALSE)
    BY <1>3 DEF WriteBlock
  <2>2. SubSeq(p, 1, BlockBytes) \in Seq(Nat)
    <3>1. p \in Seq(Nat)
      BY DEF IInv, Typed
    <3>2. \A i \in 1..BlockBytes : p[i] \in Nat
      BY <2>1, <3>1, <1>0, ElementOfSeq, LenProperties
    <3>3. QED
      BY <3>1, <3>2, <1>0, SubSeqProperties
  <2>3. QED
    BY <2>1, <2>2, <1>0, WritingOpen, CutChunk, FullBlock, EmitMeasures DEF Blocks
<1>4. CASE CloseFinal
  <2>1. pc = "final" /\ Emit(leftover, TRUE) /\ UNCHANGED cfg
    BY <1>4 DEF CloseFinal
  <2>2. /\ closed /\ Len(leftover) \in Nat /\ Len(leftover) > 0 /\ leftover \in Seq(Nat)
        /\ Len(leftover) < BlockBytes /\ Len(leftover) % FrameLen = 0
    BY <2>1, LenProperties DEF Blocks, IInv, Typed, Placed
  <2>3. Len(leftover) \div FrameLen \in 1..BlockSize
    BY <2>2, PartialBlock
  <2>4. Len(leftover) = (Len(leftover) \div FrameLen) * FrameLen
    <3>1. ASSUME NEW x \in Nat, NEW d \in Nat, d > 0, x % d = 0
          PROVE  x = (x \div d) * d
      BY <3>1
    <3>2. FrameLen \in Nat /\ FrameLen > 0
      BY SizesAssumption
    <3>3. QED
      BY <3>1, <3>2, <2>2
  <2>5. QED
    BY <2>1, <2>2, <2>3, <2>4, <1>0, EmitMeasures DEF Blocks
<1>5. CASE \/ \E n \in WriteLengths : WriteShort(n) \/ WriteStarts(n)
           \/ WriteFails \/ WriteStash
  <2>1. UNCHANGED <<frames, audio, hashed, total, bounds, cfg>>
    BY <1>5 DEF WriteShort, WriteStarts, WriteFails, WriteStash, EmitFails, Return, stream, sink
  <2>2. QED
    BY <2>1, MeasureKeeps
<1>6. CASE \/ Close \/ CloseFinalFails \/ CloseVerify \/ ClosePatches \/ ClosePatchFails
           \/ CloseEnds
  <2>1. UNCHANGED <<frames, audio, hashed, total, bounds, cfg>>
    BY <1>6 DEF Close, CloseFinalFails, CloseVerify, ClosePatches, ClosePatchFails, CloseEnds,
                EmitFails, stream, sink
  <2>2. QED
    BY <2>1, MeasureKeeps
<1>7. CASE (\E c \in Configs : ResetRejected(c)) \/ UNCHANGED vars
  <2>1. UNCHANGED <<frames, audio, hashed, total, bounds, cfg>>
    BY <1>7 DEF ResetRejected, vars, stream, sink
  <2>2. QED
    BY <2>1, MeasureKeeps
<1>8. QED
  BY <1>1, <1>2, <1>3, <1>4, <1>5, <1>6, <1>7 DEF Next, Write, Closing

\* STREAMINFO is written once, when every frame has been counted (init, Close).
LEMMA HeadKept == IInv /\ Headed /\ [Next]_vars => Headed'
<1> SUFFICES ASSUME IInv, Headed, [Next]_vars PROVE Headed'
  OBVIOUS
<1>0. pc # "idle" => verdict = "open"
  BY DEF IInv, Staged
<1>1. CASE \E c \in Configs : Reset(c) \/ ResetFails(c)
  <2>1. PICK c \in Configs : Reset(c) \/ ResetFails(c)
    BY <1>1
  <2>2. /\ cfg' = c /\ ConfigOK(c) /\ pc' = "idle" /\ info' = InitialInfo(c)
        /\ verdict' \in {"open", "unusable"} /\ (verdict' = "open" => ~Unwritable(c))
    BY <2>1, ConfigsAssumption DEF Reset, ResetFails, Fresh, call
  <2>3. QED
    BY <2>2 DEF Headed, Usable, Patching
<1>2. CASE \/ \E n \in WriteLengths : WriteShort(n) \/ WriteStarts(n)
           \/ WriteJoin \/ WriteBlock \/ WriteFails \/ WriteStash
           \/ Close \/ CloseFinal \/ CloseFinalFails
  <2>1. /\ UNCHANGED <<cfg, info>> /\ verdict' \in {verdict, "failed"}
        /\ pc' \in {"idle", "join", "blocks", "final", "verify"}
        /\ (pc = "idle" /\ Usable /\ ~closed) \/ pc \in {"join", "blocks", "final"}
    BY <1>2 DEF WriteShort, WriteStarts, WriteJoin, WriteBlock, WriteFails, WriteStash, Emit,
                EmitFails, Return, Close, CloseFinal, CloseFinalFails, CloseReturns, sink
  <2>2. verdict = "open" /\ pc \notin Patching
    BY <2>1, <1>0 DEF IInv, Typed, Staged, Usable, Patching
  <2>3. QED
    BY <2>1, <2>2 DEF Headed, Usable, Patching
<1>3. CASE CloseVerify
  <2>1. /\ pc = "verify" /\ UNCHANGED <<cfg, info, total>>
        /\ \/ verdict' = "failed" /\ pc' = "idle"
           \/ ~Declared /\ ~cfg.seekable /\ verdict' = "done" /\ pc' = "idle"
           \/ cfg.seekable /\ pc' = "info" /\ verdict' = verdict
    BY <1>3 DEF CloseVerify, CloseReturns, sink, stream
  <2>2. verdict = "open" /\ pc \notin Patching
    BY <2>1, <1>0 DEF Patching
  <2>3. QED
    BY <2>1, <2>2 DEF Headed, Usable, Patching, Declared
<1>4. CASE ClosePatches
  <2>1. /\ UNCHANGED <<cfg, total, bounds, hashed, verdict>> /\ verdict = "open"
        /\ pc \in {"info", "table", "shrink", "pad"} /\ pc' \in Patching
    BY <1>4, <1>0 DEF ClosePatches, Patched, AfterInfo, AfterTable, stream, Patching
  <2>2. TrueInfo' = TrueInfo
    BY <2>1 DEF TrueInfo
  <2>3. info' = TrueInfo
    <3>1. CASE pc = "info"
      <4>1. info = InitialInfo(cfg) /\ info' = MeasuredInfo
        BY <3>1, <2>1, <1>4 DEF ClosePatches, Patched, Headed, Patching
      <4>2. QED
        BY <4>1 DEF MeasuredInfo, TrueInfo
    <3>2. CASE pc # "info"
      BY <3>2, <2>1, <1>4 DEF ClosePatches, Patched, Headed, Patching
    <3>3. QED
      BY <3>1, <3>2
  <2>4. QED
    BY <2>1, <2>2, <2>3 DEF Headed, Usable, Patching
<1>5. CASE ClosePatchFails
  <2>1. UNCHANGED cfg /\ verdict' = "failed" /\ pc' = "idle" /\ pc # "idle"
    BY <1>5 DEF ClosePatchFails, CloseReturns
  <2>2. QED
    BY <2>1, <1>0 DEF Headed, Usable, Patching
<1>6. CASE CloseEnds
  <2>1. /\ UNCHANGED <<cfg, info, total, bounds, hashed>> /\ pc = "end" /\ pc' = "idle"
        /\ verdict' = "done"
    BY <1>6 DEF CloseEnds, CloseReturns, stream, sink
  <2>2. TrueInfo' = TrueInfo
    BY <2>1 DEF TrueInfo
  <2>3. QED
    BY <2>1, <2>2, <1>0 DEF Headed, Usable, Patching
<1>7. CASE \E c \in Configs : ResetRejected(c)
  <2>1. UNCHANGED <<cfg, info, pc, total, bounds, hashed>> /\ verdict' = "unusable" /\ pc = "idle"
    BY <1>7 DEF ResetRejected, call, stream, sink
  <2>2. QED
    BY <2>1 DEF Headed, Usable, Patching
<1>8. CASE UNCHANGED vars
  <2>1. UNCHANGED <<cfg, info, pc, verdict, total, bounds, hashed>>
    BY <1>8 DEF vars, call, stream, sink
  <2>2. TrueInfo' = TrueInfo
    BY <2>1 DEF TrueInfo
  <2>3. QED
    BY <2>1, <2>2 DEF Headed, Usable, Declared
<1>9. QED
  BY <1>1, <1>2, <1>3, <1>4, <1>5, <1>6, <1>7, <1>8 DEF Next, Write, Closing

\* The sink of a new encoder has the placeholder (NewEncoder).
LEMMA StartsHeaded == Init => Headed
BY ConfigsAssumption DEF Init, Headed, Usable, Patching

\* Where Close writes STREAMINFO it has the block size of every frame but the last, and
\* no frame exceeds it.
LEMMA TrueBounds ==
    ASSUME Blocks, Measured, NEW b, b = TrueInfo.bounds
    PROVE  /\ b.minBlock = b.maxBlock /\ b.maxBlock >= MinStreamBlock
           /\ \A i \in DOMAIN frames :
                  /\ frames[i].first = frames[i].num * b.maxBlock
                  /\ frames[i].samples <= b.maxBlock
                  /\ frames[i].size \in b.minFrame..b.maxFrame
<1>1. /\ bounds \in [minBlock: Nat, maxBlock: Nat, minFrame: Nat, maxFrame: Nat]
      /\ b.minBlock = Most(bounds.minBlock, MinStreamBlock)
      /\ b.maxBlock = Most(bounds.maxBlock, MinStreamBlock)
      /\ b.minFrame = bounds.minFrame /\ b.maxFrame = bounds.maxFrame
  BY DEF Measured, TrueInfo
<1>2. /\ MinStreamBlock \in Nat /\ BlockSize \in Nat /\ MinStreamBlock <= BlockSize
      /\ BlockSize > 0
  BY SizesAssumption
<1>3. CASE frames = <<>>
  <2>1. bounds.minBlock = 0 /\ bounds.maxBlock = 0 /\ DOMAIN frames = {}
    BY <1>3 DEF Measured, NoBounds
  <2>2. QED
    BY <2>1, <1>1, <1>2 DEF Most
<1>4. CASE frames # <<>>
  <2>1. Len(frames) \in Nat /\ DOMAIN frames = 1..Len(frames) /\ 1 \in DOMAIN frames
    BY <1>4 DEF Blocks
  <2>2. PICK s \in 1..BlockSize : s = frames[1].samples
    BY <2>1 DEF Blocks
  <2>3. bounds.minBlock = s /\ bounds.maxBlock = s
    BY <2>1, <2>2 DEF Measured
  <2>4. PICK m \in Nat : m = Most(s, MinStreamBlock) /\ m >= s /\ m >= MinStreamBlock
    BY <1>2 DEF Most
  <2>5. b.minBlock = m /\ b.maxBlock = m
    BY <1>1, <2>3, <2>4
  <2>6. ASSUME NEW i \in DOMAIN frames
        PROVE  /\ frames[i].first = frames[i].num * b.maxBlock
               /\ frames[i].samples <= b.maxBlock
    <3>1. /\ frames[i].num = i - 1 /\ frames[i].first = (i - 1) * BlockSize /\ i \in Nat
          /\ frames[i].samples \in 1..BlockSize
      BY <2>1 DEF Blocks, Numbered
    <3>2. CASE i = 1
      BY <3>1, <3>2, <2>2, <2>4, <2>5, <1>2
    <3>3. CASE i # 1
      <4>1. s = BlockSize
        BY <3>3, <2>1, <2>2 DEF Blocks
      <4>2. m = BlockSize
        BY <4>1, <2>4, <1>2 DEF Most
      <4>3. QED
        BY <4>2, <3>1, <2>5
    <3>4. QED
      BY <3>2, <3>3
  <2>7. QED
    BY <2>4, <2>5, <2>6, <1>1 DEF Measured
<1>5. QED
  BY <1>3, <1>4

\* The block size chosen before the first frame holds for them all once Close has
\* checked the declared total (upfrontBlockSize).
LEMMA UpfrontBounds ==
    ASSUME Blocks, Measured, ConfigOK(cfg), ~cfg.seekable, ~Declared,
           NEW u, u = UpfrontBlockSize(cfg)
    PROVE  /\ u >= MinStreamBlock
           /\ \A i \in DOMAIN frames : frames[i].first = frames[i].num * u /\ frames[i].samples <= u
<1>1. /\ MinStreamBlock \in Nat /\ BlockSize \in Nat /\ MinStreamBlock <= BlockSize
      /\ BlockSize > 0
  BY SizesAssumption
<1>2. PICK d \in Nat : d = cfg.declared /\ (d > 0 => total = d)
  BY DEF ConfigOK, Declared
<1>3. u = Most(IF d = 0 THEN BlockSize ELSE Least(d, BlockSize), MinStreamBlock)
  BY <1>2 DEF UpfrontBlockSize
<1>4. u \in Nat /\ u >= MinStreamBlock
  BY <1>1, <1>3 DEF Most, Least
<1>5. Len(frames) \in Nat /\ DOMAIN frames = 1..Len(frames)
  BY DEF Blocks
<1>6. ASSUME NEW i \in DOMAIN frames
      PROVE  frames[i].first = frames[i].num * u /\ frames[i].samples <= u
  <2>1. /\ frames[i].num = i - 1 /\ frames[i].first = (i - 1) * BlockSize /\ i \in Nat
        /\ frames[i].samples \in 1..BlockSize
    BY <1>5 DEF Blocks, Numbered
  <2>2. CASE d = 0 \/ d >= BlockSize
    <3>1. u = BlockSize
      BY <2>2, <1>1, <1>3 DEF Most, Least
    <3>2. QED
      BY <3>1, <2>1
  <2>3. CASE d > 0 /\ d < BlockSize
    <3>0. PICK n \in Nat : n = Len(frames) /\ DOMAIN frames = 1..n
      BY <1>5
    <3>1. n = Len(frames) /\ n >= 1 /\ i <= n
      BY <3>0
    <3>2. /\ frames[n].first = (n - 1) * BlockSize /\ frames[n].samples \in 1..BlockSize
          /\ total = frames[n].first + frames[n].samples
      BY <3>0, <3>1 DEF Blocks, Numbered, Measured
    <3>3. (n - 1) * BlockSize < BlockSize
      BY <3>1, <3>2, <2>3, <1>1, <1>2
    <3>4. n = 1
      <4>1. n >= 2 => (n - 1) * BlockSize >= BlockSize
        BY <3>1, <1>1
      <4>2. QED
        BY <4>1, <3>1, <3>3, <1>1
    <3>5. i = 1
      BY <3>0, <3>4
    <3>6. frames[i].samples = d /\ frames[i].first = 0 /\ frames[i].num = 0
      BY <3>2, <3>4, <3>5, <2>1, <2>3, <1>1, <1>2
    <3>7. u >= d
      BY <2>3, <1>1, <1>3 DEF Most, Least
    <3>8. QED
      BY <3>6, <3>7, <1>4
  <2>4. QED
    BY <2>2, <2>3, <1>1
<1>7. QED
  BY <1>4, <1>6

\* When Close returns nil, STREAMINFO is true of the frames, whatever failed and was
\* retried before, or unknown where a sink that does not seek leaves no choice (Close,
\* upfrontBlockSize).
THEOREM StreamInfoIsTrue == Spec => []HeaderTellsTruth
<1>1. Spec => [](IInv /\ Blocks)
  <2>1. Spec => []IInv
    BY Initially, Inductive, PTL DEF Spec
  <2>2. QED
    BY <2>1, StartsNumbered, NumberingKept, PTL DEF Spec
<1>2. Spec => []Measured
  BY <1>1, StartsMeasured, MeasureKept, PTL DEF Spec
<1>3. Spec => []Headed
  BY <1>1, StartsHeaded, HeadKept, PTL DEF Spec
<1>4. IInv /\ Blocks /\ Measured /\ Headed => HeaderTellsTruth
  <2> SUFFICES ASSUME IInv, Blocks, Measured, Headed, verdict = "done"
               PROVE  HeaderTellsTruth
    BY DEF HeaderTellsTruth
  <2>1. CASE cfg.seekable
    <3>1. info = TrueInfo
      BY <2>1 DEF Headed
    <3>2. info.total = total /\ total * FrameLen = Len(audio)
      BY <3>1 DEF TrueInfo, Measured
    <3>3. info.md5 = IF cfg.md5 = "running" THEN audio ELSE InitialInfo(cfg).md5
      BY <3>1 DEF TrueInfo, Measured
    <3>4. InitialInfo(cfg).md5 = IF cfg.md5 = "supplied" THEN Supplied ELSE NoDigest
      BY DEF InitialInfo
    <3>5. QED
      BY <2>1, <3>1, <3>2, <3>3, <3>4, TrueBounds DEF HeaderTellsTruth
  <2>2. CASE ~cfg.seekable
    <3>1. /\ info = InitialInfo(cfg) /\ ~Declared /\ ConfigOK(cfg) /\ cfg.interval = 0
      BY <2>2 DEF Headed, Usable, Unwritable, ConfigOK
    <3>2. PICK u : u = UpfrontBlockSize(cfg)
      OBVIOUS
    <3>3. /\ info.bounds.minBlock = u /\ info.bounds.maxBlock = u
          /\ info.total = cfg.declared
          /\ info.md5 = IF cfg.md5 = "supplied" THEN Supplied ELSE NoDigest
      <4>1. ~(cfg.interval > 0)
        BY <3>1
      <4>2. info.bounds = [NoBounds EXCEPT !.minBlock = u, !.maxBlock = u]
        BY <3>1, <3>2, <4>1 DEF InitialInfo
      <4>3. info.bounds.minBlock = u /\ info.bounds.maxBlock = u
        BY <4>2 DEF NoBounds
      <4>4. QED
        BY <3>1, <4>3 DEF InitialInfo
    <3>4. /\ u >= MinStreamBlock
          /\ \A i \in DOMAIN frames : frames[i].first = frames[i].num * u /\ frames[i].samples <= u
      BY <2>2, <3>1, <3>2, UpfrontBounds
    <3>5. info.total * FrameLen = Len(audio) \/ (cfg.declared = 0 /\ info.total = 0)
      BY <3>1, <3>3 DEF Declared, ConfigOK, Measured
    <3>6. QED
      BY <2>2, <3>3, <3>4, <3>5 DEF HeaderTellsTruth
  <2>3. QED
    BY <2>1, <2>2
<1>5. QED
  BY <1>1, <1>2, <1>3, <1>4, PTL

-----------------------------------------------------------------------------
(* The chain of metadata blocks.                                            *)

\* The headers once the seek table is shrunk, and once a padding block fills its room.
Shrunk(h) == [h EXCEPT ![TableHeader(cfg)].len = Len(points) * PointLen]
Padded(h) ==
    LET at == SeekBodyOff(cfg) + Len(points) * PointLen
        pad == Block("pad", (MaxPoints(cfg) - Len(points)) * PointLen, TRUE)
    IN  [o \in DOMAIN h \cup {at} |-> IF o = at THEN pad ELSE h[o]]

\* The headers that a Close without an error leaves.
FinalHeaders ==
    IF cfg.interval > 0 /\ Len(points) < MaxPoints(cfg)
    THEN Padded(Shrunk(InitialHeaders(cfg)))
    ELSE InitialHeaders(cfg)

\* The points fit the room that init left for them.
Fitted == DOMAIN points = 1..Len(points) /\ Len(points) \in Nat /\ Len(points) <= MaxPoints(cfg)

\* The headers at each step of Close.
Chained ==
    /\ verdict = "open" /\ pc \notin {"pad", "end"} => headers = InitialHeaders(cfg)
    /\ pc \in {"table", "shrink", "pad"} => cfg.interval > 0
    /\ pc \in {"shrink", "pad"} => Len(points) < MaxPoints(cfg)
    /\ pc = "pad" => headers = Shrunk(InitialHeaders(cfg))
    /\ pc = "end" \/ verdict = "done" => headers = FinalHeaders
    /\ (pc \in {"shrink", "pad", "end"} \/ verdict = "done") /\ cfg.interval > 0 =>
           table = points

\* A seek table has room for a point at least (writeInitialMetadata).
LEMMA RoomForPoints == ASSUME NEW c, ConfigOK(c) PROVE MaxPoints(c) \in Nat /\ MaxPoints(c) > 0
<1>1. /\ c.maxPoints \in Nat /\ DefaultMaxPoints \in Nat /\ DefaultMaxPoints > 0
      /\ PointLimit \in Nat /\ PointLimit > 0
  BY SizesAssumption DEF ConfigOK
<1>2. QED
  BY <1>1 DEF MaxPoints, Least

\* A point is recorded only where there is room (emitBlock).
LEMMA FitKept == Headed /\ Headed' /\ Fitted /\ [Next]_vars => Fitted'
<1> SUFFICES ASSUME Headed, Headed', Fitted, [Next]_vars PROVE Fitted'
  OBVIOUS
<1>1. MaxPoints(cfg) \in Nat
  BY RoomForPoints DEF Headed
<1>2. CASE \E c \in Configs : Reset(c) \/ ResetFails(c)
  <2>1. PICK c \in Configs : points' = <<>> /\ cfg' = c
    BY <1>2 DEF Reset, ResetFails, Fresh
  <2>2. MaxPoints(c) \in Nat /\ MaxPoints(c) > 0 /\ MaxPoints(cfg') = MaxPoints(c)
    BY <2>1, ConfigsAssumption, RoomForPoints
  <2>3. Len(<<>>) = 0 /\ DOMAIN <<>> = 1..0
    OBVIOUS
  <2>4. QED
    BY <2>1, <2>2, <2>3 DEF Fitted
<1>3. ASSUME NEW n, RecordPoint(n), UNCHANGED cfg
      PROVE  Fitted'
  <2>1. CASE points' = points
    BY <2>1, <1>3 DEF Fitted
  <2>2. CASE points' # points
    <3>1. PICK x : points' = Append(points, x) /\ Len(points) < MaxPoints(cfg)
      BY <2>2, <1>3 DEF RecordPoint
    <3>2. DOMAIN points' = 1..Len(points') /\ Len(points') = Len(points) + 1
      BY <3>1 DEF Fitted
    <3>3. QED
      BY <3>1, <3>2, <1>1, <1>3 DEF Fitted
  <2>3. QED
    BY <2>1, <2>2
<1>4. CASE WriteJoin \/ WriteBlock \/ CloseFinal
  BY <1>4, <1>3 DEF WriteJoin, WriteBlock, CloseFinal, Emit
<1>5. CASE UNCHANGED <<points, cfg>>
  BY <1>5 DEF Fitted
<1>6. QED
  BY <1>2, <1>4, <1>5 DEF Next, Write, Closing, WriteShort, WriteStarts, WriteFails, WriteStash,
     Close, CloseFinalFails, CloseVerify, ClosePatches, ClosePatchFails, CloseEnds, EmitFails,
     ResetRejected, vars, stream

\* Each step of Close finds the headers that the one before left (init, Close).
LEMMA ChainKept == IInv /\ Headed /\ Chained /\ [Next]_vars => Chained'
<1> SUFFICES ASSUME IInv, Headed, Chained, [Next]_vars PROVE Chained'
  OBVIOUS
<1>0. pc # "idle" => verdict = "open"
  BY DEF IInv, Staged
<1>1. CASE \E c \in Configs : Reset(c) \/ ResetFails(c)
  <2>1. PICK c \in Configs :
            /\ cfg' = c /\ pc' = "idle" /\ verdict' \in {"open", "unusable"}
            /\ verdict' = "open" => headers' = InitialHeaders(c)
    BY <1>1 DEF Reset, ResetFails, Fresh, call
  <2>2. QED
    BY <2>1 DEF Chained
<1>2. CASE \/ \E n \in WriteLengths : WriteShort(n) \/ WriteStarts(n)
           \/ WriteJoin \/ WriteBlock \/ WriteFails \/ WriteStash
           \/ Close \/ CloseFinal \/ CloseFinalFails
  <2>1. /\ UNCHANGED <<cfg, headers>> /\ verdict' \in {verdict, "failed"}
        /\ pc' \in {"idle", "join", "blocks", "final", "verify"}
        /\ (pc = "idle" /\ Usable /\ ~closed) \/ pc \in {"join", "blocks", "final"}
    BY <1>2 DEF WriteShort, WriteStarts, WriteJoin, WriteBlock, WriteFails, WriteStash, Emit,
                EmitFails, Return, Close, CloseFinal, CloseFinalFails, CloseReturns, sink
  <2>2. verdict = "open" /\ pc \notin {"pad", "end"}
    BY <2>1, <1>0 DEF IInv, Typed, Staged, Usable
  <2>3. QED
    BY <2>1, <2>2 DEF Chained
<1>3. CASE CloseVerify
  <2>1. /\ pc = "verify" /\ UNCHANGED <<cfg, headers, points>>
        /\ \/ verdict' = "failed" /\ pc' = "idle"
           \/ ~cfg.seekable /\ verdict' = "done" /\ pc' = "idle"
           \/ pc' = "info" /\ verdict' = verdict
    BY <1>3 DEF CloseVerify, CloseReturns, sink, stream
  <2>2. verdict = "open" /\ headers = InitialHeaders(cfg)
    BY <2>1, <1>0 DEF Chained
  <2>3. ~cfg.seekable => ~(cfg.interval > 0)
    BY <2>2 DEF Headed, Usable, Unwritable
  <2>4. QED
    BY <2>1, <2>2, <2>3 DEF Chained, FinalHeaders
<1>4. CASE ClosePatches
  <2>1. /\ UNCHANGED <<cfg, points, verdict>> /\ verdict = "open" /\ Patched
        /\ pc' = CASE pc = "info"   -> AfterInfo
                   [] pc = "table"  -> AfterTable
                   [] pc = "shrink" -> "pad"
                   [] pc = "pad"    -> "end"
    BY <1>4, <1>0 DEF ClosePatches, Patched, stream
  <2>2. CASE pc = "info"
    <3>1. /\ headers = InitialHeaders(cfg) /\ headers' = headers
          /\ pc' = IF cfg.interval > 0 THEN "table" ELSE "end"
      BY <2>1, <2>2 DEF Chained, Patched, AfterInfo
    <3>2. QED
      BY <2>1, <3>1 DEF Chained, FinalHeaders
  <2>3. CASE pc = "table"
    <3>1. /\ headers = InitialHeaders(cfg) /\ headers' = headers /\ table' = points
          /\ pc' = (IF Len(points) < MaxPoints(cfg) THEN "shrink" ELSE "end")
          /\ cfg.interval > 0
      BY <2>1, <2>3 DEF Chained, Patched, AfterTable
    <3>2. QED
      BY <2>1, <3>1 DEF Chained, FinalHeaders
  <2>4. CASE pc = "shrink"
    <3>1. /\ headers = InitialHeaders(cfg) /\ table = points /\ table' = table
          /\ pc' = "pad" /\ cfg.interval > 0 /\ Len(points) < MaxPoints(cfg)
          /\ headers' = Shrunk(headers)
      BY <2>1, <2>4 DEF Chained, Patched, ShrinkTable, Shrunk
    <3>2. QED
      BY <2>1, <3>1 DEF Chained, Shrunk
  <2>5. CASE pc = "pad"
    <3>1. /\ headers = Shrunk(InitialHeaders(cfg)) /\ table = points /\ table' = table
          /\ pc' = "end" /\ cfg.interval > 0 /\ Len(points) < MaxPoints(cfg)
          /\ headers' = Padded(headers)
      BY <2>1, <2>5 DEF Chained, Patched, GrowPadding, Padded
    <3>2. headers' = FinalHeaders
      BY <3>1 DEF FinalHeaders
    <3>3. FinalHeaders' = FinalHeaders
      BY <2>1 DEF FinalHeaders, Padded, Shrunk
    <3>4. QED
      BY <2>1, <3>1, <3>2, <3>3 DEF Chained
  <2>6. QED
    BY <2>1, <2>2, <2>3, <2>4, <2>5 DEF Patched
<1>5. CASE ClosePatchFails \/ \E c \in Configs : ResetRejected(c)
  <2>1. pc' = "idle" /\ verdict' \in {"failed", "unusable"}
    BY <1>5 DEF ClosePatchFails, ResetRejected, CloseReturns, call
  <2>2. QED
    BY <2>1 DEF Chained
<1>6. CASE CloseEnds
  <2>1. /\ UNCHANGED <<cfg, headers, points, table>> /\ pc = "end" /\ pc' = "idle"
        /\ verdict' = "done"
    BY <1>6 DEF CloseEnds, CloseReturns, stream, sink
  <2>2. FinalHeaders' = FinalHeaders
    BY <2>1 DEF FinalHeaders, Padded, Shrunk
  <2>3. QED
    BY <2>1, <2>2 DEF Chained
<1>7. CASE UNCHANGED vars
  <2>1. UNCHANGED <<cfg, headers, points, table, pc, verdict>>
    BY <1>7 DEF vars, call, stream, sink
  <2>2. FinalHeaders' = FinalHeaders
    BY <2>1 DEF FinalHeaders, Padded, Shrunk
  <2>3. QED
    BY <2>1, <2>2 DEF Chained, Shrunk
<1>8. QED
  BY <1>1, <1>2, <1>3, <1>4, <1>5, <1>6, <1>7 DEF Next, Write, Closing

\* A new encoder has written the headers and recorded no point (NewEncoder).
LEMMA StartsChained == Init => Fitted /\ Chained
<1> SUFFICES ASSUME Init PROVE Fitted /\ Chained
  OBVIOUS
<1>1. MaxPoints(cfg) \in Nat
  BY ConfigsAssumption, RoomForPoints DEF Init
<1>2. Len(<<>>) = 0 /\ DOMAIN <<>> = 1..0
  OBVIOUS
<1>3. Fitted
  BY <1>1, <1>2 DEF Init, Fitted
<1>4. Chained
  BY DEF Init, Chained
<1>5. QED
  BY <1>3, <1>4

\* The header of the first block.
FirstAt == InfoBody - HeaderLen

\* Following the lengths in headers h from the first block leads to the offset start.
Leads(h, start) ==
    \E chain \in SUBSET DOMAIN h :
        /\ FirstAt \in chain
        /\ \A o \in chain : IF h[o].last THEN o + HeaderLen + h[o].len = start
                            ELSE o + HeaderLen + h[o].len \in chain

\* Headers h are those of configuration c, with a table of room for m points at t and the
\* first frame at a: where the blocks are, and what their headers say.
FirstBlocks(c, h, t, a, m) ==
    LET tags == c.tags # "none"
        seek == c.interval > 0
    IN  /\ m \in Nat /\ t \in Nat /\ a \in Nat /\ TagsLen \in Nat
        /\ tags => t = 46 + TagsLen
        /\ ~tags => t = 42
        /\ seek => a = t + 8 + m * 18
        /\ ~seek => a = t
        /\ DOMAIN h = {4} \cup (IF tags THEN {42} ELSE {}) \cup (IF seek THEN {t, a - 4} ELSE {})
        /\ h[4].len = 34 /\ (h[4].last <=> ~tags /\ ~seek)
        /\ tags => h[42].len = TagsLen /\ (h[42].last <=> ~seek)
        /\ seek => /\ h[t].len = m * 18 /\ ~h[t].last /\ DOMAIN h[t] = {"kind", "len", "last"}
                   /\ h[a - 4].len = 0 /\ h[a - 4].last

\* These are what writeInitialMetadata writes.
LEMMA FirstHeaders ==
    ASSUME NEW c, ConfigOK(c)
    PROVE  FirstBlocks(c, InitialHeaders(c), TableHeader(c), AudioStart(c), MaxPoints(c))
<1>1. PICK h, t, a, m : /\ h = InitialHeaders(c) /\ t = TableHeader(c)
                        /\ a = AudioStart(c) /\ m = MaxPoints(c)
  OBVIOUS
<1>2. m \in Nat /\ m > 0 /\ TagsLen \in Nat /\ c.interval \in Nat
  BY <1>1, RoomForPoints, SizesAssumption DEF ConfigOK
<1>3. (c.tags # "none" => t = 46 + TagsLen) /\ (c.tags = "none" => t = 42)
  BY <1>1, <1>2 DEF TableHeader, TagsBlock, InfoBody, InfoLen, HeaderLen
<1>4. (c.interval > 0 => a = t + 8 + m * 18) /\ (~(c.interval > 0) => a = t)
  BY <1>1, <1>2, <1>3 DEF AudioStart, SeekBodyOff, HeaderLen, PointLen
<1>5. t \in Nat /\ a \in Nat /\ t >= 42 /\ (c.tags # "none" => t > 42)
  BY <1>2, <1>3, <1>4
<1>6. InfoBody - HeaderLen = 4 /\ InfoBody + InfoLen = 42 /\ InfoLen = 34 /\ PointLen = 18
      /\ HeaderLen = 4
  BY DEF InfoBody, HeaderLen, InfoLen, PointLen
<1>7. DOMAIN h = {4} \cup (IF c.tags # "none" THEN {42} ELSE {})
                 \cup (IF c.interval > 0 THEN {t, a - 4} ELSE {})
  BY <1>1, <1>6 DEF InitialHeaders
<1>8. h[4].len = 34 /\ (h[4].last <=> ~(c.tags # "none") /\ ~(c.interval > 0))
  <2>1. h[4] = Block("info", InfoLen, ~(c.tags # "none") /\ ~(c.interval > 0))
    BY <1>1, <1>2, <1>4, <1>5, <1>6 DEF InitialHeaders, Block
  <2>2. Block("info", InfoLen, ~(c.tags # "none") /\ ~(c.interval > 0)).last
            <=> ~(c.tags # "none") /\ ~(c.interval > 0)
    BY DEF Block
  <2>3. Block("info", InfoLen, ~(c.tags # "none") /\ ~(c.interval > 0)).len = InfoLen
    BY DEF Block
  <2>4. QED
    BY <1>6, <2>1, <2>2, <2>3
<1>9. c.tags # "none" => h[42].len = TagsLen /\ (h[42].last <=> ~(c.interval > 0))
  <2>1. c.tags # "none" => h[42] = Block("tags", TagsLen, ~(c.interval > 0))
    BY <1>1, <1>2, <1>4, <1>5, <1>6 DEF InitialHeaders, Block
  <2>2. Block("tags", TagsLen, ~(c.interval > 0)).last <=> ~(c.interval > 0)
    BY DEF Block
  <2>3. Block("tags", TagsLen, ~(c.interval > 0)).len = TagsLen
    BY DEF Block
  <2>4. QED
    BY <2>1, <2>2, <2>3
<1>10. c.interval > 0 => /\ h[t].len = m * 18 /\ ~h[t].last
                         /\ DOMAIN h[t] = {"kind", "len", "last"}
  <2>1. c.interval > 0 => h[t] = Block("seek", m * 18, FALSE)
    BY <1>1, <1>5, <1>6 DEF InitialHeaders, Block
  <2>2. QED
    BY <2>1 DEF Block
<1>11. c.interval > 0 => h[a - 4].len = 0 /\ h[a - 4].last
  <2>1. c.interval > 0 => h[a - 4] = Block("pad", 0, TRUE)
    BY <1>1, <1>2, <1>4, <1>5, <1>6 DEF InitialHeaders, Block
  <2>2. QED
    BY <2>1 DEF Block
<1>12. QED
  BY <1>1, <1>2, <1>3, <1>4, <1>5, <1>7, <1>8, <1>9, <1>10, <1>11 DEF FirstBlocks

\* Every block that init writes is in the chain.
LEMMA InitialLeads ==
    ASSUME NEW c, ConfigOK(c)
    PROVE  Leads(InitialHeaders(c), AudioStart(c))
<1>1. PICK h, t, a, m : /\ h = InitialHeaders(c) /\ t = TableHeader(c)
                        /\ a = AudioStart(c) /\ m = MaxPoints(c)
  OBVIOUS
<1>2. FirstBlocks(c, h, t, a, m)
  BY <1>1, FirstHeaders
<1>3. ASSUME NEW o \in DOMAIN h
      PROVE  IF h[o].last THEN o + 4 + h[o].len = a ELSE o + 4 + h[o].len \in DOMAIN h
  <2>1. CASE o = 4
    BY <2>1, <1>2 DEF FirstBlocks
  <2>2. CASE c.tags # "none" /\ o = 42
    BY <2>2, <1>2 DEF FirstBlocks
  <2>3. CASE c.interval > 0 /\ o = t
    BY <2>3, <1>2 DEF FirstBlocks
  <2>4. CASE c.interval > 0 /\ o = a - 4
    BY <2>4, <1>2 DEF FirstBlocks
  <2>5. QED
    BY <2>1, <2>2, <2>3, <2>4, <1>2 DEF FirstBlocks
<1>4. 4 \in DOMAIN h
  BY <1>2 DEF FirstBlocks
<1>5. QED
  BY <1>1, <1>3, <1>4 DEF Leads, FirstAt, InfoBody, HeaderLen

\* After the shrink the padding is in the chain, and the block that was there is not.
LEMMA FinalLeads ==
    ASSUME ConfigOK(cfg), Fitted, cfg.interval > 0, Len(points) < MaxPoints(cfg)
    PROVE  /\ Leads(FinalHeaders, AudioStart(cfg))
           /\ FinalHeaders[TableHeader(cfg)].len = Len(points) * PointLen
<1>1. PICK h, t, a, m : /\ h = InitialHeaders(cfg) /\ t = TableHeader(cfg)
                        /\ a = AudioStart(cfg) /\ m = MaxPoints(cfg)
  OBVIOUS
<1>2. FirstBlocks(cfg, h, t, a, m)
  BY <1>1, FirstHeaders
<1>3. PICK n \in Nat : n = Len(points) /\ n < m
  BY <1>1 DEF Fitted
<1>4. /\ m \in Nat /\ t \in Nat /\ a \in Nat /\ TagsLen \in Nat /\ a = t + 8 + m * 18
      /\ t = 42 \/ t = 46 + TagsLen
  BY <1>2 DEF FirstBlocks
<1>5. PICK q : q = t + 4 + n * 18
  OBVIOUS
<1>6. FinalHeaders = Padded(Shrunk(h))
  BY <1>1 DEF FinalHeaders
<1>7. PICK g : g = [h EXCEPT ![t].len = n * 18]
  OBVIOUS
<1>8. PICK f : f = [o \in DOMAIN g \cup {q} |->
                      IF o = q THEN Block("pad", (m - n) * 18, TRUE) ELSE g[o]]
  OBVIOUS
<1>9. FinalHeaders = f
  BY <1>1, <1>3, <1>5, <1>6, <1>7, <1>8 DEF Padded, Shrunk, SeekBodyOff, HeaderLen, PointLen
<1>10. q \in Nat /\ q > t /\ q < a - 4 /\ t >= 42
  BY <1>3, <1>4, <1>5
<1>11. DOMAIN g = DOMAIN h /\ \A o \in DOMAIN h \ {t} : g[o] = h[o]
  BY <1>7
<1>12. g[t].len = n * 18 /\ ~g[t].last
  BY <1>2, <1>7 DEF FirstBlocks
<1>13. /\ DOMAIN f = DOMAIN h \cup {q}
       /\ f[q] = Block("pad", (m - n) * 18, TRUE)
       /\ \A o \in DOMAIN h \ {t, q} : f[o] = h[o]
       /\ f[t].len = n * 18 /\ ~f[t].last
  <2>1. t \in DOMAIN h /\ t # q
    BY <1>2, <1>10 DEF FirstBlocks
  <2>2. QED
    BY <2>1, <1>8, <1>11, <1>12
<1>14. f[4].len = 34 /\ ~f[4].last
  <2>1. 4 \in DOMAIN h \ {t, q}
    BY <1>2, <1>10 DEF FirstBlocks
  <2>2. QED
    BY <2>1, <1>2, <1>13 DEF FirstBlocks
<1>15. ASSUME cfg.tags # "none"
       PROVE  42 \in DOMAIN h /\ f[42].len = TagsLen /\ ~f[42].last
  <2>1. 42 \in DOMAIN h \ {t, q}
    BY <1>2, <1>10, <1>15 DEF FirstBlocks
  <2>2. QED
    BY <2>1, <1>2, <1>13, <1>15 DEF FirstBlocks
<1>16. PICK chain : chain = {4} \cup (IF cfg.tags = "none" THEN {} ELSE {42}) \cup {t, q}
  OBVIOUS
<1>17. ASSUME NEW o \in chain
       PROVE  IF f[o].last THEN o + 4 + f[o].len = a ELSE o + 4 + f[o].len \in chain
  <2>1. CASE o = 4
    BY <2>1, <1>2, <1>14, <1>16 DEF FirstBlocks
  <2>2. CASE cfg.tags # "none" /\ o = 42
    BY <2>2, <1>2, <1>15, <1>16 DEF FirstBlocks
  <2>3. CASE o = t
    BY <2>3, <1>3, <1>4, <1>5, <1>13, <1>16
  <2>4. CASE o = q
    <3>1. f[o].len = (m - n) * 18 /\ f[o].last
      BY <2>4, <1>13 DEF Block
    <3>2. q + 4 + (m - n) * 18 = a
      BY <1>3, <1>4, <1>5
    <3>3. QED
      BY <2>4, <3>1, <3>2
  <2>5. QED
    BY <2>1, <2>2, <2>3, <2>4, <1>16
<1>18. chain \in SUBSET DOMAIN f /\ 4 \in chain
  BY <1>2, <1>13, <1>15, <1>16 DEF FirstBlocks
<1>19. Leads(f, a)
  BY <1>17, <1>18 DEF Leads, FirstAt, InfoBody, HeaderLen
<1>20. QED
  BY <1>1, <1>3, <1>9, <1>13, <1>19 DEF PointLen

\* Whichever of Close's patches fail, the headers lead from the first block to the first
\* frame unless Close is about to write the padding or has failed, and a table that was
\* patched without an error holds the points recorded (init, Close).
THEOREM HeadersReachAudio == Spec => []ChainReachesAudio
<1>1. Spec => []IInv
  BY Initially, Inductive, PTL DEF Spec
<1>2. Spec => []Headed
  BY <1>1, StartsHeaded, HeadKept, PTL DEF Spec
<1>3. Spec => []Fitted
  BY <1>2, StartsChained, FitKept, PTL DEF Spec
<1>4. Spec => []Chained
  BY <1>1, <1>2, StartsChained, ChainKept, PTL DEF Spec
<1>5. IInv /\ Headed /\ Fitted /\ Chained => ChainReachesAudio
  <2> SUFFICES ASSUME IInv, Headed, Fitted, Chained, Usable, pc # "pad", verdict # "failed"
               PROVE  /\ Leads(headers, AudioStart(cfg))
                      /\ verdict = "done" /\ cfg.interval > 0 =>
                             /\ table = points
                             /\ headers[TableHeader(cfg)].len = Len(table) * PointLen
    BY DEF ChainReachesAudio, Leads, FirstAt, After
  <2>1. ConfigOK(cfg) /\ verdict \in {"open", "done"}
    BY DEF IInv, Typed, Headed, Usable
  <2>2. headers = InitialHeaders(cfg) \/ headers = FinalHeaders
    BY <2>1 DEF Chained
  <2>3. Leads(headers, AudioStart(cfg))
    BY <2>1, <2>2, InitialLeads, FinalLeads DEF FinalHeaders
  <2>4. ASSUME verdict = "done", cfg.interval > 0
        PROVE  table = points /\ headers[TableHeader(cfg)].len = Len(table) * PointLen
    <3>1. table = points /\ headers = FinalHeaders
      BY <2>4 DEF Chained
    <3>2. CASE Len(points) < MaxPoints(cfg)
      BY <2>1, <2>4, <3>1, <3>2, FinalLeads
    <3>3. CASE ~(Len(points) < MaxPoints(cfg))
      <4>1. Len(points) = MaxPoints(cfg)
        BY <3>3, <2>1, RoomForPoints DEF Fitted
      <4>2. headers = InitialHeaders(cfg) /\ cfg.interval # 0
        BY <3>1, <3>3, <2>1, <2>4 DEF FinalHeaders, ConfigOK
      <4>3. InitialHeaders(cfg)[TableHeader(cfg)].len = MaxPoints(cfg) * 18
        BY <2>1, <2>4, FirstHeaders DEF FirstBlocks
      <4>4. QED
        BY <3>1, <4>1, <4>2, <4>3 DEF PointLen
    <3>4. QED
      BY <3>2, <3>3
  <2>5. QED
    BY <2>3, <2>4
<1>6. QED
  BY <1>1, <1>2, <1>3, <1>4, <1>5, PTL

-----------------------------------------------------------------------------
(* The seek points.                                                         *)

\* A sink that failed writes left nothing in holds the frames and no more.
Counted ==
    /\ audioBytes \in Nat /\ end \in Nat /\ junk \in Nat
    /\ audioBytes = 0 <=> frames = <<>>
    /\ junk = 0 => end = audioBytes

\* Point x leads to frame k.
Marks(x, k) ==
    /\ x.sample = frames[k].first
    /\ x.samples = frames[k].samples
    /\ junk = 0 => x.offset = frames[k].at

\* Where the interval of d samples that follows the one of sample x starts.
NextStart(x, d) == (x \div d + 1) * d

\* What PointsLeadToFrames says, and where the interval after the last frame's starts.
PointsDue ==
    Usable /\ cfg.interval > 0 =>
        /\ \A i, j \in DOMAIN points : i < j => points[i].sample < points[j].sample
        /\ \A i \in DOMAIN points : \E k \in Reaching(cfg.interval) : Marks(points[i], k)
        /\ Len(points) < MaxPoints(cfg) =>
               /\ \A k \in Reaching(cfg.interval) :
                      \E i \in DOMAIN points : points[i].sample = frames[k].first
               /\ frames = <<>> => nextBoundary = cfg.interval
               /\ frames # <<>> =>
                      nextBoundary = NextStart(frames[Len(frames)].first, cfg.interval)

\* How emitBlock finds the boundary for a frame that starts at y after one that did at x.
Bounding(x, y, d) ==
    LET b == NextStart(x, d) IN
    /\ b \in Nat
    /\ y >= b <=> y \div d > x \div d
    /\ IF y >= b THEN b + ((y - b) \div d + 1) * d = NextStart(y, d) ELSE b = NextStart(y, d)

\* A frame that starts at y, after one that started at x, reaches a new interval of d when
\* it reaches the boundary after x; the boundary after y is then found from that one.
LEMMA BoundaryReached ==
    ASSUME NEW d \in Nat, d > 0, NEW x \in Nat, NEW y \in Nat, x <= y
    PROVE  Bounding(x, y, d)
<1>0. PICK b : b = (x \div d + 1) * d
  OBVIOUS
<1>1. PICK q \in Nat : q = x \div d /\ q * d <= x /\ x < q * d + d
  BY Division
<1>2. PICK r \in Nat : r = y \div d /\ r * d <= y /\ y < r * d + d
  BY Division
<1>3. q <= r
  BY <1>1, <1>2, DivisionGrows
<1>4. b = q * d + d /\ b \in Nat
  BY <1>0, <1>1
<1>5. NextStart(x, d) = b /\ NextStart(y, d) = (r + 1) * d
  BY <1>0, <1>2 DEF NextStart
<1>6. CASE r = q
  <2>1. (r + 1) * d = b /\ ~(y >= b)
    BY <1>2, <1>4, <1>6
  <2>2. QED
    BY <2>1, <1>1, <1>2, <1>4, <1>6, <1>5 DEF Bounding
<1>7. CASE r > q
  <2>1. PICK k \in Nat : r = q + 1 + k
    <3>1. r - q - 1 \in Nat /\ r = q + 1 + (r - q - 1)
      BY <1>7
    <3>2. QED
      BY <3>1
  <2>2. r * d = q * d + d + k * d /\ k * d \in Nat /\ q * d \in Nat
    BY <2>1
  <2>3. y - b \in Nat /\ k * d <= y - b /\ y - b < k * d + d
    BY <2>2, <1>2, <1>4
  <2>4. (y - b) \div d = k
    BY <2>3, Quotient
  <2>5. b + (k + 1) * d = (r + 1) * d
    <3>1. (k + 1) * d = k * d + d /\ (r + 1) * d = r * d + d
      OBVIOUS
    <3>2. QED
      BY <3>1, <2>2, <1>4
  <2>6. y >= b
    BY <2>3, <1>4
  <2>7. QED
    BY <2>4, <2>5, <2>6, <1>1, <1>2, <1>4, <1>7, <1>5 DEF Bounding
<1>8. QED
  BY <1>3, <1>6, <1>7

\* The sink holds more than the frames only where failed writes have left bytes (emitBlock).
LEMMA CountKept == Blocks /\ Counted /\ [Next]_vars => Counted'
<1> SUFFICES ASSUME Blocks, Counted, [Next]_vars PROVE Counted'
  OBVIOUS
<1>1. CASE \E c \in Configs : Reset(c) \/ ResetFails(c)
  BY <1>1 DEF Reset, ResetFails, Fresh, EmptySink, Counted
<1>2. CASE WriteJoin \/ WriteBlock \/ CloseFinal
  <2>1. PICK size, f :
            /\ size \in FrameSizes
            /\ frames' = Append(frames, f) /\ end' = end + size /\ junk' = junk
            /\ audioBytes' = audioBytes + size
    BY <1>2 DEF WriteJoin, WriteBlock, CloseFinal, Emit
  <2>2. size \in Nat /\ size > 0
    BY <2>1, SizesAssumption
  <2>3. frames' # <<>>
    BY <2>1 DEF Blocks
  <2>4. QED
    BY <2>1, <2>2, <2>3 DEF Counted
<1>3. CASE WriteFails \/ CloseFinalFails
  <2>1. /\ \E left \in 0..(MaxJunk - junk) : junk' = junk + left /\ end' = end + left
        /\ UNCHANGED <<frames, audioBytes>>
    BY <1>3 DEF WriteFails, CloseFinalFails, EmitFails, stream
  <2>2. QED
    BY <2>1, SizesAssumption DEF Counted
<1>4. CASE UNCHANGED <<frames, audioBytes, end, junk>>
  BY <1>4 DEF Counted
<1>5. QED
  BY <1>1, <1>2, <1>3, <1>4 DEF Next, Write, Closing, WriteShort, WriteStarts, WriteStash,
     Close, CloseVerify, ClosePatches, ClosePatchFails, CloseEnds, ResetRejected, vars, stream,
     sink

\* A frame gets a point when it reaches a new interval and there is room (emitBlock).
LEMMA EmitPoints ==
    ASSUME Blocks, Counted, Fitted, PointsDue, ConfigOK(cfg), Usable, cfg.interval > 0,
           NEW chunk, NEW final, Emit(chunk, final), UNCHANGED <<cfg, verdict>>,
           total = Len(frames) * BlockSize
    PROVE  PointsDue'
<1>1. PICK n, size :
          /\ frames' = Append(frames, [num |-> frameNum, first |-> total, samples |-> n,
                                       size |-> size, at |-> end])
          /\ RecordPoint(n) /\ junk' = junk
  BY DEF Emit
<1>2. PICK d \in Nat : d = cfg.interval /\ d > 0 /\ cfg'.interval = d
  BY DEF ConfigOK
<1>3. PICK l \in Nat : l = Len(frames) /\ DOMAIN frames = 1..l
  BY DEF Blocks
<1>4. PICK m \in Nat : m = l + 1
  BY <1>3
<1>5. /\ DOMAIN frames' = 1..m /\ Len(frames') = m /\ frames' # <<>>
      /\ \A i \in 1..l : frames'[i] = frames[i]
      /\ frames'[m].first = total /\ frames'[m].samples = n /\ frames'[m].at = end
  BY <1>1, <1>3, <1>4
<1>6. total \in Nat /\ \A i \in 1..l : frames[i].first \in Nat /\ frames[i].first < total
  <2>1. BlockSize \in Nat /\ BlockSize > 0
    BY SizesAssumption
  <2>2. ASSUME NEW i \in 1..l
        PROVE  frames[i].first \in Nat /\ frames[i].first < total
    <3>1. frames[i].first = (i - 1) * BlockSize
      BY <1>3 DEF Blocks, Numbered
    <3>2. i - 1 \in Nat /\ i - 1 < l
      OBVIOUS
    <3>3. ASSUME NEW x \in Nat, NEW y \in Nat, x < y
          PROVE  x * BlockSize < y * BlockSize /\ x * BlockSize \in Nat
      BY <3>3, <2>1
    <3>4. QED
      BY <3>1, <3>2, <3>3, <1>3
  <2>3. QED
    BY <2>1, <2>2, <1>3
<1>7. PICK R, S : R = Reaching(d) /\ S = Reaching(cfg.interval)'
  OBVIOUS
<1>8. /\ R = {i \in 1..l : i = 1 \/ frames[i].first \div d > frames[i - 1].first \div d}
      /\ S = {i \in 1..m : i = 1 \/ frames'[i].first \div d > frames'[i - 1].first \div d}
  BY <1>2, <1>3, <1>5, <1>7 DEF Reaching
<1>9. \A k \in R : k \in 1..l /\ k \in S /\ frames'[k] = frames[k]
  <2>1. TAKE k \in R
  <2>2. k \in 1..l /\ k \in 1..m
    BY <1>4, <1>8
  <2>3. k # 1 => k - 1 \in 1..l
    BY <2>2
  <2>4. QED
    BY <2>2, <2>3, <1>5, <1>8
<1>10. \A k \in S : k \in R \/ k = m
  <2>1. TAKE k \in S
  <2>2. CASE k \in 1..l
    <3>1. k # 1 => k - 1 \in 1..l
      BY <2>2
    <3>2. QED
      BY <2>2, <3>1, <1>5, <1>8
  <2>3. k \in 1..l \/ k = m
    BY <1>4, <1>8
  <2>4. QED
    BY <2>2, <2>3
<1>11. /\ l = 0 => m \in S
       /\ l > 0 => (m \in S <=> total \div d > frames[l].first \div d)
  <2>1. l = 0 => m = 1
    BY <1>4
  <2>2. l > 0 => m # 1 /\ m - 1 = l /\ l \in 1..l
    BY <1>4
  <2>3. m \in 1..m
    BY <1>4
  <2>4. QED
    BY <2>1, <2>2, <2>3, <1>5, <1>8
<1>12. PICK room \in BOOLEAN : room <=> Len(points) < MaxPoints(cfg)
  OBVIOUS
<1>13. /\ \A i, j \in DOMAIN points : i < j => points[i].sample < points[j].sample
       /\ \A i \in DOMAIN points : \E k \in R : Marks(points[i], k)
       /\ room => /\ \A k \in R : \E i \in DOMAIN points : points[i].sample = frames[k].first
                  /\ l = 0 => nextBoundary = d
                  /\ l > 0 => nextBoundary = NextStart(frames[l].first, d)
  BY <1>2, <1>3, <1>7, <1>12 DEF PointsDue
<1>14. ASSUME NEW x, NEW k \in R, Marks(x, k)
       PROVE  k \in S /\ Marks(x, k)'
  BY <1>1, <1>9, <1>14 DEF Marks
<1>15. frames # <<>> <=> l > 0
  BY <1>3
\* The point is due exactly where the frame reaches a new interval.
<1>16. room => (PointDue(total) <=> m \in S)
  <2>1. CASE l = 0
    BY <2>1, <1>11, <1>15 DEF PointDue, Counted
  <2>2. CASE l > 0 /\ room
    <3>1. PICK x \in Nat : x = frames[l].first /\ x <= total
      BY <2>2, <1>6
    <3>2. nextBoundary = NextStart(x, d)
      BY <3>1, <2>2, <1>13
    <3>3. Bounding(x, total, d)
      BY <3>1, <1>2, <1>6, BoundaryReached
    <3>4. total >= nextBoundary <=> total \div d > x \div d
      BY <3>2, <3>3 DEF Bounding
    <3>5. audioBytes # 0
      BY <2>2, <1>15 DEF Counted
    <3>6. QED
      BY <2>2, <3>1, <3>4, <3>5, <1>11 DEF PointDue
  <2>3. QED
    BY <2>1, <2>2
\* And the boundary is the one after the frame.
<1>17. room => IF total >= nextBoundary
               THEN nextBoundary + ((total - nextBoundary) \div d + 1) * d = NextStart(total, d)
               ELSE nextBoundary = NextStart(total, d)
  <2>1. CASE l = 0 /\ room
    <3>1. total = 0 /\ nextBoundary = d
      BY <2>1, <1>3, <1>13, SizesAssumption
    <3>2. NextStart(0, d) = d /\ ~(0 >= d)
      BY <1>2 DEF NextStart
    <3>3. QED
      BY <3>1, <3>2
  <2>2. CASE l > 0 /\ room
    <3>1. PICK x \in Nat : x = frames[l].first /\ x <= total
      BY <2>2, <1>6
    <3>2. nextBoundary = NextStart(x, d)
      BY <3>1, <2>2, <1>13
    <3>3. Bounding(x, total, d)
      BY <3>1, <1>2, <1>6, BoundaryReached
    <3>4. QED
      BY <3>2, <3>3 DEF Bounding
  <2>3. QED
    BY <2>1, <2>2
<1>18. CASE room /\ m \in S
  <2>1. PICK x : /\ points' = Append(points, x)
                 /\ x.sample = total /\ x.samples = n /\ x.offset = audioBytes
                 /\ nextBoundary' = NextStart(total, d)
    BY <1>1, <1>2, <1>12, <1>16, <1>17, <1>18 DEF RecordPoint
  <2>2. PICK w \in Nat : w = Len(points) /\ DOMAIN points = 1..w
    BY DEF Fitted
  <2>3. /\ DOMAIN points' = 1..(w + 1) /\ points'[w + 1] = x
        /\ \A i \in 1..w : points'[i] = points[i]
    BY <2>1, <2>2
  <2>4. Marks(x, m)'
    BY <2>1, <1>1, <1>5 DEF Marks, Counted
  <2>5. \A i \in DOMAIN points' : i \in DOMAIN points \/ i = w + 1
    BY <2>2, <2>3
  <2>6. \A i \in DOMAIN points' : \E k \in S : Marks(points[i], k)'
    <3>1. TAKE i \in DOMAIN points'
    <3>2. CASE i = w + 1
      <4>1. points'[i] = x
        BY <3>2, <2>3
      <4>2. QED
        BY <4>1, <2>4, <1>18
    <3>3. CASE i \in DOMAIN points
      <4>1. PICK k \in R : Marks(points[i], k)
        BY <3>3, <1>13
      <4>2. points'[i] = points[i]
        BY <3>3, <2>2, <2>3
      <4>3. PICK y : y = points[i] /\ points'[i] = y
        BY <4>2
      <4>4. k \in S /\ Marks(y, k)'
        BY <4>1, <4>3, <1>14
      <4>5. QED
        BY <4>3, <4>4
    <3>4. QED
      BY <3>2, <3>3, <2>5
  <2>7. \A i \in DOMAIN points : points[i].sample < total
    BY <1>6, <1>9, <1>13 DEF Marks
  <2>8. \A i, j \in DOMAIN points' : i < j => points'[i].sample < points'[j].sample
    <3>1. TAKE i, j \in DOMAIN points'
    <3>2. HAVE i < j
    <3>3. i \in DOMAIN points
      BY <3>2, <2>2, <2>3
    <3>4. CASE j \in DOMAIN points
      BY <3>2, <3>3, <3>4, <2>2, <2>3, <1>13
    <3>5. CASE j = w + 1
      BY <3>3, <3>5, <2>1, <2>2, <2>3, <2>7
    <3>6. QED
      BY <3>4, <3>5, <2>5
  <2>9. \A k \in S : \E i \in DOMAIN points' : points'[i].sample = frames'[k].first
    <3>1. TAKE k \in S
    <3>2. CASE k = m
      <4>1. w + 1 \in DOMAIN points'
        BY <2>2, <2>3
      <4>2. QED
        BY <3>2, <4>1, <2>1, <2>3, <1>5
    <3>3. CASE k \in R
      <4>1. PICK i \in DOMAIN points : points[i].sample = frames[k].first
        BY <3>3, <1>13, <1>18
      <4>2. i \in DOMAIN points' /\ points'[i] = points[i]
        BY <2>2, <2>3
      <4>3. QED
        BY <3>3, <4>1, <4>2, <1>9
    <3>4. QED
      BY <3>2, <3>3, <1>10
  <2>10. QED
    BY <2>1, <2>6, <2>8, <2>9, <1>2, <1>5, <1>7 DEF PointsDue
<1>19. CASE ~(room /\ m \in S)
  <2>1. points' = points /\ nextBoundary' = nextBoundary
    BY <1>1, <1>2, <1>12, <1>16, <1>19 DEF RecordPoint
  <2>2. \A i \in DOMAIN points' : \E k \in S : Marks(points[i], k)'
    <3>1. TAKE i \in DOMAIN points'
    <3>2. PICK k \in R : Marks(points[i], k)
      BY <2>1, <1>13
    <3>3. PICK y : y = points[i] /\ points'[i] = y
      BY <2>1
    <3>4. k \in S /\ Marks(y, k)'
      BY <3>2, <3>3, <1>14
    <3>5. QED
      BY <3>3, <3>4
  <2>3. ASSUME room
        PROVE  /\ \A k \in S : \E i \in DOMAIN points' : points'[i].sample = frames'[k].first
               /\ nextBoundary' = NextStart(total, d)
    <3>1. m \notin S /\ ~PointDue(total)
      BY <2>3, <1>16, <1>19
    <3>2. \A k \in S : k \in R
      BY <3>1, <1>10
    <3>3. ~(total >= nextBoundary)
      BY <3>1 DEF PointDue
    <3>4. QED
      BY <3>2, <3>3, <2>1, <2>3, <1>9, <1>13, <1>17
  <2>4. room <=> Len(points') < MaxPoints(cfg')
    BY <2>1, <1>12
  <2>5. QED
    BY <2>1, <2>2, <2>3, <2>4, <1>2, <1>5, <1>7, <1>13 DEF PointsDue
<1>20. QED
  BY <1>18, <1>19

\* Bytes that a failed write leaves are all that a point may fail to allow for (emitBlock).
LEMMA PointsStay ==
    ASSUME PointsDue, Counted, Counted', UNCHANGED <<cfg, frames, points, nextBoundary>>,
           Usable' => Usable, junk' = 0 => junk = 0
    PROVE  PointsDue'
<1> SUFFICES ASSUME Usable, cfg.interval > 0 PROVE PointsDue'
  BY DEF PointsDue
<1>1. Reaching(cfg.interval)' = Reaching(cfg.interval)
  BY DEF Reaching
<1>2. \A x, k : Marks(x, k) => (x.sample = frames'[k].first /\ x.samples = frames'[k].samples
                               /\ (junk' = 0 => x.offset = frames'[k].at))
  BY DEF Marks
<1>3. \A i \in DOMAIN points : \E k \in Reaching(cfg.interval)' : Marks(points[i], k)'
  BY <1>1, <1>2 DEF PointsDue, Marks
<1>4. QED
  BY <1>1, <1>3 DEF PointsDue

\* Every step keeps the points (init, emitBlock).
LEMMA PointsKept ==
    /\ IInv /\ Blocks /\ Headed /\ Headed' /\ Fitted /\ Counted /\ Counted' /\ PointsDue
    /\ [Next]_vars
    => PointsDue'
<1> SUFFICES ASSUME IInv, Blocks, Headed, Headed', Fitted, Counted, Counted', PointsDue,
                    [Next]_vars
             PROVE  PointsDue'
  OBVIOUS
<1>1. CASE \E c \in Configs : Reset(c) \/ ResetFails(c)
  <2>1. PICK c \in Configs : Fresh(c) /\ EmptySink
    BY <1>1 DEF Reset, ResetFails
  <2>2. /\ cfg' = c /\ points' = <<>> /\ frames' = <<>>
        /\ nextBoundary' = IF c.interval > 0 /\ c.seekable THEN c.interval ELSE 0
    BY <2>1 DEF Fresh, EmptySink
  <2>3. Usable' /\ c.interval > 0 => c.seekable
    BY <2>2 DEF Headed, Unwritable
  <2>4. DOMAIN <<>> = {}
    OBVIOUS
  <2>5. Reaching(cfg.interval)' = {}
    BY <2>2, <2>4 DEF Reaching
  <2>6. QED
    BY <2>2, <2>3, <2>4, <2>5 DEF PointsDue
<1>2. CASE WriteJoin \/ WriteBlock \/ CloseFinal
  <2>1. /\ \E chunk, final : Emit(chunk, final)
        /\ UNCHANGED <<cfg, verdict>> /\ pc \in {"join", "blocks", "final"}
    BY <1>2 DEF WriteJoin, WriteBlock, CloseFinal
  <2>2. Usable /\ total = Len(frames) * BlockSize
    BY <2>1, WritingOpen DEF IInv, Staged, Usable, Blocks
  <2>3. CASE cfg.interval > 0
    <3>1. ConfigOK(cfg)
      BY DEF Headed
    <3>2. QED
      BY <2>1, <2>2, <2>3, <3>1, EmitPoints
  <2>4. CASE ~(cfg.interval > 0)
    BY <2>1, <2>4 DEF PointsDue
  <2>5. QED
    BY <2>3, <2>4
<1>3. CASE WriteFails \/ CloseFinalFails
  <2>1. /\ EmitFails /\ cfg' = cfg /\ verdict' \in {verdict, "failed"}
        /\ pc \in {"join", "blocks", "final"}
    BY <1>3 DEF WriteFails, CloseFinalFails, CloseReturns
  <2>2. Usable
    BY <2>1 DEF IInv, Staged, Usable
  <2>3. PICK left \in 0..(MaxJunk - junk) : junk' = junk + left
    BY <2>1 DEF EmitFails
  <2>4. junk' = 0 => junk = 0
    BY <2>3, SizesAssumption DEF Counted
  <2>5. QED
    BY <2>1, <2>2, <2>4, PointsStay DEF EmitFails, stream
<1>4. CASE \/ \E n \in WriteLengths : WriteShort(n) \/ WriteStarts(n)
           \/ WriteStash \/ Close \/ CloseVerify \/ ClosePatches \/ ClosePatchFails
           \/ CloseEnds \/ (\E c \in Configs : ResetRejected(c)) \/ UNCHANGED vars
  <2>1. /\ UNCHANGED <<cfg, frames, points, nextBoundary, junk>>
        /\ \/ verdict' = verdict \/ verdict' = "unusable"
           \/ verdict' \in {"failed", "done"} /\ (pc # "idle" \/ (Usable /\ ~closed))
    BY <1>4 DEF WriteShort, WriteStarts, WriteStash, Close, CloseVerify, ClosePatches,
                ClosePatchFails, CloseEnds, CloseReturns, ResetRejected, vars, stream, sink
  <2>2. Usable' => Usable
    BY <2>1 DEF IInv, Staged, Usable
  <2>3. QED
    BY <2>1, <2>2, PointsStay
<1>5. QED
  BY <1>1, <1>2, <1>3, <1>4 DEF Next, Write, Closing

\* A new encoder has no point and an empty sink (NewEncoder).
LEMMA StartsPointed == Init => Counted /\ PointsDue
<1> SUFFICES ASSUME Init PROVE Counted /\ PointsDue
  OBVIOUS
<1>1. DOMAIN <<>> = {}
  OBVIOUS
<1>2. points = <<>> /\ frames = <<>> /\ nextBoundary = cfg.interval
  BY DEF Init
<1>3. Reaching(cfg.interval) = {}
  BY <1>1, <1>2 DEF Reaching
<1>4. PointsDue
  BY <1>1, <1>2, <1>3 DEF PointsDue
<1>5. QED
  BY <1>4 DEF Init, Counted

\* Whatever fails between them, the seek points are those of the frames that reach a new
\* interval, in order, and their offsets lead to those frames unless a failed write left
\* bytes in the sink (emitBlock, nextBoundary).
THEOREM PointsAreTrue == Spec => []PointsLeadToFrames
<1>1. Spec => [](IInv /\ Blocks)
  <2>1. Spec => []IInv
    BY Initially, Inductive, PTL DEF Spec
  <2>2. QED
    BY <2>1, StartsNumbered, NumberingKept, PTL DEF Spec
<1>2. Spec => [](Headed /\ Fitted)
  <2>1. Spec => []Headed
    BY <1>1, StartsHeaded, HeadKept, PTL DEF Spec
  <2>2. QED
    BY <2>1, StartsChained, FitKept, PTL DEF Spec
<1>3. Spec => []Counted
  BY <1>1, StartsPointed, CountKept, PTL DEF Spec
<1>4. Spec => []PointsDue
  BY <1>1, <1>2, <1>3, StartsPointed, PointsKept, PTL DEF Spec
<1>5. PointsDue => PointsLeadToFrames
  BY DEF PointsDue, PointsLeadToFrames, Marks
<1>6. QED
  BY <1>4, <1>5, PTL

-----------------------------------------------------------------------------
(* Lists.                                                                   *)

\* A function on 1..n is a list of n elements.
LEMMA ListIs ==
    ASSUME NEW S, NEW n \in Nat, NEW u \in [1..n -> S]
    PROVE  u \in Seq(S) /\ Len(u) = n
<1>1. u \in Seq(S)
  BY SeqDef
<1>2. DOMAIN u = 1..n
  OBVIOUS
<1>3. QED
  BY <1>1, <1>2, LenProperties

-----------------------------------------------------------------------------
(* Sums.                                                                    *)

\* g is the sums of the first of n's elements.
Sums(g, a, n) == g = [i \in 0..Len(n) |-> IF i = 0 THEN a ELSE g[i - 1] + n[i]]

\* There are such sums.
LEMMA SumsExist ==
    ASSUME NEW a \in Int, NEW n, Len(n) \in Nat, \A i \in 1..Len(n) : n[i] \in Int
    PROVE  \E g \in [0..Len(n) -> Int] : Sums(g, a, n)
<1>1. PICK step : step = [x \in Nat \X Int |-> IF x[1] \in 1..Len(n) THEN x[2] + n[x[1]] ELSE 0]
  OBVIOUS
<1>2. step \in [Nat \X Int -> Int]
  <2>1. ASSUME NEW x \in Nat \X Int
        PROVE  (IF x[1] \in 1..Len(n) THEN x[2] + n[x[1]] ELSE 0) \in Int
    OBVIOUS
  <2>2. QED
    BY <1>1, <2>1
<1>3. PICK g \in [0..Len(n) -> Int] : Builds(g, a, step, Len(n))
  BY <1>2, BuildExists
<1>4. \A i \in 0..Len(n) : g[i] = IF i = 0 THEN a ELSE g[i - 1] + n[i]
  <2>1. TAKE i \in 0..Len(n)
  <2>2. CASE i = 0
    BY <2>2, <1>3 DEF Builds
  <2>3. CASE i # 0
    <3>1. i \in 1..Len(n) /\ i - 1 \in 0..Len(n)
      BY <2>3
    <3>2. <<i, g[i - 1]>> \in Nat \X Int
      BY <3>1, <1>3
    <3>3. step[<<i, g[i - 1]>>] = g[i - 1] + n[i]
      BY <1>1, <3>1, <3>2
    <3>4. QED
      BY <2>3, <3>1, <3>3, <1>3 DEF Builds
  <2>4. QED
    BY <2>2, <2>3
<1>5. Sums(g, a, n)
  <2>1. g = [i \in 0..Len(n) |-> g[i]]
    BY <1>3
  <2>2. QED
    BY <2>1, <1>4 DEF Sums
<1>6. QED
  BY <1>5

\* SumsFrom is such sums.
LEMMA SumsFromIs ==
    ASSUME NEW a \in Int, NEW n, Len(n) \in Nat, \A i \in 1..Len(n) : n[i] \in Int
    PROVE  Sums(SumsFrom(a, n), a, n)
<1> DEFINE f == CHOOSE sum : sum = [i \in 0..Len(n) |-> IF i = 0 THEN a ELSE sum[i - 1] + n[i]]
<1>1. \E g : g = [i \in 0..Len(n) |-> IF i = 0 THEN a ELSE g[i - 1] + n[i]]
  <2>1. PICK g : Sums(g, a, n)
    BY SumsExist
  <2>2. QED
    BY <2>1 DEF Sums
<1>2. f = [i \in 0..Len(n) |-> IF i = 0 THEN a ELSE f[i - 1] + n[i]]
  BY <1>1
<1>3. SumsFrom(a, n) = f
  BY DEF SumsFrom
<1> HIDE DEF f
<1>4. QED
  BY <1>2, <1>3 DEF Sums

\* Their first value is a, and every later one adds an element.
LEMMA SumsSteps ==
    ASSUME NEW a \in Int, NEW n, Len(n) \in Nat, \A i \in 1..Len(n) : n[i] \in Int
    PROVE  /\ SumsFrom(a, n)[0] = a
           /\ \A i \in 1..Len(n) : SumsFrom(a, n)[i] = SumsFrom(a, n)[i - 1] + n[i]
<1>1. PICK g : g = SumsFrom(a, n)
  OBVIOUS
<1>2. Sums(g, a, n)
  BY <1>1, SumsFromIs
<1>3. g = [i \in 0..Len(n) |-> IF i = 0 THEN a ELSE g[i - 1] + n[i]]
  BY <1>2, Zenon DEF Sums
<1>4. g[0] = a
  <2>1. 0 \in 0..Len(n)
    OBVIOUS
  <2>2. g[0] = IF 0 = 0 THEN a ELSE g[0 - 1] + n[0]
    BY <1>3, <2>1, Zenon
  <2>3. QED
    BY <2>2
<1>5. ASSUME NEW i \in 1..Len(n) PROVE g[i] = g[i - 1] + n[i]
  <2>1. i \in 0..Len(n) /\ i # 0
    OBVIOUS
  <2>2. g[i] = IF i = 0 THEN a ELSE g[i - 1] + n[i]
    BY <1>3, <2>1, Zenon
  <2>3. QED
    BY <2>1, <2>2
<1>6. QED
  BY <1>1, <1>4, <1>5

\* Sums of naturals are naturals that grow.
LEMMA SumsGrow ==
    ASSUME NEW a \in Nat, NEW n, Len(n) \in Nat, \A i \in 1..Len(n) : n[i] \in Nat
    PROVE  /\ \A i \in 0..Len(n) : SumsFrom(a, n)[i] \in Nat
           /\ \A i, j \in 0..Len(n) : i <= j => SumsFrom(a, n)[i] <= SumsFrom(a, n)[j]
<1>1. PICK g : g = SumsFrom(a, n)
  OBVIOUS
<1>2. g[0] = a /\ \A i \in 1..Len(n) : g[i] = g[i - 1] + n[i]
  BY <1>1, SumsSteps
<1> DEFINE T == {k \in Nat : k <= Len(n) =>
                     g[k] \in Nat /\ \A i \in 0..k : g[i] \in Nat /\ g[i] <= g[k]}
<1>3. 0 \in T
  BY <1>2
<1>4. ASSUME NEW k \in Nat, k \in T PROVE k + 1 \in T
  <2> SUFFICES ASSUME k + 1 <= Len(n)
               PROVE  /\ g[k + 1] \in Nat
                      /\ \A i \in 0..(k + 1) : g[i] \in Nat /\ g[i] <= g[k + 1]
    OBVIOUS
  <2>1. k + 1 \in 1..Len(n) /\ k + 1 - 1 = k
    OBVIOUS
  <2>2. g[k + 1] = g[k] + n[k + 1] /\ n[k + 1] \in Nat
    BY <2>1, <1>2
  <2>3. g[k] \in Nat /\ \A i \in 0..k : g[i] \in Nat /\ g[i] <= g[k]
    BY <1>4
  <2>4. \A i \in 0..(k + 1) : i \in 0..k \/ i = k + 1
    OBVIOUS
  <2>5. QED
    BY <2>2, <2>3, <2>4
<1>5. Nat \subseteq T
  BY <1>3, <1>4, NatInd
<1>6. QED
  BY <1>1, <1>5

\* n and m are integers, the first u of them the same.
Alike(n, m, u) ==
    /\ Len(n) \in Nat /\ \A i \in 1..Len(n) : n[i] \in Int
    /\ Len(m) \in Nat /\ \A i \in 1..Len(m) : m[i] \in Int
    /\ u <= Len(n) /\ u <= Len(m) /\ \A i \in 1..u : n[i] = m[i]

\* They depend only on the elements that are summed.
LEMMA SumsAgree ==
    ASSUME NEW a \in Int, NEW n, NEW m, NEW u \in Nat, Alike(n, m, u)
    PROVE  \A i \in 0..u : SumsFrom(a, n)[i] = SumsFrom(a, m)[i]
<1>0. /\ Len(n) \in Nat /\ \A i \in 1..Len(n) : n[i] \in Int
      /\ Len(m) \in Nat /\ \A i \in 1..Len(m) : m[i] \in Int
      /\ u <= Len(n) /\ u <= Len(m) /\ \A i \in 1..u : n[i] = m[i]
  BY DEF Alike
<1>1. PICK g, h : g = SumsFrom(a, n) /\ h = SumsFrom(a, m)
  OBVIOUS
<1>2. g[0] = a /\ \A i \in 1..Len(n) : g[i] = g[i - 1] + n[i]
  BY <1>0, <1>1, SumsSteps
<1>3. h[0] = a /\ \A i \in 1..Len(m) : h[i] = h[i - 1] + m[i]
  BY <1>0, <1>1, SumsSteps
<1> DEFINE T == {k \in Nat : k <= u => g[k] = h[k]}
<1>4. 0 \in T
  BY <1>2, <1>3
<1>5. ASSUME NEW k \in Nat, k \in T PROVE k + 1 \in T
  <2> SUFFICES ASSUME k + 1 <= u PROVE g[k + 1] = h[k + 1]
    OBVIOUS
  <2>1. /\ k + 1 \in 1..Len(n) /\ k + 1 \in 1..Len(m) /\ k + 1 \in 1..u
        /\ k + 1 - 1 = k /\ k <= u
    BY <1>0
  <2>2. g[k + 1] = g[k] + n[k + 1] /\ h[k + 1] = h[k] + m[k + 1] /\ n[k + 1] = m[k + 1]
    BY <2>1, <1>0, <1>2, <1>3
  <2>3. g[k] = h[k]
    BY <1>5, <2>1
  <2>4. QED
    BY <2>2, <2>3
<1>6. Nat \subseteq T
  BY <1>4, <1>5, NatInd
<1>7. QED
  BY <1>1, <1>6

-----------------------------------------------------------------------------
(* The tags' lengths.                                                       *)

\* Comments of naturals take at least their length fields.
LEMMA CommentSums ==
    ASSUME NEW c \in Seq(Nat)
    PROVE  LET s == SumsFrom(0, [i \in 1..Len(c) |-> 4 + c[i]]) IN
           /\ s[0] = 0
           /\ \A i \in 1..Len(c) : s[i] = s[i - 1] + (4 + c[i])
           /\ \A i \in 0..Len(c) : s[i] \in Nat /\ 4 * i <= s[i] /\ s[i] <= CommentBytes(c)
           /\ CommentBytes(c) = s[Len(c)]
<1>1. PICK n : n = [i \in 1..Len(c) |-> 4 + c[i]]
  OBVIOUS
<1>2. PICK s : s = SumsFrom(0, n)
  OBVIOUS
<1>3. Len(c) \in Nat /\ \A i \in 1..Len(c) : c[i] \in Nat
  OBVIOUS
<1>4. Len(n) = Len(c) /\ \A i \in 1..Len(c) : n[i] = 4 + c[i]
  BY <1>1, <1>3
<1>5. Len(n) \in Nat /\ \A i \in 1..Len(n) : n[i] \in Nat /\ n[i] \in Int
  BY <1>3, <1>4
<1>6. /\ SumsFrom(0, n)[0] = 0
      /\ \A i \in 1..Len(n) : SumsFrom(0, n)[i] = SumsFrom(0, n)[i - 1] + n[i]
  BY <1>5, SumsSteps
<1>7. /\ \A i \in 0..Len(n) : SumsFrom(0, n)[i] \in Nat
      /\ \A i, j \in 0..Len(n) : i <= j => SumsFrom(0, n)[i] <= SumsFrom(0, n)[j]
  BY <1>5, SumsGrow
<1>8. s[0] = 0 /\ \A i \in 1..Len(c) : s[i] = s[i - 1] + (4 + c[i])
  BY <1>2, <1>4, <1>6
<1>9. /\ \A i \in 0..Len(c) : s[i] \in Nat
      /\ \A i \in 0..Len(c) : s[i] <= s[Len(c)]
  BY <1>2, <1>3, <1>4, <1>7
<1> DEFINE T == {k \in Nat : k <= Len(c) => 4 * k <= s[k]}
<1>10. 0 \in T
  BY <1>8
<1>11. ASSUME NEW k \in Nat, k \in T PROVE k + 1 \in T
  <2> SUFFICES ASSUME k + 1 <= Len(c) PROVE 4 * (k + 1) <= s[k + 1]
    OBVIOUS
  <2>1. k + 1 \in 1..Len(c) /\ k \in 0..Len(c) /\ k + 1 - 1 = k
    BY <1>3
  <2>2. PICK x \in Nat, e \in Nat : x = s[k] /\ e = c[k + 1] /\ 4 * k <= x
    BY <2>1, <1>3, <1>9, <1>11
  <2>3. s[k + 1] = x + (4 + e)
    BY <2>1, <2>2, <1>8
  <2>4. QED
    BY <2>2, <2>3
<1>12. Nat \subseteq T
  BY <1>10, <1>11, NatInd
<1>13. CommentBytes(c) = s[Len(c)]
  BY <1>1, <1>2 DEF CommentBytes
<1>14. QED
  BY <1>1, <1>2, <1>3, <1>8, <1>9, <1>12, <1>13

\* s adds up length fields and comments, and g is what is left of l after them.
Adding(s, c, n) ==
    /\ s[0] = 0 /\ \A i \in 1..n : s[i] = s[i - 1] + (4 + c[i])
    /\ \A i \in 0..n : s[i] \in Nat
Leaving(g, l, c, n) ==
    /\ g[0] = l /\ \A i \in 1..n : g[i] = g[i - 1] - 4 - c[i]
    /\ \A i \in 1..n : c[i] \in Nat

\* Taking them off one at a time is taking off their sums.
LEMMA TakenOff ==
    ASSUME NEW l \in Int, NEW n \in Nat, NEW c, NEW s, Adding(s, c, n), NEW g, Leaving(g, l, c, n)
    PROVE  \A i \in 0..n : g[i] = l - s[i]
<1>0. /\ s[0] = 0 /\ \A i \in 1..n : s[i] = s[i - 1] + (4 + c[i])
      /\ \A i \in 0..n : s[i] \in Nat
      /\ g[0] = l /\ \A i \in 1..n : g[i] = g[i - 1] - 4 - c[i]
      /\ \A i \in 1..n : c[i] \in Nat
  BY DEF Adding, Leaving
<1> DEFINE T == {k \in Nat : k <= n => g[k] = l - s[k]}
<1>1. 0 \in T
  BY <1>0
<1>2. ASSUME NEW k \in Nat, k \in T PROVE k + 1 \in T
  <2> SUFFICES ASSUME k + 1 <= n PROVE g[k + 1] = l - s[k + 1]
    OBVIOUS
  <2>1. k + 1 \in 1..n /\ k + 1 \in 0..n /\ k \in 0..n /\ k + 1 - 1 = k /\ k + 1 # 0
    OBVIOUS
  <2>2. PICK x \in Nat, e \in Nat : x = s[k] /\ e = c[k + 1]
    BY <2>1, <1>0
  <2>3. s[k + 1] = x + (4 + e)
    BY <2>1, <2>2, <1>0
  <2>4. g[k] = l - x
    BY <1>2, <2>1, <2>2
  <2>5. g[k + 1] = (l - x) - 4 - e
    BY <2>1, <2>2, <2>4, <1>0
  <2>6. QED
    BY <2>3, <2>5
<1>3. Nat \subseteq T
  BY <1>1, <1>2, NatInd
<1>4. QED
  BY <1>3

\* So there is a list of what is left.
LEMMA LeftExists ==
    ASSUME NEW l \in Int, NEW c \in Seq(Nat)
    PROVE  \E g : g = [i \in 0..Len(c) |-> IF i = 0 THEN l ELSE g[i - 1] - 4 - c[i]]
<1>1. PICK s : s = SumsFrom(0, [i \in 1..Len(c) |-> 4 + c[i]])
  OBVIOUS
<1>2. Len(c) \in Nat /\ \A i \in 1..Len(c) : c[i] \in Nat
  OBVIOUS
<1>3. /\ s[0] = 0 /\ \A i \in 1..Len(c) : s[i] = s[i - 1] + (4 + c[i])
      /\ \A i \in 0..Len(c) : s[i] \in Nat
  BY <1>1, CommentSums
<1>4. PICK g : g = [i \in 0..Len(c) |-> l - s[i]]
  OBVIOUS
<1>5. \A i \in 0..Len(c) : g[i] = IF i = 0 THEN l ELSE g[i - 1] - 4 - c[i]
  <2>1. TAKE i \in 0..Len(c)
  <2>2. g[i] = l - s[i]
    BY <1>4
  <2>3. CASE i = 0
    BY <2>2, <2>3, <1>3
  <2>4. CASE i # 0
    <3>1. i \in 1..Len(c) /\ i - 1 \in 0..Len(c)
      BY <2>4
    <3>2. PICK x \in Nat, e \in Nat : x = s[i - 1] /\ e = c[i]
      BY <3>1, <1>2, <1>3
    <3>3. g[i - 1] = l - x /\ s[i] = x + (4 + e)
      BY <3>1, <3>2, <1>3, <1>4
    <3>4. g[i] = (l - x) - 4 - e
      BY <2>2, <3>3
    <3>5. QED
      BY <2>4, <3>2, <3>3, <3>4
  <2>5. QED
    BY <2>3, <2>4
<1>6. g = [i \in 0..Len(c) |-> g[i]]
  BY <1>4
<1>7. QED
  BY <1>5, <1>6

\* The tags are accepted exactly if the lengths declared are those of the body, or less.
LEMMA FitIsSound ==
    ASSUME NEW b, b.len \in Nat, b.body.vendor \in Nat, b.body.comments \in Seq(Nat)
    PROVE  TagsFit(b) <=> Sound(b)
<1>1. PICK c, l, v : c = b.body.comments /\ l = b.len /\ v = b.body.vendor
  OBVIOUS
<1>2. c \in Seq(Nat) /\ l \in Nat /\ v \in Nat /\ Len(c) \in Nat
  BY <1>1
<1> DEFINE f == CHOOSE left : left = [i \in 0..Len(c) |->
                                         IF i = 0 THEN l - 8 - v ELSE left[i - 1] - 4 - c[i]]
<1>3. f = [i \in 0..Len(c) |-> IF i = 0 THEN l - 8 - v ELSE f[i - 1] - 4 - c[i]]
  <2>1. l - 8 - v \in Int
    BY <1>2
  <2>2. \E g : g = [i \in 0..Len(c) |-> IF i = 0 THEN l - 8 - v ELSE g[i - 1] - 4 - c[i]]
    BY <1>2, <2>1, LeftExists
  <2>3. QED
    BY <2>2
<1>4. TagsFit(b) <=> l >= 4 /\ (\A i \in DOMAIN f : f[i] >= 0) /\ Len(c) <= f[0] \div 4
  BY <1>1 DEF TagsFit
<1> HIDE DEF f
<1>5. DOMAIN f = 0..Len(c)
  BY <1>3
<1>6. PICK s : s = SumsFrom(0, [i \in 1..Len(c) |-> 4 + c[i]])
  OBVIOUS
<1>7. \A i \in 0..Len(c) : f[i] = l - 8 - v - s[i]
  <2>1. \A i \in 0..Len(c) : f[i] = IF i = 0 THEN l - 8 - v ELSE f[i - 1] - 4 - c[i]
    BY <1>3, Zenon
  <2>2. /\ s[0] = 0 /\ \A i \in 1..Len(c) : s[i] = s[i - 1] + (4 + c[i])
        /\ \A i \in 0..Len(c) : s[i] \in Nat
    BY <1>2, <1>6, CommentSums
  <2>3. PICK k \in Int : k = l - 8 - v
    BY <1>2
  <2>4. f[0] = k
    <3>1. 0 \in 0..Len(c)
      BY <1>2
    <3>2. QED
      BY <2>1, <2>3, <3>1
  <2>5. ASSUME NEW i \in 1..Len(c) PROVE f[i] = f[i - 1] - 4 - c[i] /\ c[i] \in Nat
    <3>1. i \in 0..Len(c) /\ i # 0 /\ c[i] \in Nat
      BY <1>2
    <3>2. f[i] = IF i = 0 THEN l - 8 - v ELSE f[i - 1] - 4 - c[i]
      BY <2>1, <3>1
    <3>3. QED
      BY <3>1, <3>2
  <2>6. \A i \in 0..Len(c) : f[i] = k - s[i]
    <3>1. Adding(s, c, Len(c))
      BY <2>2 DEF Adding
    <3>2. Leaving(f, k, c, Len(c))
      BY <2>4, <2>5 DEF Leaving
    <3>3. QED
      BY <1>2, <2>3, <3>1, <3>2, TakenOff
  <2>7. QED
    BY <2>3, <2>6
<1>8. /\ s[0] = 0 /\ CommentBytes(c) = s[Len(c)]
      /\ \A i \in 0..Len(c) : s[i] \in Nat /\ 4 * i <= s[i] /\ s[i] <= CommentBytes(c)
  BY <1>2, <1>6, CommentSums
<1>9. 0 \in 0..Len(c) /\ Len(c) \in 0..Len(c)
  BY <1>2
<1>10. f[0] = l - 8 - v /\ CommentBytes(c) \in Nat /\ 4 * Len(c) <= CommentBytes(c)
  BY <1>2, <1>7, <1>8, <1>9
<1>11. Sound(b) <=> 8 + v + CommentBytes(c) <= l
  BY <1>1 DEF Sound
<1>12. ASSUME TagsFit(b) PROVE Sound(b)
  <2>1. f[Len(c)] >= 0
    BY <1>12, <1>4, <1>5, <1>9
  <2>2. l - 8 - v - CommentBytes(c) >= 0
    BY <2>1, <1>7, <1>8, <1>9
  <2>3. QED
    BY <2>2, <1>2, <1>10, <1>11
<1>13. ASSUME Sound(b) PROVE TagsFit(b)
  <2>1. 8 + v + CommentBytes(c) <= l
    BY <1>11, <1>13
  <2>2. l >= 4
    BY <2>1, <1>2, <1>10
  <2>3. \A i \in DOMAIN f : f[i] >= 0
    <3>1. TAKE i \in DOMAIN f
    <3>2. f[i] = l - 8 - v - s[i] /\ s[i] \in Nat /\ s[i] <= CommentBytes(c)
      BY <1>5, <1>7, <1>8
    <3>3. QED
      BY <3>2, <2>1, <1>2, <1>10
  <2>4. Len(c) <= f[0] \div 4
    <3>1. PICK z \in Int : z = f[0] /\ 4 * Len(c) <= z
      BY <2>1, <1>2, <1>10
    <3>2. QED
      BY <3>1, <1>2
  <2>5. QED
    BY <2>2, <2>3, <2>4, <1>4
<1>14. QED
  BY <1>12, <1>13

-----------------------------------------------------------------------------
(* The points that parseSeekTable keeps.                                    *)

\* g is the points in use among the first of q.
Gathers(g, q) ==
    g = [i \in 0..Len(q) |->
            IF i = 0 THEN <<>>
            ELSE IF q[i].sample = UnusedSample THEN g[i - 1] ELSE Append(g[i - 1], q[i])]

\* There is such a list.
LEMMA GatherExists == ASSUME NEW S, NEW q \in Seq(S) PROVE \E g : Gathers(g, q)
<1>1. PICK step : step = [x \in Nat \X Seq(S) |->
                             IF x[1] \in 1..Len(q)
                             THEN IF q[x[1]].sample = UnusedSample THEN x[2]
                                  ELSE Append(x[2], q[x[1]])
                             ELSE <<>>]
  OBVIOUS
<1>2. step \in [Nat \X Seq(S) -> Seq(S)]
  <2>1. ASSUME NEW x \in Nat \X Seq(S)
        PROVE  step[x] \in Seq(S)
    <3>1. CASE ~(x[1] \in 1..Len(q))
      BY <1>1, <3>1
    <3>2. CASE x[1] \in 1..Len(q)
      <4>1. x[2] \in Seq(S) /\ q[x[1]] \in S
        BY <3>2
      <4>2. Append(x[2], q[x[1]]) \in Seq(S)
        BY <4>1
      <4>3. QED
        BY <4>1, <4>2, <3>2, <1>1
    <3>3. QED
      BY <3>1, <3>2
  <2>2. QED
    BY <1>1, <2>1
<1>3. <<>> \in Seq(S) /\ Len(q) \in Nat
  OBVIOUS
<1>4. PICK g \in [0..Len(q) -> Seq(S)] : Builds(g, <<>>, step, Len(q))
  BY <1>2, <1>3, BuildExists
<1>5. \A i \in 0..Len(q) :
          g[i] = IF i = 0 THEN <<>>
                 ELSE IF q[i].sample = UnusedSample THEN g[i - 1] ELSE Append(g[i - 1], q[i])
  <2>1. TAKE i \in 0..Len(q)
  <2>2. CASE i = 0
    BY <2>2, <1>4 DEF Builds
  <2>3. CASE i # 0
    <3>1. i \in 1..Len(q) /\ i - 1 \in 0..Len(q)
      BY <2>3
    <3>2. PICK w \in Seq(S) : w = g[i - 1]
      BY <3>1, <1>4
    <3>3. PICK x : x = <<i, w>>
      OBVIOUS
    <3>4. x \in Nat \X Seq(S) /\ x[1] = i /\ x[2] = g[i - 1]
      BY <3>1, <3>2, <3>3
    <3>5. g[i] = step[<<i, g[i - 1]>>]
      BY <3>1, <1>4, Zenon DEF Builds
    <3>6. g[i] = step[x]
      BY <3>2, <3>3, <3>5
    <3>7. step[x] = IF q[i].sample = UnusedSample THEN g[i - 1] ELSE Append(g[i - 1], q[i])
      <4>1. step[x] = IF x[1] \in 1..Len(q)
                      THEN IF q[x[1]].sample = UnusedSample THEN x[2]
                           ELSE Append(x[2], q[x[1]])
                      ELSE <<>>
        BY <1>1, <3>4, Zenon
      <4>2. QED
        BY <4>1, <3>1, <3>4, Zenon
    <3>8. QED
      BY <2>3, <3>6, <3>7
  <2>4. QED
    BY <2>2, <2>3
<1>6. g = [i \in 0..Len(q) |-> g[i]]
  BY <1>4
<1>7. g = [i \in 0..Len(q) |->
              IF i = 0 THEN <<>>
              ELSE IF q[i].sample = UnusedSample THEN g[i - 1] ELSE Append(g[i - 1], q[i])]
  BY <1>5, <1>6
<1>8. QED
  BY <1>7, Zenon DEF Gathers

\* The points in use are its last value.
LEMMA UsedIs ==
    ASSUME NEW S, NEW q \in Seq(S)
    PROVE  \E g : Gathers(g, q) /\ Used(q) = g[Len(q)]
<1> DEFINE f == CHOOSE used : used =
        [i \in 0..Len(q) |->
            IF i = 0 THEN <<>>
            ELSE IF q[i].sample = UnusedSample THEN used[i - 1] ELSE Append(used[i - 1], q[i])]
<1>1. f = [i \in 0..Len(q) |->
              IF i = 0 THEN <<>>
              ELSE IF q[i].sample = UnusedSample THEN f[i - 1] ELSE Append(f[i - 1], q[i])]
  BY GatherExists DEF Gathers
<1>2. Used(q) = f[Len(q)]
  BY DEF Used
<1> HIDE DEF f
<1>3. Gathers(f, q)
  BY <1>1, Zenon DEF Gathers
<1>4. QED
  BY <1>2, <1>3

\* What parseSeekTable keeps of points and placeholders after them is the points.
LEMMA UsedPadded ==
    ASSUME NEW S, NEW q \in Seq(S), \A i \in 1..Len(q) : q[i].sample # UnusedSample,
           NEW r \in Seq(S), Len(q) <= Len(r), \A i \in 1..Len(q) : r[i] = q[i],
           \A i \in (Len(q) + 1)..Len(r) : r[i].sample = UnusedSample
    PROVE  Used(r) = q
<1>1. PICK n \in Nat, m \in Nat : n = Len(q) /\ m = Len(r) /\ n <= m
  OBVIOUS
<1>2. PICK g : Gathers(g, r) /\ Used(r) = g[m]
  BY <1>1, UsedIs
<1>3. \A i \in 0..m : g[i] = IF i = 0 THEN <<>>
                             ELSE IF r[i].sample = UnusedSample THEN g[i - 1]
                                  ELSE Append(g[i - 1], r[i])
  BY <1>1, <1>2, Zenon DEF Gathers
<1> DEFINE T == {k \in Nat : k <= n => g[k] = [i \in 1..k |-> q[i]]}
<1>4. 0 \in T
  <2>1. 0 \in 0..m
    BY <1>1
  <2>2. g[0] = <<>>
    BY <1>3, <2>1
  <2>3. <<>> = [i \in 1..0 |-> q[i]]
    OBVIOUS
  <2>4. QED
    BY <2>2, <2>3
<1>5. ASSUME NEW k \in Nat, k \in T PROVE k + 1 \in T
  <2> SUFFICES ASSUME k + 1 <= n PROVE g[k + 1] = [i \in 1..(k + 1) |-> q[i]]
    OBVIOUS
  <2>1. k + 1 \in 0..m /\ k + 1 # 0 /\ k + 1 - 1 = k /\ k + 1 \in 1..n
    BY <1>1
  <2>2. r[k + 1] = q[k + 1] /\ q[k + 1].sample # UnusedSample
    BY <2>1, <1>1
  <2>3. g[k + 1] = Append(g[k], q[k + 1])
    <3>1. PICK j \in 0..m : j = k + 1
      BY <2>1
    <3>2. j # 0 /\ j - 1 = k /\ r[j].sample # UnusedSample /\ r[j] = q[k + 1]
      BY <2>1, <2>2, <3>1
    <3>3. g[j] = IF j = 0 THEN <<>>
                 ELSE IF r[j].sample = UnusedSample THEN g[j - 1] ELSE Append(g[j - 1], r[j])
      BY <1>3, <3>1, Zenon
    <3>4. g[j] = Append(g[j - 1], r[j])
      BY <3>2, <3>3, Zenon
    <3>5. QED
      BY <3>1, <3>2, <3>4, Zenon
  <2>4. PICK u : u = [i \in 1..k |-> q[i]]
    OBVIOUS
  <2>5. g[k] = u
    BY <1>5, <2>1, <2>4, <1>1
  <2>6. u \in Seq(S) /\ Len(u) = k
    <3>1. \A i \in 1..k : q[i] \in S
      BY <2>1, <1>1
    <3>2. u \in [1..k -> S]
      BY <2>4, <3>1
    <3>3. QED
      BY <3>2, ListIs
  <2>7. Append(u, q[k + 1]) = [i \in 1..(k + 1) |-> q[i]]
    <3>1. PICK w : w = Append(u, q[k + 1])
      OBVIOUS
    <3>2. /\ DOMAIN w = 1..(k + 1) /\ w[k + 1] = q[k + 1]
          /\ \A i \in 1..k : w[i] = u[i]
      BY <2>6, <3>1
    <3>3. \A i \in 1..(k + 1) : w[i] = q[i]
      <4>1. TAKE i \in 1..(k + 1)
      <4>2. i \in 1..k \/ i = k + 1
        OBVIOUS
      <4>3. QED
        BY <4>2, <3>2, <2>4
    <3>4. w = [i \in 1..(k + 1) |-> w[i]]
      BY <3>1, <3>2, <2>6
    <3>5. QED
      BY <3>1, <3>3, <3>4
  <2>8. QED
    BY <2>3, <2>5, <2>7
<1>6. Nat \subseteq T
  BY <1>4, <1>5, NatInd
<1>7. g[n] = q
  <2>1. g[n] = [i \in 1..n |-> q[i]]
    BY <1>1, <1>6
  <2>2. q = [i \in 1..n |-> q[i]]
    BY <1>1
  <2>3. QED
    BY <2>1, <2>2
<1> DEFINE U == {k \in Nat : n <= k /\ k <= m => g[k] = q}
<1>8. 0 \in U
  BY <1>1, <1>7
<1>9. ASSUME NEW k \in Nat, k \in U PROVE k + 1 \in U
  <2> SUFFICES ASSUME n <= k + 1, k + 1 <= m PROVE g[k + 1] = q
    OBVIOUS
  <2>1. CASE k + 1 = n
    BY <2>1, <1>7
  <2>2. CASE k + 1 # n
    <3>1. /\ k + 1 \in 0..m /\ k + 1 # 0 /\ k + 1 - 1 = k /\ k + 1 \in (n + 1)..m
          /\ n <= k /\ k <= m
      BY <2>2, <1>1
    <3>2. r[k + 1].sample = UnusedSample
      BY <3>1, <1>1
    <3>3. g[k + 1] = g[k]
      BY <3>1, <3>2, <1>3
    <3>4. QED
      BY <3>1, <3>3, <1>9
  <2>3. QED
    BY <2>1, <2>2
<1>10. Nat \subseteq U
  BY <1>8, <1>9, NatInd
<1>11. g[m] = q
  BY <1>1, <1>10
<1>12. QED
  BY <1>2, <1>11

-----------------------------------------------------------------------------
(* What a stored file relies on of the encoder that left it.                *)

\* The points recorded are numbers.
SeekPoint == [sample: Nat, offset: Nat, samples: Nat]

\* No point is in the sink before Close writes the table.
TableEmpty == verdict = "open" /\ pc \notin {"shrink", "pad", "end"} => table = <<>>

\* A Close that patches has checked the declared total, and one that is done has flushed.
Verified ==
    /\ verdict = "done" => leftover = <<>>
    /\ verdict = "done" \/ pc \in Patching \cup {"info"} => ~Declared

\* The sink holds the frames and what failed writes left, in that order if they left nothing.
Adjacent ==
    /\ \A i \in DOMAIN frames : frames[i].size \in Nat \ {0}
    /\ end = SizeUpTo(Len(frames)) + junk
    /\ junk = 0 => \A i \in DOMAIN frames : frames[i].at = SizeUpTo(i - 1)

\* The sink of a new encoder is empty (NewEncoder, Reset).
LEMMA NothingStored ==
    ASSUME NEW q, q = <<>>
    PROVE  SumsFrom(0, [k \in 1..Len(q) |-> q[k].size])[Len(q)] = 0
<1>1. PICK n : n = [k \in 1..Len(q) |-> q[k].size]
  OBVIOUS
<1>2. Len(q) = 0 /\ Len(n) = 0 /\ \A i \in 1..Len(n) : n[i] \in Int
  BY <1>1
<1>3. SumsFrom(0, n)[0] = 0
  BY <1>2, SumsSteps
<1>4. QED
  BY <1>1, <1>2, <1>3

\* r is q and frame f after it.
Longer(r, q, f, n) ==
    /\ Len(q) = n /\ \A i \in 1..n : q[i].size \in Nat
    /\ Len(r) = n + 1 /\ r[n + 1] = f /\ \A i \in 1..n : r[i] = q[i]

\* s adds up the sizes of the frames of q.
Adds(s, q) == s = SumsFrom(0, [k \in 1..Len(q) |-> q[k].size])

\* t goes on where s ends, with a added.
GoesOn(t, s, n, a) == (\A i \in 0..n : s[i] = t[i] /\ s[i] \in Nat) /\ t[n + 1] = s[n] + a

\* A frame adds its size to those before it (emitBlock).
LEMMA FrameAdds ==
    ASSUME NEW q, NEW n \in Nat, NEW f, f.size \in Nat, NEW r, Longer(r, q, f, n),
           NEW s, Adds(s, q), NEW t, Adds(t, r)
    PROVE  GoesOn(t, s, n, f.size)
<1>0. /\ Len(q) = n /\ \A i \in 1..n : q[i].size \in Nat
      /\ Len(r) = n + 1 /\ r[n + 1] = f /\ \A i \in 1..n : r[i] = q[i]
  BY DEF Longer
<1>1. PICK x : x = [k \in 1..n |-> q[k].size]
  OBVIOUS
<1>2. PICK y : y = [k \in 1..(n + 1) |-> r[k].size]
  OBVIOUS
<1>3. Len(x) = n /\ \A i \in 1..n : x[i] = q[i].size /\ x[i] \in Nat
  BY <1>0, <1>1
<1>4. Len(y) = n + 1 /\ (\A i \in 1..n : y[i] = x[i]) /\ y[n + 1] = f.size
  BY <1>0, <1>1, <1>2
<1>5. \A i \in 1..(n + 1) : y[i] \in Nat
  <2>1. \A i \in 1..(n + 1) : i \in 1..n \/ i = n + 1
    OBVIOUS
  <2>2. QED
    BY <2>1, <1>3, <1>4
<1>6. Len(x) \in Nat /\ (\A i \in 1..Len(x) : x[i] \in Nat) /\ (\A i \in 1..Len(x) : x[i] \in Int)
  BY <1>3
<1>7. Len(y) \in Nat /\ (\A i \in 1..Len(y) : y[i] \in Nat) /\ (\A i \in 1..Len(y) : y[i] \in Int)
  BY <1>4, <1>5
<1>8. n <= Len(x) /\ n <= Len(y) /\ \A i \in 1..n : x[i] = y[i]
  BY <1>3, <1>4
<1>9. \A i \in 0..n : SumsFrom(0, x)[i] = SumsFrom(0, y)[i]
  BY <1>6, <1>7, <1>8, SumsAgree DEF Alike
<1>10. \A i \in 0..Len(x) : SumsFrom(0, x)[i] \in Nat
  BY <1>6, SumsGrow
<1>11. \A i \in 1..Len(y) : SumsFrom(0, y)[i] = SumsFrom(0, y)[i - 1] + y[i]
  BY <1>7, SumsSteps
<1>12. s = SumsFrom(0, x) /\ t = SumsFrom(0, y)
  BY <1>0, <1>1, <1>2 DEF Adds
<1>13. t[n + 1] = t[n] + f.size
  <2>1. n + 1 \in 1..Len(y) /\ n + 1 - 1 = n
    BY <1>4
  <2>2. t[n + 1] = t[n + 1 - 1] + y[n + 1]
    BY <2>1, <1>11, <1>12
  <2>3. QED
    BY <2>1, <2>2, <1>4
<1>14. s[n] = t[n]
  BY <1>9, <1>12
<1>15. QED
  BY <1>3, <1>9, <1>10, <1>12, <1>13, <1>14 DEF GoesOn

\* Every step keeps the frames next to one another (emitBlock).
LEMMA AdjacencyKept == Blocks /\ Counted /\ Adjacent /\ [Next]_vars => Adjacent'
<1> SUFFICES ASSUME Blocks, Counted, Adjacent, [Next]_vars PROVE Adjacent'
  OBVIOUS
<1>1. CASE \E c \in Configs : Reset(c) \/ ResetFails(c)
  <2>1. frames' = <<>> /\ end' = 0 /\ junk' = 0
    BY <1>1 DEF Reset, ResetFails, EmptySink
  <2>2. SizeUpTo(Len(frames))' = 0
    BY <2>1, NothingStored DEF SizeUpTo
  <2>3. DOMAIN <<>> = {}
    OBVIOUS
  <2>4. QED
    BY <2>1, <2>2, <2>3 DEF Adjacent
<1>2. CASE WriteJoin \/ WriteBlock \/ CloseFinal
  <2>1. PICK size, n :
            /\ size \in FrameSizes
            /\ frames' = Append(frames, [num |-> frameNum, first |-> total, samples |-> n,
                                         size |-> size, at |-> end])
            /\ end' = end + size /\ junk' = junk
    BY <1>2 DEF WriteJoin, WriteBlock, CloseFinal, Emit
  <2>2. PICK f : f = [num |-> frameNum, first |-> total, samples |-> n, size |-> size, at |-> end]
    OBVIOUS
  <2>3. size \in Nat /\ size # 0 /\ f.size = size /\ f.at = end
    BY <2>1, <2>2, SizesAssumption
  <2>4. PICK m \in Nat : m = Len(frames) /\ DOMAIN frames = 1..m
    BY DEF Blocks
  <2>5. /\ DOMAIN frames' = 1..(m + 1) /\ Len(frames') = m + 1
        /\ frames'[m + 1] = f /\ \A i \in 1..m : frames'[i] = frames[i]
    BY <2>1, <2>2, <2>4
  <2>6. PICK s : s = SumsFrom(0, [k \in 1..Len(frames) |-> frames[k].size])
    OBVIOUS
  <2>7. PICK t : t = SumsFrom(0, [k \in 1..Len(frames') |-> frames'[k].size])
    OBVIOUS
  <2>8. /\ \A i \in 0..m : s[i] = t[i] /\ s[i] \in Nat
        /\ t[m + 1] = s[m] + size
    <3>1. Longer(frames', frames, f, m)
      BY <2>4, <2>5 DEF Adjacent, Longer
    <3>2. f.size \in Nat
      BY <2>3
    <3>3. PICK q, r : q = frames /\ r = frames'
      OBVIOUS
    <3>4. /\ Longer(r, q, f, m)
          /\ Adds(s, q) /\ Adds(t, r)
      BY <2>6, <2>7, <3>1, <3>3 DEF Adds
    <3>5. GoesOn(t, s, m, f.size)
      BY <2>4, <3>2, <3>4, FrameAdds
    <3>6. QED
      BY <2>3, <3>5 DEF GoesOn
  <2>9. (\A i : SizeUpTo(i) = s[i]) /\ (\A i : SizeUpTo(i)' = t[i])
    BY <2>6, <2>7 DEF SizeUpTo
  <2>10. end = s[m] + junk /\ junk \in Nat /\ end \in Nat
    BY <2>4, <2>9 DEF Adjacent, Counted
  <2>11. end' = t[m + 1] + junk'
    <3>1. PICK x \in Nat : x = s[m] /\ t[m + 1] = x + size
      BY <2>4, <2>8
    <3>2. QED
      BY <3>1, <2>1, <2>3, <2>10
  <2>12. \A i \in DOMAIN frames' : i \in 1..m \/ i = m + 1
    BY <2>5
  <2>13. \A i \in DOMAIN frames' : frames'[i].size \in Nat \ {0}
    BY <2>3, <2>4, <2>5, <2>12 DEF Adjacent
  <2>14. ASSUME junk' = 0, NEW i \in DOMAIN frames'
         PROVE  frames'[i].at = t[i - 1]
    <3>1. CASE i \in 1..m
      <4>1. frames[i].at = s[i - 1] /\ i - 1 \in 0..m
        BY <3>1, <2>1, <2>4, <2>9, <2>14 DEF Adjacent
      <4>2. QED
        BY <4>1, <3>1, <2>5, <2>8
    <3>2. CASE i = m + 1
      <4>1. end = s[m] /\ m \in 0..m /\ s[m] = t[m] /\ i - 1 = m
        BY <3>2, <2>1, <2>8, <2>10, <2>14
      <4>2. QED
        BY <4>1, <3>2, <2>3, <2>5
    <3>3. QED
      BY <3>1, <3>2, <2>12
  <2>15. QED
    BY <2>5, <2>9, <2>11, <2>13, <2>14 DEF Adjacent
<1>3. CASE WriteFails \/ CloseFinalFails
  <2>1. PICK left \in 0..(MaxJunk - junk) : junk' = junk + left /\ end' = end + left
    BY <1>3 DEF WriteFails, CloseFinalFails, EmitFails
  <2>2. frames' = frames
    BY <1>3 DEF WriteFails, CloseFinalFails, EmitFails
  <2>3. \A i : SizeUpTo(i)' = SizeUpTo(i)
    BY <2>2 DEF SizeUpTo
  <2>4. left \in Nat /\ junk \in Nat /\ end \in Nat
    BY <2>1, SizesAssumption DEF Counted
  <2>5. PICK x : x = SizeUpTo(Len(frames))
    OBVIOUS
  <2>6. x \in Int
    <3>1. PICK m \in Nat : m = Len(frames) /\ DOMAIN frames = 1..m
      BY DEF Blocks
    <3>2. PICK y : y = [k \in 1..m |-> frames[k].size]
      OBVIOUS
    <3>3. Len(y) = m /\ \A i \in 1..m : y[i] \in Nat
      BY <3>1, <3>2 DEF Adjacent
    <3>4. Len(y) \in Nat /\ \A i \in 1..Len(y) : y[i] \in Nat
      BY <3>3
    <3>5. \A i \in 0..Len(y) : SumsFrom(0, y)[i] \in Nat
      BY <3>4, SumsGrow
    <3>6. x = SumsFrom(0, y)[m] /\ m \in 0..Len(y)
      BY <3>1, <3>2, <3>3, <2>5 DEF SizeUpTo
    <3>7. QED
      BY <3>5, <3>6
  <2>7. end = x + junk
    BY <2>5 DEF Adjacent
  <2>8. end' = x + junk' /\ (junk' = 0 => junk = 0)
    BY <2>1, <2>4, <2>6, <2>7
  <2>9. QED
    BY <2>2, <2>3, <2>5, <2>8 DEF Adjacent
<1>4. CASE UNCHANGED <<frames, end, junk>>
  BY <1>4 DEF Adjacent, SizeUpTo
<1>5. QED
  BY <1>1, <1>2, <1>3, <1>4 DEF Next, Write, Closing, WriteShort, WriteStarts, WriteStash,
     Close, CloseVerify, ClosePatches, ClosePatchFails, CloseEnds, ResetRejected, vars, sink

\* The points recorded are of frames counted (emitBlock).
LEMMA PointTypeKept ==
    Blocks /\ Blocks' /\ Counted /\ Measured /\ points \in Seq(SeekPoint) /\ [Next]_vars
        => points' \in Seq(SeekPoint)
<1> SUFFICES ASSUME Blocks, Blocks', Counted, Measured, points \in Seq(SeekPoint), [Next]_vars
             PROVE  points' \in Seq(SeekPoint)
  OBVIOUS
<1>1. CASE points' = points
  BY <1>1
<1>2. CASE points' = <<>>
  BY <1>2
<1>3. CASE WriteJoin \/ WriteBlock \/ CloseFinal
  <2>1. PICK chunk, final : Emit(chunk, final)
    BY <1>3 DEF WriteJoin, WriteBlock, CloseFinal
  <2>2. PICK n : n = Len(chunk) \div FrameLen /\ RecordPoint(n)
    BY <2>1 DEF Emit
  <2>3. SUFFICES ASSUME points' = Append(points, [sample |-> total, offset |-> audioBytes,
                                                  samples |-> n])
                 PROVE  points' \in Seq(SeekPoint)
    BY <2>2, <1>1 DEF RecordPoint
  <2>4. n \in Nat
    <3>1. PICK size : frames' = Append(frames, [num |-> frameNum, first |-> total,
                                                samples |-> n, size |-> size, at |-> end])
      BY <2>1, <2>2 DEF Emit
    <3>2. Len(frames) \in Nat /\ DOMAIN frames = 1..Len(frames)
      BY DEF Blocks
    <3>3. Len(frames) + 1 \in DOMAIN frames' /\ frames'[Len(frames) + 1].samples = n
      BY <3>1, <3>2
    <3>4. n \in 1..BlockSize
      BY <3>3 DEF Blocks
    <3>5. QED
      BY <3>4, SizesAssumption
  <2>5. total \in Nat /\ audioBytes \in Nat
    BY DEF Measured, Counted
  <2>6. [sample |-> total, offset |-> audioBytes, samples |-> n] \in SeekPoint
    BY <2>4, <2>5 DEF SeekPoint
  <2>7. QED
    BY <2>3, <2>6
<1>4. QED
  BY <1>1, <1>2, <1>3 DEF Next, Write, Closing, Reset, ResetFails, Fresh, WriteShort, WriteStarts,
     WriteFails, WriteStash, EmitFails, Close, CloseFinalFails, CloseVerify, ClosePatches,
     ClosePatchFails, CloseEnds, ResetRejected, vars, stream

\* The table stays empty until Close writes it (Close).
LEMMA TableEmptyKept == IInv /\ TableEmpty /\ [Next]_vars => TableEmpty'
<1> SUFFICES ASSUME IInv, TableEmpty, [Next]_vars PROVE TableEmpty'
  OBVIOUS
<1>0. pc # "idle" => verdict = "open"
  BY DEF IInv, Staged
<1>1. CASE \E c \in Configs : Reset(c) \/ ResetFails(c)
  BY <1>1 DEF Reset, ResetFails, EmptySink, TableEmpty
<1>2. CASE \/ \E n \in WriteLengths : WriteShort(n) \/ WriteStarts(n)
           \/ WriteJoin \/ WriteBlock \/ WriteFails \/ WriteStash
           \/ Close \/ CloseFinal \/ CloseFinalFails \/ CloseVerify
  <2>1. /\ table' = table
        /\ verdict' = verdict \/ verdict' # "open"
        /\ pc \notin {"shrink", "pad", "end"}
    BY <1>2 DEF WriteShort, WriteStarts, WriteJoin, WriteBlock, WriteFails, WriteStash, Emit,
                EmitFails, Return, Close, CloseFinal, CloseFinalFails, CloseVerify, CloseReturns,
                sink
  <2>2. QED
    BY <2>1 DEF TableEmpty
<1>3. CASE ClosePatches
  <2>1. verdict = "open" /\ verdict' = verdict
    BY <1>3, <1>0 DEF ClosePatches, Patched
  <2>2. CASE pc = "info"
    <3>1. table' = table
      BY <1>3, <2>2 DEF ClosePatches, Patched
    <3>2. QED
      BY <3>1, <2>1, <2>2 DEF TableEmpty
  <2>3. CASE pc # "info"
    <3>1. pc' \in {"shrink", "pad", "end"}
      BY <1>3, <2>3 DEF ClosePatches, Patched, AfterTable
    <3>2. QED
      BY <3>1 DEF TableEmpty
  <2>4. QED
    BY <2>2, <2>3
<1>4. CASE ClosePatchFails \/ CloseEnds \/ \E c \in Configs : ResetRejected(c)
  <2>1. verdict' # "open"
    BY <1>4 DEF ClosePatchFails, CloseEnds, CloseReturns, ResetRejected
  <2>2. QED
    BY <2>1 DEF TableEmpty
<1>5. CASE UNCHANGED vars
  BY <1>5 DEF TableEmpty, vars, sink, call
<1>6. QED
  BY <1>1, <1>2, <1>3, <1>4, <1>5 DEF Next, Write, Closing

\* Close patches and returns nil only after it has checked the total (Close).
LEMMA VerifiedKept == IInv /\ Verified /\ [Next]_vars => Verified'
<1> SUFFICES ASSUME IInv, Verified, [Next]_vars PROVE Verified'
  OBVIOUS
<1>0. /\ pc # "idle" => verdict = "open"
      /\ pc \in Closings => leftover = <<>>
      /\ verdict = "done" => closed
  BY DEF IInv, Staged
<1>1. CASE \E c \in Configs : Reset(c) \/ ResetFails(c)
  <2>1. pc' = "idle" /\ verdict' # "done"
    BY <1>1 DEF Reset, ResetFails, call
  <2>2. QED
    BY <2>1 DEF Verified, Patching
<1>2. CASE \/ \E n \in WriteLengths : WriteShort(n) \/ WriteStarts(n)
           \/ WriteJoin \/ WriteBlock \/ WriteFails \/ WriteStash
           \/ Close \/ CloseFinal \/ CloseFinalFails \/ \E c \in Configs : ResetRejected(c)
  <2>1. /\ pc' \in {"idle", "join", "blocks", "final", "verify"}
        /\ verdict' \in {verdict, "failed", "unusable"}
        /\ verdict' = "done" => FALSE
    BY <1>2, <1>0 DEF WriteShort, WriteStarts, WriteJoin, WriteBlock, WriteFails, WriteStash,
                Emit, EmitFails, Return, Close, CloseFinal, CloseFinalFails, CloseReturns,
                ResetRejected, call
  <2>2. QED
    BY <2>1 DEF Verified, Patching
<1>3. CASE CloseVerify
  <2>1. /\ UNCHANGED <<cfg, total, leftover>> /\ pc = "verify"
        /\ \/ verdict' = "failed" /\ pc' = "idle"
           \/ ~Declared
    BY <1>3 DEF CloseVerify, CloseReturns, stream
  <2>2. Declared' = Declared
    BY <2>1 DEF Declared
  <2>3. QED
    BY <2>1, <2>2, <1>0 DEF Verified, Patching, Closings
<1>4. CASE ClosePatches \/ ClosePatchFails \/ CloseEnds
  <2>1. /\ UNCHANGED <<cfg, total, leftover>> /\ pc \in {"info", "table", "shrink", "pad", "end"}
    BY <1>4 DEF ClosePatches, Patched, ClosePatchFails, CloseEnds, stream
  <2>2. Declared' = Declared /\ ~Declared
    BY <2>1 DEF Declared, Verified, Patching
  <2>3. QED
    BY <2>1, <2>2, <1>0 DEF Verified, Patching, Closings
<1>5. CASE UNCHANGED vars
  <2>1. UNCHANGED <<cfg, total, leftover, pc, verdict>>
    BY <1>5 DEF vars, call, stream
  <2>2. QED
    BY <2>1 DEF Verified, Declared
<1>6. QED
  BY <1>1, <1>2, <1>3, <1>4, <1>5 DEF Next, Write, Closing

\* No digest is known beforehand, and no frames are an empty list.
Ordinary == cfg.md5 # "supplied" /\ (Len(frames) = 0 => frames = <<>>)

\* A configuration is one of those given, and frames are only added (Reset, emitBlock).
LEMMA OrdinaryKept == Blocks /\ Ordinary /\ [Next]_vars => Ordinary'
<1> SUFFICES ASSUME Blocks, Ordinary, [Next]_vars PROVE Ordinary'
  OBVIOUS
<1>1. CASE \E c \in Configs : Reset(c) \/ ResetFails(c)
  <2>1. PICK c \in Configs : cfg' = c /\ frames' = <<>>
    BY <1>1 DEF Reset, ResetFails, Fresh, EmptySink
  <2>2. QED
    BY <2>1, DigestAssumption DEF Ordinary
<1>2. CASE WriteJoin \/ WriteBlock \/ CloseFinal
  <2>1. PICK f : frames' = Append(frames, f)
    BY <1>2 DEF WriteJoin, WriteBlock, CloseFinal, Emit
  <2>2. PICK m \in Nat : m = Len(frames) /\ DOMAIN frames = 1..m
    BY DEF Blocks
  <2>3. Len(frames') = m + 1
    BY <2>1, <2>2
  <2>4. cfg' = cfg
    BY <1>2 DEF WriteJoin, WriteBlock, CloseFinal
  <2>5. QED
    BY <2>2, <2>3, <2>4 DEF Ordinary
<1>3. CASE UNCHANGED <<cfg, frames>>
  BY <1>3 DEF Ordinary
<1>4. QED
  BY <1>1, <1>2, <1>3 DEF Next, Write, Closing, WriteShort, WriteStarts, WriteStash, WriteFails,
     EmitFails, Close, CloseFinalFails, CloseVerify, ClosePatches, ClosePatchFails, CloseEnds,
     ResetRejected, vars, sink

\* All that a stored file relies on.
Left ==
    /\ IInv /\ Blocks /\ Measured /\ Headed /\ Fitted /\ Chained /\ Counted
    /\ points \in Seq(SeekPoint) /\ TableEmpty /\ Verified /\ Adjacent /\ Ordinary

\* It holds of a new encoder (NewEncoder).
LEMMA StartsLeft == Init => Left
<1> SUFFICES ASSUME Init PROVE Left
  OBVIOUS
<1>1. IInv /\ Blocks /\ Measured /\ Headed /\ Fitted /\ Chained /\ Counted
  BY Initially, StartsNumbered, StartsMeasured, StartsHeaded, StartsChained, StartsPointed
<1>2. points \in Seq(SeekPoint)
  BY DEF Init
<1>3. TableEmpty /\ Verified
  BY DEF Init, TableEmpty, Verified, Patching
<1>4. Adjacent
  <2>1. frames = <<>> /\ end = 0 /\ junk = 0
    BY DEF Init
  <2>2. SizeUpTo(Len(frames)) = 0
    BY <2>1, NothingStored DEF SizeUpTo
  <2>3. DOMAIN <<>> = {}
    OBVIOUS
  <2>4. QED
    BY <2>1, <2>2, <2>3 DEF Adjacent
<1>5. Ordinary
  <2>1. Len(<<>>) = 0
    OBVIOUS
  <2>2. QED
    BY <2>1, DigestAssumption DEF Init, Ordinary
<1>6. QED
  BY <1>1, <1>2, <1>3, <1>4, <1>5 DEF Left

\* Every step of the encoder keeps it.
LEMMA LeftKept == Left /\ [Next]_vars => Left'
<1> SUFFICES ASSUME Left, [Next]_vars PROVE Left'
  OBVIOUS
<1>1. IInv' /\ Blocks'
  BY Inductive, NumberingKept DEF Left
<1>2. Measured' /\ Headed'
  BY MeasureKept, HeadKept DEF Left
<1>3. Fitted' /\ Chained' /\ Counted'
  BY <1>2, FitKept, ChainKept, CountKept DEF Left
<1>4. points' \in Seq(SeekPoint)
  BY <1>1, PointTypeKept DEF Left
<1>5. TableEmpty' /\ Verified'
  BY TableEmptyKept, VerifiedKept DEF Left
<1>6. Adjacent'
  BY AdjacencyKept DEF Left
<1>7. Ordinary'
  BY OrdinaryKept DEF Left
<1>8. QED
  BY <1>1, <1>2, <1>3, <1>4, <1>5, <1>6, <1>7 DEF Left

\* Whatever is stored and read, the encoder takes its own steps or none.
LEMMA TripEncodes == [TripNext]_tripVars => [Next]_vars
<1> SUFFICES ASSUME [TripNext]_tripVars PROVE [Next]_vars
  OBVIOUS
<1>1. CASE Stored
  BY <1>1 DEF Stored, StoredNext, Encodes, OpenStored, Reads
<1>2. CASE OpenCutAudio
  BY <1>2 DEF OpenCutAudio
<1>3. CASE NewDecoder \/ WriteTo \/ DecodeFrame \/ CappedWrite \/ DecodeReturns \/ UNCHANGED tripVars
  <2>1. UNCHANGED encoded
    BY <1>3 DEF NewDecoder, WriteTo, DecodeFrame, CappedWrite, DecodeReturns, tripVars
  <2>2. QED
    BY <2>1 DEF encoded
<1>4. QED
  BY <1>1, <1>2, <1>3 DEF TripNext

\* So it holds whenever a file is read or decoded.
LEMMA AlwaysLeft == TripSpec => []Left
<1>1. TripInit => Left
  BY StartsLeft DEF TripInit, StoredInit
<1>2. Left /\ [TripNext]_tripVars => Left'
  BY TripEncodes, LeftKept
<1>3. QED
  BY <1>1, <1>2, PTL DEF TripSpec

-----------------------------------------------------------------------------
(* Where the blocks of a list lie.                                          *)

\* t is a list of blocks whose lengths, and those that tags declare, are numbers.
Listed(t) ==
    /\ Len(t) \in Nat /\ DOMAIN t = 1..Len(t)
    /\ \A i \in 1..Len(t) :
           /\ t[i].len \in Nat
           /\ t[i].kind = "tags" => t[i].body.vendor \in Nat /\ t[i].body.comments \in Seq(Nat)

\* The first block lies behind the marker, and each of the others behind the one before.
LEMMA OffsetSteps ==
    ASSUME NEW t, Listed(t)
    PROVE  /\ OffsetOf(t, 1) = 4
           /\ \A i \in 1..Len(t) : OffsetOf(t, i + 1) = OffsetOf(t, i) + (4 + t[i].len)
           /\ \A i \in 1..(Len(t) + 1) : OffsetOf(t, i) \in Nat /\ 4 <= OffsetOf(t, i)
           /\ \A i, j \in 1..(Len(t) + 1) : i <= j => OffsetOf(t, i) <= OffsetOf(t, j)
<1>1. PICK n : n = [k \in 1..Len(t) |-> 4 + t[k].len]
  OBVIOUS
<1>2. Len(t) \in Nat /\ \A i \in 1..Len(t) : t[i].len \in Nat
  BY DEF Listed
<1>3. Len(n) = Len(t) /\ \A i \in 1..Len(t) : n[i] = 4 + t[i].len
  BY <1>1, <1>2
<1>4. Len(n) \in Nat /\ (\A i \in 1..Len(n) : n[i] \in Nat) /\ (\A i \in 1..Len(n) : n[i] \in Int)
  BY <1>2, <1>3
<1>5. PICK s : s = SumsFrom(4, n)
  OBVIOUS
<1>6. \A i : OffsetOf(t, i) = s[i - 1]
  BY <1>1, <1>5 DEF OffsetOf, MarkerBytes, HeaderBytes
<1>7. /\ SumsFrom(4, n)[0] = 4
      /\ \A i \in 1..Len(n) : SumsFrom(4, n)[i] = SumsFrom(4, n)[i - 1] + n[i]
  BY <1>4, SumsSteps
<1>8. /\ \A i \in 0..Len(n) : SumsFrom(4, n)[i] \in Nat
      /\ \A i, j \in 0..Len(n) : i <= j => SumsFrom(4, n)[i] <= SumsFrom(4, n)[j]
  BY <1>4, SumsGrow
<1>9. OffsetOf(t, 1) = 4
  BY <1>5, <1>6, <1>7
<1>10. ASSUME NEW i \in 1..Len(t) PROVE OffsetOf(t, i + 1) = OffsetOf(t, i) + (4 + t[i].len)
  <2>1. i \in 1..Len(n) /\ i + 1 - 1 = i
    BY <1>3
  <2>2. s[i] = s[i - 1] + n[i]
    BY <2>1, <1>5, <1>7
  <2>3. n[i] = 4 + t[i].len
    BY <1>3
  <2>4. QED
    BY <2>1, <2>2, <2>3, <1>6
<1>11. ASSUME NEW i \in 1..(Len(t) + 1) PROVE OffsetOf(t, i) \in Nat /\ 4 <= OffsetOf(t, i)
  <2>1. i - 1 \in 0..Len(n) /\ 0 \in 0..Len(n) /\ 0 <= i - 1
    BY <1>2, <1>3
  <2>2. s[i - 1] \in Nat /\ s[0] <= s[i - 1] /\ s[0] = 4
    BY <2>1, <1>5, <1>7, <1>8
  <2>3. QED
    BY <2>2, <1>6
<1>12. ASSUME NEW i \in 1..(Len(t) + 1), NEW j \in 1..(Len(t) + 1), i <= j
       PROVE  OffsetOf(t, i) <= OffsetOf(t, j)
  <2>1. i - 1 \in 0..Len(n) /\ j - 1 \in 0..Len(n) /\ i - 1 <= j - 1
    BY <1>2, <1>3, <1>12
  <2>2. s[i - 1] <= s[j - 1]
    BY <2>1, <1>5, <1>8
  <2>3. QED
    BY <2>2, <1>6
<1>13. QED
  BY <1>9, <1>10, <1>11, <1>12

\* Where block b lies at offset o of blocks, with or without the last-block flag: the body
\* of a seek table may have placeholders that the block meant has not.
HoldsBlock(blocks, o, b, last) ==
    /\ o \in DOMAIN blocks
    /\ blocks[o].kind = b.kind /\ blocks[o].len = b.len /\ (blocks[o].last <=> last)
    /\ b.kind \in {"info", "tags"} => blocks[o].body = b.body
    /\ b.kind = "seek" => Used(blocks[o].body.points) = Used(b.body.points)

\* The blocks of t lie where their lengths say.
Laid(blocks, t) ==
    \A i \in 1..Len(t) : HoldsBlock(blocks, OffsetOf(t, i), t[i], i = Len(t))

-----------------------------------------------------------------------------
(* The headers in the sink.                                                 *)

\* Headers h are those of cfg, with a table of n points at t in room for m.
HeadersAre(h, t, n, m) ==
    /\ DOMAIN h \subseteq Int
    /\ 4 \in DOMAIN h /\ h[4].kind = "info" /\ h[4].len = 34
    /\ h[4].last <=> cfg.tags = "none" /\ cfg.interval = 0
    /\ cfg.tags # "none" =>
           /\ 42 \in DOMAIN h /\ h[42].kind = "tags" /\ h[42].len = TagsLen
           /\ h[42].last <=> cfg.interval = 0
    /\ cfg.interval # 0 =>
           /\ t \in DOMAIN h /\ h[t].kind = "seek" /\ h[t].len = n * 18 /\ ~h[t].last
           /\ t + 4 + n * 18 \in DOMAIN h /\ h[t + 4 + n * 18].kind = "pad"
           /\ h[t + 4 + n * 18].len = (m - n) * 18 /\ h[t + 4 + n * 18].last

\* The kinds that writeInitialMetadata writes.
LEMMA FirstKinds ==
    ASSUME NEW c, ConfigOK(c), NEW h, h = InitialHeaders(c), NEW t, t = TableHeader(c),
           NEW a, a = AudioStart(c)
    PROVE  /\ h[4].kind = "info"
           /\ c.tags # "none" => h[42].kind = "tags"
           /\ c.interval > 0 => h[t].kind = "seek" /\ h[a - 4].kind = "pad"
<1>1. FirstBlocks(c, h, t, a, MaxPoints(c))
  BY FirstHeaders
<1>2. PICK m : m = MaxPoints(c)
  OBVIOUS
<1>3. /\ m \in Nat /\ t \in Nat /\ a \in Nat /\ TagsLen \in Nat
      /\ c.tags # "none" => t = 46 + TagsLen
      /\ c.tags = "none" => t = 42
      /\ c.interval > 0 => a = t + 8 + m * 18
  BY <1>1, <1>2 DEF FirstBlocks
<1>4. t >= 42 /\ (c.tags # "none" => t > 42) /\ (c.interval > 0 => a - 4 > t)
  BY <1>3
<1>5. 4 \in DOMAIN h /\ (c.tags # "none" => 42 \in DOMAIN h)
      /\ (c.interval > 0 => t \in DOMAIN h /\ a - 4 \in DOMAIN h)
  BY <1>1 DEF FirstBlocks
<1>6. InfoBody - HeaderLen = 4 /\ InfoBody + InfoLen = 42 /\ InfoLen = 34 /\ HeaderLen = 4
  BY DEF InfoBody, HeaderLen, InfoLen
<1>7. h[4].kind = "info"
  <2>1. h[4] = Block("info", InfoLen, ~(c.tags # "none") /\ ~(c.interval > 0))
    BY <1>3, <1>4, <1>5, <1>6 DEF InitialHeaders, Block
  <2>2. QED
    BY <2>1 DEF Block
<1>8. c.tags # "none" => h[42].kind = "tags"
  <2>1. c.tags # "none" => h[42] = Block("tags", TagsLen, ~(c.interval > 0))
    BY <1>3, <1>4, <1>5, <1>6 DEF InitialHeaders, Block
  <2>2. QED
    BY <2>1 DEF Block
<1>9. c.interval > 0 => h[t].kind = "seek"
  <2>1. c.interval > 0 => h[t] = Block("seek", MaxPoints(c) * PointLen, FALSE)
    BY <1>4, <1>5, <1>6 DEF InitialHeaders, Block
  <2>2. QED
    BY <2>1 DEF Block
<1>10. c.interval > 0 => h[a - 4].kind = "pad"
  <2>1. c.interval > 0 => h[a - 4] = Block("pad", 0, TRUE)
    BY <1>3, <1>4, <1>5, <1>6 DEF InitialHeaders, Block
  <2>2. QED
    BY <2>1 DEF Block
<1>11. QED
  BY <1>7, <1>8, <1>9, <1>10

\* Before Close has resized the table, the headers have room for all points, and a padding
\* of no bytes (writeInitialMetadata).
LEMMA FirstAre ==
    ASSUME ConfigOK(cfg)
    PROVE  HeadersAre(InitialHeaders(cfg), TableHeader(cfg), MaxPoints(cfg), MaxPoints(cfg))
<1>1. PICK h, t, a, m : /\ h = InitialHeaders(cfg) /\ t = TableHeader(cfg)
                        /\ a = AudioStart(cfg) /\ m = MaxPoints(cfg)
  OBVIOUS
<1>2. FirstBlocks(cfg, h, t, a, m)
  BY <1>1, FirstHeaders
<1>3. /\ h[4].kind = "info"
      /\ cfg.tags # "none" => h[42].kind = "tags"
      /\ cfg.interval > 0 => h[t].kind = "seek" /\ h[a - 4].kind = "pad"
  BY <1>1, FirstKinds
<1>4. cfg.interval # 0 <=> cfg.interval > 0
  BY DEF ConfigOK
<1>5. t \in Nat /\ a \in Nat /\ m \in Nat /\ (cfg.interval > 0 => a = t + 8 + m * 18)
  BY <1>2 DEF FirstBlocks
<1>6. cfg.interval > 0 => a - 4 = t + 4 + m * 18
  BY <1>5
<1>7. (m - m) * 18 = 0
  BY <1>5
<1>8. DOMAIN h \subseteq Int
  BY <1>2, <1>5 DEF FirstBlocks
<1>9. HeadersAre(h, t, m, m)
  BY <1>2, <1>3, <1>4, <1>6, <1>7, <1>8 DEF FirstBlocks, HeadersAre
<1>10. QED
  BY <1>1, <1>9

\* After it they have room for the points recorded, and the padding has the rest (Close).
LEMMA FinalAre ==
    ASSUME ConfigOK(cfg), Fitted
    PROVE  HeadersAre(FinalHeaders, TableHeader(cfg),
                      IF cfg.interval # 0 THEN Len(points) ELSE MaxPoints(cfg), MaxPoints(cfg))
<1>0. cfg.interval # 0 <=> cfg.interval > 0
  BY DEF ConfigOK
<1>1. PICK h, t, a, m : /\ h = InitialHeaders(cfg) /\ t = TableHeader(cfg)
                        /\ a = AudioStart(cfg) /\ m = MaxPoints(cfg)
  OBVIOUS
<1>2. HeadersAre(h, t, m, m)
  BY <1>1, FirstAre
<1>3. CASE ~(cfg.interval > 0 /\ Len(points) < m)
  <2>1. FinalHeaders = h
    BY <1>1, <1>3 DEF FinalHeaders
  <2>2. cfg.interval # 0 => Len(points) = m
    BY <1>0, <1>1, <1>3, RoomForPoints DEF Fitted
  <2>3. QED
    BY <2>1, <2>2, <1>1, <1>2
<1>4. CASE cfg.interval > 0 /\ Len(points) < m
  <2>1. PICK n \in Nat : n = Len(points) /\ n < m
    BY <1>4 DEF Fitted
  <2>2. /\ m \in Nat /\ t \in Nat /\ (t = 42 \/ t = 46 + TagsLen) /\ TagsLen \in Nat
        /\ cfg.tags # "none" => t = 46 + TagsLen
        /\ 4 \in DOMAIN h /\ t \in DOMAIN h /\ DOMAIN h[t] = {"kind", "len", "last"}
        /\ cfg.tags # "none" => 42 \in DOMAIN h
    BY <1>1, <1>4, FirstHeaders DEF FirstBlocks
  <2>3. PICK q : q = t + 4 + n * 18
    OBVIOUS
  <2>4. q \in Nat /\ q > t /\ t >= 42 /\ (cfg.tags # "none" => t > 42)
    BY <2>1, <2>2, <2>3
  <2>5. PICK g : g = [h EXCEPT ![t].len = n * 18]
    OBVIOUS
  <2>6. PICK f : f = [o \in DOMAIN g \cup {q} |->
                        IF o = q THEN Block("pad", (m - n) * 18, TRUE) ELSE g[o]]
    OBVIOUS
  <2>7. FinalHeaders = f
    <3>1. FinalHeaders = Padded(Shrunk(h))
      BY <1>1, <1>4 DEF FinalHeaders
    <3>2. QED
      BY <1>1, <2>1, <2>3, <2>5, <2>6, <3>1 DEF Padded, Shrunk, SeekBodyOff, HeaderLen, PointLen
  <2>8. DOMAIN g = DOMAIN h /\ \A o \in DOMAIN h \ {t} : g[o] = h[o]
    BY <2>5
  <2>9. g[t].len = n * 18 /\ g[t].last = h[t].last /\ g[t].kind = h[t].kind
    BY <2>2, <2>5
  <2>10. /\ DOMAIN f = DOMAIN h \cup {q}
         /\ f[q] = Block("pad", (m - n) * 18, TRUE)
         /\ f[t].len = n * 18 /\ f[t].last = h[t].last /\ f[t].kind = h[t].kind
         /\ f[4] = h[4] /\ (cfg.tags # "none" => f[42] = h[42])
    <3>1. DOMAIN f = DOMAIN h \cup {q} /\ f[q] = Block("pad", (m - n) * 18, TRUE)
      BY <2>6, <2>8
    <3>2. \A o \in DOMAIN h : o # q => f[o] = g[o]
      BY <2>6, <2>8
    <3>3. f[t] = g[t]
      BY <2>2, <2>4, <3>2
    <3>4. 4 # t /\ 4 # q /\ f[4] = h[4]
      BY <2>2, <2>4, <2>8, <3>2
    <3>5. cfg.tags # "none" => f[42] = h[42]
      BY <2>2, <2>4, <2>8, <3>2
    <3>6. QED
      BY <2>9, <3>1, <3>3, <3>4, <3>5
  <2>11. f[q].kind = "pad" /\ f[q].len = (m - n) * 18 /\ f[q].last
    BY <2>10 DEF Block
  <2>12. HeadersAre(f, t, n, m)
    <3>1. /\ DOMAIN h \subseteq Int /\ h[4].kind = "info" /\ h[4].len = 34
          /\ h[4].last <=> cfg.tags = "none" /\ cfg.interval = 0
          /\ h[t].kind = "seek" /\ ~h[t].last
          /\ cfg.tags # "none" =>
                 /\ 42 \in DOMAIN h /\ h[42].kind = "tags" /\ h[42].len = TagsLen
                 /\ h[42].last <=> cfg.interval = 0
      BY <1>0, <1>2, <1>4 DEF HeadersAre
    <3>2. DOMAIN f \subseteq Int /\ 4 \in DOMAIN f /\ t \in DOMAIN f /\ q \in DOMAIN f
      BY <2>2, <2>4, <2>10, <3>1
    <3>3. f[4].kind = "info" /\ f[4].len = 34
      BY <2>10, <3>1
    <3>4. f[4].last <=> cfg.tags = "none" /\ cfg.interval = 0
      BY <2>10, <3>1
    <3>5. cfg.tags # "none" =>
              /\ 42 \in DOMAIN f /\ f[42].kind = "tags" /\ f[42].len = TagsLen
              /\ f[42].last <=> cfg.interval = 0
      BY <2>10, <3>1
    <3>6. f[t].kind = "seek" /\ f[t].len = n * 18 /\ ~f[t].last
      BY <2>10, <3>1
    <3>7. QED
      BY <2>3, <2>11, <3>2, <3>3, <3>4, <3>5, <3>6 DEF HeadersAre
  <2>13. QED
    BY <1>0, <1>1, <1>4, <2>1, <2>7, <2>12
<1>5. QED
  BY <1>3, <1>4

-----------------------------------------------------------------------------
(* The sink holds what the encoder was asked to write.                      *)

Kept == IF Resized THEN Len(points) ELSE MaxPoints(cfg)

\* The headers in a sink that can be read have room for as many points as are kept.
LEMMA SinkHeaders ==
    ASSUME Left, Readable
    PROVE  /\ ConfigOK(cfg) /\ TagsLen \in Nat /\ MaxPoints(cfg) \in Nat /\ Len(points) \in Nat
           /\ cfg.interval # 0 =>
                  /\ Kept \in Nat /\ Kept <= MaxPoints(cfg) /\ Len(points) <= MaxPoints(cfg)
                  /\ HeadersAre(headers, TableHeader(cfg), Kept, MaxPoints(cfg))
           /\ cfg.interval = 0 => HeadersAre(headers, TableHeader(cfg), MaxPoints(cfg), MaxPoints(cfg))
<1>1. ConfigOK(cfg) /\ TagsLen \in Nat
  BY SizesAssumption DEF Left, Headed
<1>2. MaxPoints(cfg) \in Nat /\ Len(points) \in Nat /\ Len(points) <= MaxPoints(cfg)
  BY <1>1, RoomForPoints DEF Left, Fitted
<1>3. Kept \in Nat /\ Kept <= MaxPoints(cfg)
  BY <1>2 DEF Kept
<1>4. verdict \in {"open", "done"} /\ pc # "pad"
  BY DEF Left, IInv, Typed, Readable, Usable
<1>5. CASE Resized
  <2>1. headers = FinalHeaders
    BY <1>5 DEF Left, Chained, Resized
  <2>2. HeadersAre(headers, TableHeader(cfg),
                   IF cfg.interval # 0 THEN Len(points) ELSE MaxPoints(cfg), MaxPoints(cfg))
    BY <1>1, <2>1, FinalAre DEF Left
  <2>3. QED
    BY <1>1, <1>2, <1>3, <1>5, <2>2 DEF Kept
<1>6. CASE ~Resized
  <2>1. headers = InitialHeaders(cfg)
    BY <1>4, <1>6 DEF Left, Chained, Resized
  <2>2. HeadersAre(headers, TableHeader(cfg), MaxPoints(cfg), MaxPoints(cfg))
    BY <1>1, <2>1, FirstAre
  <2>3. QED
    BY <1>1, <1>2, <1>3, <1>6, <2>2 DEF Kept
<1>7. QED
  BY <1>5, <1>6

\* The table in the sink holds the points that Close has written, and placeholders.
LEMMA TableUsed ==
    ASSUME Left, Readable, cfg.interval # 0
    PROVE  Used(PointsOf(table, Kept * 18).points) = Used(IF Pointed THEN points ELSE <<>>)
<1>1. /\ Kept \in Nat /\ Len(points) \in Nat /\ (Pointed => Len(points) <= Kept)
  BY SinkHeaders DEF Kept
<1>2. table = IF Pointed THEN points ELSE <<>>
  <2>1. cfg.interval > 0 /\ verdict \in {"open", "done"} /\ pc # "pad"
    BY DEF Left, Headed, ConfigOK, IInv, Typed, Readable, Usable
  <2>2. CASE Pointed
    BY <2>1, <2>2 DEF Left, Chained, Pointed, Resized
  <2>3. CASE ~Pointed
    BY <2>1, <2>3 DEF Left, TableEmpty, Pointed, Resized
  <2>4. QED
    BY <2>2, <2>3
<1>3. PICK S : S = SeekPoint \cup {Unused}
  OBVIOUS
<1>4. PICK q : q = table
  OBVIOUS
<1>5. points \in Seq(S)
  BY <1>3, SeqMonotonic DEF Left
<1>6. q \in Seq(S) /\ \A i \in 1..Len(q) : q[i].sample # UnusedSample
  <2>1. \A i \in 1..Len(points) : points[i] \in SeekPoint
    BY DEF Left
  <2>2. \A x \in SeekPoint : x.sample # UnusedSample
    BY DEF SeekPoint, UnusedSample
  <2>3. \A i \in 1..Len(points) : points[i].sample # UnusedSample
    BY <2>1, <2>2
  <2>4. <<>> \in Seq(S) /\ Len(<<>>) = 0
    OBVIOUS
  <2>5. QED
    BY <1>2, <1>4, <1>5, <2>3, <2>4
<1>7. PICK n \in Nat : n = Kept
  BY <1>1
<1>8. (n * 18) \div 18 = n
  BY <1>7
<1>9. Len(q) <= n /\ Len(q) \in Nat
  <2>1. Len(<<>>) = 0
    OBVIOUS
  <2>2. QED
    BY <1>1, <1>2, <1>4, <1>7, <2>1
<1>10. PICK r : r = [i \in 1..n |-> IF i <= Len(q) THEN q[i] ELSE Unused]
  OBVIOUS
<1>11. PointsOf(table, Kept * 18).points = r
  BY <1>4, <1>7, <1>8, <1>10 DEF PointsOf, PointLen
<1>12. r \in Seq(S) /\ Len(r) = n
  <2>1. \A i \in 1..n : r[i] \in S
    BY <1>3, <1>6, <1>9, <1>10
  <2>2. r \in [1..n -> S]
    BY <1>10, <2>1
  <2>3. QED
    BY <1>7, <2>2, ListIs
<1>13. \A i \in 1..Len(q) : r[i] = q[i]
  BY <1>9, <1>10
<1>14. \A i \in (Len(q) + 1)..Len(r) : r[i].sample = UnusedSample
  <2>1. Unused.sample = UnusedSample
    BY DEF Unused
  <2>2. \A i \in (Len(q) + 1)..n : r[i] = Unused
    BY <1>9, <1>10
  <2>3. QED
    BY <1>12, <2>1, <2>2
<1>15. Used(r) = q
  BY <1>6, <1>9, <1>12, <1>13, <1>14, UsedPadded
<1>16. Used(q) = q
  BY <1>6, <1>9, UsedPadded
<1>17. QED
  BY <1>2, <1>4, <1>11, <1>15, <1>16

\* The blocks meant.
InfoBlock == Meant("info", 34, InfoOf(info))
TagsBlockMeant == Meant("tags", TagsLen, TagsBody)
TableBlock == Meant("seek", Kept * 18, [points |-> IF Pointed THEN points ELSE <<>>])
PaddingBlock == Meant("pad", (MaxPoints(cfg) - Kept) * 18, <<>>)

\* Where a header in the sink has the kind, length and flag of the block meant, and that is
\* not a table, the sink holds the block (EncodeBlockHeader).
LEMMA HoldsMeant ==
    ASSUME NEW o \in DOMAIN headers, NEW kind, NEW len, NEW body, NEW last,
           headers[o].kind = kind, headers[o].len = len, headers[o].last <=> last,
           kind \in {"info", "tags"} => SinkBody(headers[o]) = body,
           kind = "seek" => Used(SinkBody(headers[o]).points) = Used(body.points)
    PROVE  HoldsBlock(SinkBlocks, o, Meant(kind, len, body), last)
<1>1. PICK h : h = headers[o]
  OBVIOUS
<1>2. PICK x : x = SinkBody(h)
  OBVIOUS
<1>3. DOMAIN SinkBlocks = DOMAIN headers
  BY DEF SinkBlocks
<1>4. SinkBlocks[o] = [kind |-> h.kind, len |-> h.len, last |-> h.last, body |-> x]
  BY <1>1, <1>2, Zenon DEF SinkBlocks
<1>5. PICK b : b = SinkBlocks[o]
  OBVIOUS
<1>6. b.kind = kind /\ b.len = len /\ (b.last <=> last) /\ b.body = x
  BY <1>1, <1>4, <1>5
<1>7. PICK m : m = Meant(kind, len, body)
  OBVIOUS
<1>8. m.kind = kind /\ m.len = len /\ m.body = body
  BY <1>7 DEF Meant
<1>9. QED
  BY <1>1, <1>2, <1>3, <1>5, <1>6, <1>7, <1>8 DEF HoldsBlock

\* The blocks in the sink, one by one.
LEMMA SinkHolds ==
    ASSUME Left, Readable
    PROVE  /\ HoldsBlock(SinkBlocks, 4, InfoBlock, cfg.tags = "none" /\ cfg.interval = 0)
           /\ cfg.tags # "none" => HoldsBlock(SinkBlocks, 42, TagsBlockMeant, cfg.interval = 0)
           /\ cfg.interval # 0 =>
                  /\ HoldsBlock(SinkBlocks, TableHeader(cfg), TableBlock, FALSE)
                  /\ HoldsBlock(SinkBlocks, TableHeader(cfg) + 4 + Kept * 18, PaddingBlock, TRUE)
<1>1. PICK t, n, m : /\ t = TableHeader(cfg) /\ m = MaxPoints(cfg)
                     /\ n = IF cfg.interval # 0 THEN Kept ELSE MaxPoints(cfg)
  OBVIOUS
<1>2. HeadersAre(headers, t, n, m)
  BY <1>1, SinkHeaders
<1>3. /\ 4 \in DOMAIN headers /\ headers[4].kind = "info" /\ headers[4].len = 34
      /\ headers[4].last <=> cfg.tags = "none" /\ cfg.interval = 0
  BY <1>2 DEF HeadersAre
<1>4. cfg.tags # "none" =>
          /\ 42 \in DOMAIN headers /\ headers[42].kind = "tags" /\ headers[42].len = TagsLen
          /\ headers[42].last <=> cfg.interval = 0
  BY <1>2 DEF HeadersAre
<1>5. PICK q : q = t + 4 + n * 18
  OBVIOUS
<1>6. cfg.interval # 0 =>
          /\ t \in DOMAIN headers /\ headers[t].kind = "seek" /\ headers[t].len = n * 18
          /\ ~headers[t].last
          /\ q \in DOMAIN headers /\ headers[q].kind = "pad" /\ headers[q].len = (m - n) * 18
          /\ headers[q].last
  BY <1>2, <1>5 DEF HeadersAre
<1>7. HoldsBlock(SinkBlocks, 4, InfoBlock, cfg.tags = "none" /\ cfg.interval = 0)
  <2>1. SinkBody(headers[4]) = InfoOf(info)
    BY <1>3 DEF SinkBody
  <2>2. QED
    <3>1. PICK last : last = (cfg.tags = "none" /\ cfg.interval = 0)
      OBVIOUS
    <3>2. 4 \in DOMAIN headers /\ headers[4].kind = "info" /\ headers[4].len = 34
          /\ (headers[4].last <=> last) /\ "info" # "seek"
      BY <1>3, <3>1
    <3>3. HoldsBlock(SinkBlocks, 4, Meant("info", 34, InfoOf(info)), last)
      BY <2>1, <3>2, HoldsMeant
    <3>4. QED
      BY <3>1, <3>3 DEF InfoBlock
<1>8. ASSUME cfg.tags # "none"
      PROVE  HoldsBlock(SinkBlocks, 42, TagsBlockMeant, cfg.interval = 0)
  <2>1. SinkBody(headers[42]) = TagsBody
    BY <1>4, <1>8 DEF SinkBody
  <2>2. QED
    <3>1. PICK last : last = (cfg.interval = 0)
      OBVIOUS
    <3>2. 42 \in DOMAIN headers /\ headers[42].kind = "tags" /\ headers[42].len = TagsLen
          /\ (headers[42].last <=> last) /\ "tags" # "seek"
      BY <1>4, <1>8, <3>1
    <3>3. HoldsBlock(SinkBlocks, 42, Meant("tags", TagsLen, TagsBody), last)
      BY <2>1, <3>2, HoldsMeant
    <3>4. QED
      BY <3>1, <3>3 DEF TagsBlockMeant
<1>9. ASSUME cfg.interval # 0
      PROVE  HoldsBlock(SinkBlocks, t, TableBlock, FALSE) /\ HoldsBlock(SinkBlocks, q, PaddingBlock, TRUE)
  <2>1. n = Kept
    BY <1>1, <1>9
  <2>2. SinkBody(headers[t]) = PointsOf(table, Kept * 18)
    BY <1>6, <1>9, <2>1 DEF SinkBody
  <2>3. PICK b : b = [points |-> IF Pointed THEN points ELSE <<>>]
    OBVIOUS
  <2>4. b.points = IF Pointed THEN points ELSE <<>>
    BY <2>3
  <2>5. Used(SinkBody(headers[t]).points) = Used(b.points)
    BY <1>9, <2>2, <2>4, TableUsed
  <2>6. HoldsBlock(SinkBlocks, t, Meant("seek", Kept * 18, b), FALSE)
    BY <1>6, <1>9, <2>1, <2>5, HoldsMeant
  <2>7. HoldsBlock(SinkBlocks, t, TableBlock, FALSE)
    BY <2>3, <2>6, Zenon DEF TableBlock
  <2>8. HoldsBlock(SinkBlocks, q, PaddingBlock, TRUE)
    BY <1>1, <1>6, <1>9, <2>1, HoldsMeant DEF PaddingBlock
  <2>9. QED
    BY <2>7, <2>8
<1>10. QED
  BY <1>1, <1>5, <1>7, <1>8, <1>9

\* q is s with t behind it.
Joined(q, s, t) ==
    /\ Len(q) = Len(s) + Len(t)
    /\ \A i \in 1..Len(s) : q[i] = s[i]
    /\ \A i \in 1..Len(t) : q[Len(s) + i] = t[i]

\* A list of the elements of s and then of t is s followed by t.
LEMMA Joins ==
    ASSUME NEW S, NEW s \in Seq(S), NEW t \in Seq(S), NEW q \in Seq(S), Joined(q, s, t)
    PROVE  s \o t = q
<1>1. PICK n \in Nat : n = Len(s)
  BY LenProperties
<1>2. PICK m \in Nat : m = Len(t)
  BY LenProperties
<1>3. PICK r : r = s \o t
  OBVIOUS
<1>4. /\ r \in Seq(S) /\ Len(r) = Len(s) + Len(t)
      /\ \A i \in 1..(Len(s) + Len(t)) : r[i] = IF i <= Len(s) THEN s[i] ELSE t[i - Len(s)]
  BY <1>3, ConcatProperties
<1>5. /\ r \in Seq(S) /\ Len(r) = n + m
      /\ \A i \in 1..(n + m) : r[i] = IF i <= n THEN s[i] ELSE t[i - n]
  BY <1>1, <1>2, <1>4
<1>6. /\ Len(q) = n + m /\ \A i \in 1..n : q[i] = s[i]
      /\ \A i \in 1..m : q[n + i] = t[i]
  BY <1>1, <1>2 DEF Joined
<1>7. ASSUME NEW i \in 1..(n + m) PROVE r[i] = q[i]
  <2>1. CASE i <= n
    BY <1>1, <1>5, <1>6, <2>1
  <2>2. CASE i > n
    <3>0. n \in Nat /\ m \in Nat /\ i \in Int /\ i <= n + m
      BY <1>1, <1>2
    <3>1. PICK j \in 1..m : j = i - n
      <4>1. i - n \in 1..m
        BY <3>0, <2>2
      <4>2. QED
        BY <4>1
    <3>2. i = n + j
      BY <1>1, <1>2, <3>1
    <3>3. q[i] = t[j]
      BY <1>6, <3>1, <3>2
    <3>4. r[i] = t[j]
      BY <1>5, <2>2, <3>1
    <3>5. QED
      BY <3>3, <3>4
  <2>3. QED
    BY <1>1, <2>1, <2>2
<1>8. r = q
  BY <1>5, <1>6, <1>7, SeqEqual
<1>9. QED
  BY <1>3, <1>8

\* The list of the blocks meant, by what was asked for.
LEMMA IntendedIs ==
    Intended =
        IF cfg.tags = "none"
        THEN IF cfg.interval = 0 THEN <<InfoBlock>> ELSE <<InfoBlock, TableBlock, PaddingBlock>>
        ELSE IF cfg.interval = 0 THEN <<InfoBlock, TagsBlockMeant>>
             ELSE <<InfoBlock, TagsBlockMeant, TableBlock, PaddingBlock>>
<1>1. PICK a, b, c, d : /\ a = InfoBlock /\ b = TagsBlockMeant
                        /\ c = TableBlock /\ d = PaddingBlock
  OBVIOUS
<1>2. Intended = <<a>> \o (IF cfg.tags = "none" THEN <<>> ELSE <<b>>)
                       \o (IF cfg.interval = 0 THEN <<>> ELSE <<c, d>>)
  BY <1>1, Zenon DEF Intended, InfoBlock, TagsBlockMeant, TableBlock, PaddingBlock, Kept, InfoLen, PointLen
<1>3. PICK S : S = {a, b, c, d}
  OBVIOUS
<1>4. PICK s, t, u, v : s = <<a>> /\ t = <<a, b>> /\ u = <<a, c, d>> /\ v = <<a, b, c, d>>
  OBVIOUS
<1>5. /\ s \in Seq(S) /\ Len(s) = 1 /\ s[1] = a
      /\ t \in Seq(S) /\ Len(t) = 2 /\ t[1] = a /\ t[2] = b
      /\ u \in Seq(S) /\ Len(u) = 3 /\ u[1] = a /\ u[2] = c /\ u[3] = d
      /\ v \in Seq(S) /\ Len(v) = 4 /\ v[1] = a /\ v[2] = b /\ v[3] = c /\ v[4] = d
  BY <1>3, <1>4
<1>6. s \o <<>> = s /\ t \o <<>> = t
  BY <1>5, ConcatEmptySeq
<1>7. s \o <<b>> = t
  <2>1. PICK x : x = <<b>>
    OBVIOUS
  <2>2. x \in Seq(S) /\ Len(x) = 1 /\ x[1] = b
    BY <1>3, <2>1
  <2>3. Joined(t, s, x)
    BY <1>5, <2>2 DEF Joined
  <2>4. QED
    BY <1>5, <2>1, <2>2, <2>3, Joins
<1>20. PICK x : x = <<c, d>>
  OBVIOUS
<1>21. x \in Seq(S) /\ Len(x) = 2 /\ x[1] = c /\ x[2] = d
  BY <1>3, <1>20
<1>8. s \o <<c, d>> = u
  <2>1. Joined(u, s, x)
    BY <1>5, <1>21 DEF Joined
  <2>2. QED
    BY <1>5, <1>20, <1>21, <2>1, Joins
<1>9. t \o <<c, d>> = v
  <2>1. Joined(v, t, x)
    BY <1>5, <1>21 DEF Joined
  <2>2. QED
    BY <1>5, <1>20, <1>21, <2>1, Joins
<1>10. Intended = s \o (IF cfg.tags = "none" THEN <<>> ELSE <<b>>)
                    \o (IF cfg.interval = 0 THEN <<>> ELSE <<c, d>>)
  BY <1>2, <1>4
<1>11. Intended = IF cfg.tags = "none" THEN IF cfg.interval = 0 THEN s ELSE u
                  ELSE IF cfg.interval = 0 THEN t ELSE v
  BY <1>6, <1>7, <1>8, <1>9, <1>10
<1>12. QED
  BY <1>1, <1>4, <1>11, Zenon

\* What the blocks meant are, and that their lengths are numbers.
LEMMA BlocksMeant ==
    ASSUME Left, Readable
    PROVE  /\ InfoBlock.kind = "info" /\ InfoBlock.len = 34 /\ InfoBlock.body = InfoOf(info)
           /\ TagsBlockMeant.kind = "tags" /\ TagsBlockMeant.len = TagsLen /\ TagsLen \in Nat
           /\ TagsBlockMeant.body.vendor \in Nat /\ TagsBlockMeant.body.comments \in Seq(Nat)
           /\ cfg.interval # 0 =>
                  /\ TableBlock.kind = "seek" /\ TableBlock.len = Kept * 18
                  /\ PaddingBlock.kind = "pad" /\ PaddingBlock.len = (MaxPoints(cfg) - Kept) * 18
                  /\ Kept * 18 \in Nat /\ (MaxPoints(cfg) - Kept) * 18 \in Nat
<1>1. InfoBlock.kind = "info" /\ InfoBlock.len = 34 /\ InfoBlock.body = InfoOf(info)
  BY DEF InfoBlock, Meant
<1>2. /\ TagsBlockMeant.kind = "tags" /\ TagsBlockMeant.len = TagsLen
      /\ TagsBlockMeant.body = TagsBody
  BY DEF TagsBlockMeant, Meant
<1>3. TagsBody.vendor \in Nat /\ TagsBody.comments \in Seq(Nat)
  BY TagsAssumption DEF TagsBody
<1>4. TagsLen \in Nat
  BY SizesAssumption
<1>5. /\ TableBlock.kind = "seek" /\ TableBlock.len = Kept * 18
      /\ PaddingBlock.kind = "pad" /\ PaddingBlock.len = (MaxPoints(cfg) - Kept) * 18
  BY DEF TableBlock, PaddingBlock, Meant
<1>6. ASSUME cfg.interval # 0 PROVE Kept * 18 \in Nat /\ (MaxPoints(cfg) - Kept) * 18 \in Nat
  <2>1. MaxPoints(cfg) \in Nat /\ Kept \in Nat /\ Kept <= MaxPoints(cfg)
    BY <1>6, SinkHeaders
  <2>2. MaxPoints(cfg) - Kept \in Nat
    BY <2>1
  <2>3. QED
    BY <2>1, <2>2
<1>7. QED
  BY <1>1, <1>2, <1>3, <1>4, <1>5, <1>6

\* The sink holds the blocks meant, one behind the other from the marker on
\* (writeInitialMetadata, rewriteSeekTable, Close).
LEMMA IntendedLaid ==
    ASSUME Left, Readable
    PROVE  /\ Listed(Intended) /\ Laid(SinkBlocks, Intended)
           /\ 1 \in 1..Len(Intended) /\ Intended[1] = InfoBlock
<1>1. PICK t : t = Intended
  OBVIOUS
<1>2. PICK a, b, c, d : /\ a = InfoBlock /\ b = TagsBlockMeant
                        /\ c = TableBlock /\ d = PaddingBlock
  OBVIOUS
<1>3. /\ a.kind = "info" /\ a.len = 34
      /\ b.kind = "tags" /\ b.len = TagsLen /\ TagsLen \in Nat
      /\ b.body.vendor \in Nat /\ b.body.comments \in Seq(Nat)
  BY <1>2, BlocksMeant
<1>4. PICK k, l : k = Kept * 18 /\ l = (MaxPoints(cfg) - Kept) * 18
  OBVIOUS
<1>5. cfg.interval # 0 =>
          /\ c.kind = "seek" /\ c.len = k /\ k \in Nat /\ d.kind = "pad" /\ d.len = l /\ l \in Nat
  BY <1>2, <1>4, BlocksMeant
<1>6. PICK h : h = TableHeader(cfg)
  OBVIOUS
<1>7. h = IF cfg.tags = "none" THEN 42 ELSE 46 + TagsLen
  BY <1>3, <1>6 DEF TableHeader, InfoBody, TagsBlock, HeaderLen, InfoLen
<1>8. PICK s : s = SinkBlocks
  OBVIOUS
<1>9. /\ HoldsBlock(s, 4, a, cfg.tags = "none" /\ cfg.interval = 0)
      /\ cfg.tags # "none" => HoldsBlock(s, 42, b, cfg.interval = 0)
      /\ cfg.interval # 0 => HoldsBlock(s, h, c, FALSE) /\ HoldsBlock(s, h + 4 + k, d, TRUE)
  BY <1>2, <1>4, <1>6, <1>8, SinkHolds
<1>10. t = IF cfg.tags = "none"
           THEN IF cfg.interval = 0 THEN <<a>> ELSE <<a, c, d>>
           ELSE IF cfg.interval = 0 THEN <<a, b>> ELSE <<a, b, c, d>>
  BY <1>1, <1>2, IntendedIs, Zenon
<1>11. CASE cfg.tags = "none" /\ cfg.interval = 0
  <2>1. Len(t) = 1 /\ DOMAIN t = 1..1 /\ t[1] = a
    BY <1>10, <1>11
  <2>2. Listed(t)
    BY <2>1, <1>3 DEF Listed
  <2>3. OffsetOf(t, 1) = 4
    BY <2>2, OffsetSteps
  <2>4. HoldsBlock(s, 4, a, TRUE)
    BY <1>9, <1>11 DEF HoldsBlock
  <2>5. HoldsBlock(s, OffsetOf(t, 1), t[1], 1 = 1)
    BY <2>1, <2>3, <2>4
  <2>6. Laid(s, t)
    BY <2>1, <2>5 DEF Laid
  <2>7. QED
    BY <1>1, <1>2, <1>8, <2>1, <2>2, <2>6
<1>12. CASE cfg.tags # "none" /\ cfg.interval = 0
  <2>1. Len(t) = 2 /\ DOMAIN t = 1..2 /\ t[1] = a /\ t[2] = b
    BY <1>10, <1>12
  <2>2. Listed(t)
    BY <2>1, <1>3 DEF Listed
  <2>3. OffsetOf(t, 1) = 4 /\ OffsetOf(t, 1 + 1) = OffsetOf(t, 1) + (4 + t[1].len)
    BY <2>1, <2>2, OffsetSteps
  <2>4. OffsetOf(t, 2) = 42
    BY <1>3, <2>1, <2>3
  <2>5. HoldsBlock(s, 4, a, FALSE) /\ HoldsBlock(s, 42, b, TRUE)
    BY <1>9, <1>12 DEF HoldsBlock
  <2>6. HoldsBlock(s, OffsetOf(t, 1), t[1], 1 = 2) /\ HoldsBlock(s, OffsetOf(t, 2), t[2], 2 = 2)
    BY <2>1, <2>3, <2>4, <2>5 DEF HoldsBlock
  <2>7. Laid(s, t)
    BY <2>1, <2>6 DEF Laid
  <2>8. QED
    BY <1>1, <1>2, <1>8, <2>1, <2>2, <2>7
<1>13. CASE cfg.tags = "none" /\ cfg.interval # 0
  <2>1. Len(t) = 3 /\ DOMAIN t = 1..3 /\ t[1] = a /\ t[2] = c /\ t[3] = d
    BY <1>10, <1>13
  <2>2. Listed(t)
    BY <2>1, <1>3, <1>5, <1>13 DEF Listed
  <2>3. /\ OffsetOf(t, 1) = 4 /\ OffsetOf(t, 1 + 1) = OffsetOf(t, 1) + (4 + t[1].len)
        /\ OffsetOf(t, 2 + 1) = OffsetOf(t, 2) + (4 + t[2].len)
    <3>1. /\ OffsetOf(t, 1) = 4
          /\ \A i \in 1..Len(t) : OffsetOf(t, i + 1) = OffsetOf(t, i) + (4 + t[i].len)
      BY <2>2, OffsetSteps
    <3>2. 1 \in 1..Len(t) /\ 2 \in 1..Len(t)
      BY <2>1
    <3>3. QED
      BY <3>1, <3>2
  <2>4. OffsetOf(t, 2) = 42
    BY <1>3, <2>1, <2>3
  <2>5. OffsetOf(t, 3) = 42 + 4 + k
    BY <1>5, <1>13, <2>1, <2>3, <2>4
  <2>6. HoldsBlock(s, 4, a, FALSE) /\ HoldsBlock(s, 42, c, FALSE) /\ HoldsBlock(s, 42 + 4 + k, d, TRUE)
    BY <1>7, <1>9, <1>13 DEF HoldsBlock
  <2>7. /\ HoldsBlock(s, OffsetOf(t, 1), t[1], 1 = 3) /\ HoldsBlock(s, OffsetOf(t, 2), t[2], 2 = 3)
        /\ HoldsBlock(s, OffsetOf(t, 3), t[3], 3 = 3)
    BY <2>1, <2>3, <2>4, <2>5, <2>6 DEF HoldsBlock
  <2>8. Laid(s, t)
    BY <2>1, <2>7 DEF Laid
  <2>9. QED
    BY <1>1, <1>2, <1>8, <2>1, <2>2, <2>8
<1>14. CASE cfg.tags # "none" /\ cfg.interval # 0
  <2>1. Len(t) = 4 /\ DOMAIN t = 1..4 /\ t[1] = a /\ t[2] = b /\ t[3] = c /\ t[4] = d
    BY <1>10, <1>14
  <2>2. Listed(t)
    BY <2>1, <1>3, <1>5, <1>14 DEF Listed
  <2>3. /\ OffsetOf(t, 1) = 4 /\ OffsetOf(t, 1 + 1) = OffsetOf(t, 1) + (4 + t[1].len)
        /\ OffsetOf(t, 2 + 1) = OffsetOf(t, 2) + (4 + t[2].len)
        /\ OffsetOf(t, 3 + 1) = OffsetOf(t, 3) + (4 + t[3].len)
    <3>1. /\ OffsetOf(t, 1) = 4
          /\ \A i \in 1..Len(t) : OffsetOf(t, i + 1) = OffsetOf(t, i) + (4 + t[i].len)
      BY <2>2, OffsetSteps
    <3>2. 1 \in 1..Len(t) /\ 2 \in 1..Len(t) /\ 3 \in 1..Len(t)
      BY <2>1
    <3>3. QED
      BY <3>1, <3>2
  <2>4. OffsetOf(t, 2) = 42
    BY <1>3, <2>1, <2>3
  <2>5. OffsetOf(t, 3) = h
    BY <1>3, <1>7, <1>14, <2>1, <2>3, <2>4
  <2>6. OffsetOf(t, 4) = h + 4 + k
    BY <1>3, <1>5, <1>7, <1>14, <2>1, <2>3, <2>5
  <2>7. /\ HoldsBlock(s, 4, a, FALSE) /\ HoldsBlock(s, 42, b, FALSE) /\ HoldsBlock(s, h, c, FALSE)
        /\ HoldsBlock(s, h + 4 + k, d, TRUE)
    BY <1>9, <1>14 DEF HoldsBlock
  <2>8. /\ HoldsBlock(s, OffsetOf(t, 1), t[1], 1 = 4) /\ HoldsBlock(s, OffsetOf(t, 2), t[2], 2 = 4)
        /\ HoldsBlock(s, OffsetOf(t, 3), t[3], 3 = 4) /\ HoldsBlock(s, OffsetOf(t, 4), t[4], 4 = 4)
    BY <2>1, <2>3, <2>4, <2>5, <2>6, <2>7 DEF HoldsBlock
  <2>9. Laid(s, t)
    BY <2>1, <2>8 DEF Laid
  <2>10. QED
    BY <1>1, <1>2, <1>8, <2>1, <2>2, <2>9
<1>15. QED
  BY <1>11, <1>12, <1>13, <1>14

\* u is t with b at place i.
Inserted(u, t, i, b) ==
    /\ Len(u) = Len(t) + 1 /\ DOMAIN u = 1..Len(u)
    /\ u[i] = b
    /\ \A j \in 1..(i - 1) : u[j] = t[j]
    /\ \A j \in i..Len(t) : u[j + 1] = t[j]

\* A list with one element more (InsertAt).
LEMMA InsertOne ==
    ASSUME NEW t, Listed(t), NEW i \in 1..Len(t), NEW b
    PROVE  Inserted(InsertAt(t, i, b), t, i, b)
<1>1. PICK n \in Nat : n = Len(t)
  BY DEF Listed
<1>2. PICK S : S = {t[j] : j \in 1..n} \cup {b}
  OBVIOUS
<1>3. (\A j \in 1..n : t[j] \in S) /\ b \in S
  BY <1>2
<1>4. n \in Nat /\ i \in Int /\ 1 <= i /\ i <= n
  BY <1>1
<1>5. PICK k \in Nat : k = i - 1
  BY <1>4
<1>6. PICK pre, q, r : pre = SubSeq(t, 1, i - 1) /\ q = SubSeq(t, i, n) /\ r = <<b>>
  OBVIOUS
<1>7. /\ pre \in Seq(S) /\ Len(pre) = k
      /\ \A j \in 1..k : pre[j] = t[j]
  <2>1. /\ i - 1 \in Int /\ 1 \in Int /\ (\A j \in 1..(i - 1) : t[j] \in S)
    BY <1>3, <1>4
  <2>2. /\ SubSeq(t, 1, i - 1) \in Seq(S)
        /\ Len(SubSeq(t, 1, i - 1)) = IF 1 <= i - 1 THEN i - 1 - 1 + 1 ELSE 0
        /\ \A j \in 1..(i - 1 - 1 + 1) : SubSeq(t, 1, i - 1)[j] = t[1 + j - 1]
    BY <2>1, SubSeqProperties
  <2>3. i - 1 - 1 + 1 = k /\ \A j \in 1..k : 1 + j - 1 = j
    BY <1>4, <1>5
  <2>4. QED
    BY <1>4, <1>5, <1>6, <2>2, <2>3
<1>8. PICK m \in Nat : m = n - k
  BY <1>4, <1>5
<1>9. /\ q \in Seq(S) /\ Len(q) = m
      /\ \A j \in 1..m : q[j] = t[k + j]
  <2>1. /\ i \in Int /\ n \in Int /\ (\A j \in i..n : t[j] \in S)
    BY <1>3, <1>4
  <2>2. /\ SubSeq(t, i, n) \in Seq(S)
        /\ Len(SubSeq(t, i, n)) = IF i <= n THEN n - i + 1 ELSE 0
        /\ \A j \in 1..(n - i + 1) : SubSeq(t, i, n)[j] = t[i + j - 1]
    BY <2>1, SubSeqProperties
  <2>3. i <= n /\ n - i + 1 = m /\ \A j \in 1..m : i + j - 1 = k + j
    BY <1>4, <1>5, <1>8
  <2>4. QED
    BY <1>6, <2>2, <2>3
<1>10. r \in Seq(S) /\ Len(r) = 1 /\ r[1] = b
  BY <1>3, <1>6
<1>11. PICK s : s = pre \o r
  OBVIOUS
<1>12. /\ s \in Seq(S) /\ Len(s) = k + 1
       /\ \A j \in 1..(k + 1) : s[j] = IF j <= k THEN pre[j] ELSE r[j - k]
  <2>1. /\ s \in Seq(S) /\ Len(s) = Len(pre) + Len(r)
        /\ \A j \in 1..(Len(pre) + Len(r)) : s[j] = IF j <= Len(pre) THEN pre[j] ELSE r[j - Len(pre)]
    BY <1>7, <1>10, <1>11, ConcatProperties
  <2>2. QED
    BY <1>7, <1>10, <2>1
<1>13. PICK u : u = s \o q
  OBVIOUS
<1>14. /\ u \in Seq(S) /\ Len(u) = (k + 1) + m
       /\ \A j \in 1..((k + 1) + m) : u[j] = IF j <= k + 1 THEN s[j] ELSE q[j - (k + 1)]
  <2>1. /\ u \in Seq(S) /\ Len(u) = Len(s) + Len(q)
        /\ \A j \in 1..(Len(s) + Len(q)) : u[j] = IF j <= Len(s) THEN s[j] ELSE q[j - Len(s)]
    BY <1>9, <1>12, <1>13, ConcatProperties
  <2>2. QED
    BY <1>9, <1>12, <2>1
<1>15. u = InsertAt(t, i, b)
  BY <1>1, <1>6, <1>11, <1>13, Zenon DEF InsertAt
<1>16. Len(u) = Len(t) + 1 /\ DOMAIN u = 1..Len(u)
  <2>1. (k + 1) + m = n + 1
    BY <1>4, <1>5, <1>8
  <2>2. DOMAIN u = 1..Len(u)
    BY <1>14, LenProperties
  <2>3. QED
    BY <1>1, <1>14, <2>1, <2>2
<1>17. ASSUME NEW j \in 1..(i - 1) PROVE u[j] = t[j]
  <2>1. j \in 1..k /\ j \in 1..(k + 1) /\ j \in 1..((k + 1) + m) /\ j <= k /\ j <= k + 1
    BY <1>4, <1>5, <1>8
  <2>2. u[j] = s[j]
    BY <2>1, <1>14
  <2>3. s[j] = pre[j]
    BY <2>1, <1>12
  <2>4. QED
    BY <2>1, <2>2, <2>3, <1>7
<1>18. u[i] = b
  <2>1. i = k + 1 /\ i \in 1..(k + 1) /\ i \in 1..((k + 1) + m) /\ ~(i <= k) /\ i - k = 1
    BY <1>4, <1>5, <1>8
  <2>2. u[i] = s[i]
    BY <2>1, <1>14
  <2>3. s[i] = r[1]
    BY <2>1, <1>12
  <2>4. QED
    BY <2>2, <2>3, <1>10
<1>19. ASSUME NEW j \in i..Len(t) PROVE u[j + 1] = t[j]
  <2>0. j \in Int /\ i <= j /\ j <= n
    BY <1>1, <1>4
  <2>1. PICK x \in Nat : x = j - k
    BY <2>0, <1>4, <1>5
  <2>2. /\ x \in 1..m /\ j + 1 \in 1..((k + 1) + m) /\ ~(j + 1 <= k + 1)
        /\ j + 1 - (k + 1) = x /\ k + x = j
    BY <2>0, <2>1, <1>4, <1>5, <1>8
  <2>3. u[j + 1] = q[x]
    BY <2>2, <1>14
  <2>4. QED
    BY <2>2, <2>3, <1>9
<1>20. QED
  BY <1>15, <1>16, <1>17, <1>18, <1>19 DEF Inserted

\* What lies behind the block inserted moves up by its length and its header's.
LEMMA OffsetsMove ==
    ASSUME NEW t, Listed(t), NEW u, Listed(u), NEW i \in 1..Len(t), NEW b, b.len \in Nat,
           Inserted(u, t, i, b)
    PROVE  /\ \A j \in 1..i : OffsetOf(u, j) = OffsetOf(t, j)
           /\ \A j \in i..Len(t) : OffsetOf(u, j + 1) = OffsetOf(t, j) + (4 + b.len)
<1>1. PICK n \in Nat : n = Len(t)
  BY DEF Listed
<1>2. n \in Nat /\ i \in Int /\ 1 <= i /\ i <= n
  BY <1>1
<1>3. /\ OffsetOf(t, 1) = 4
      /\ \A j \in 1..n : OffsetOf(t, j + 1) = OffsetOf(t, j) + (4 + t[j].len)
      /\ \A j \in 1..(n + 1) : OffsetOf(t, j) \in Nat
  BY <1>1, OffsetSteps
<1>4. Len(u) = n + 1
  BY <1>1 DEF Inserted
<1>5. /\ OffsetOf(u, 1) = 4
      /\ \A j \in 1..(n + 1) : OffsetOf(u, j + 1) = OffsetOf(u, j) + (4 + u[j].len)
      /\ \A j \in 1..(n + 2) : OffsetOf(u, j) \in Nat
  <2>1. /\ OffsetOf(u, 1) = 4
        /\ \A j \in 1..Len(u) : OffsetOf(u, j + 1) = OffsetOf(u, j) + (4 + u[j].len)
        /\ \A j \in 1..(Len(u) + 1) : OffsetOf(u, j) \in Nat
    BY OffsetSteps
  <2>2. n + 1 + 1 = n + 2
    BY <1>2
  <2>3. QED
    BY <1>4, <2>1, <2>2
<1>6. /\ u[i] = b
      /\ \A j \in 1..(i - 1) : u[j] = t[j]
      /\ \A j \in i..n : u[j + 1] = t[j]
  BY <1>1 DEF Inserted
<1> DEFINE T == {k \in Nat : k + 1 <= i => OffsetOf(u, k + 1) = OffsetOf(t, k + 1)}
<1>7. 0 \in T
  BY <1>3, <1>5
<1>8. ASSUME NEW k \in Nat, k \in T PROVE k + 1 \in T
  <2> SUFFICES ASSUME (k + 1) + 1 <= i PROVE OffsetOf(u, (k + 1) + 1) = OffsetOf(t, (k + 1) + 1)
    OBVIOUS
  <2>1. PICK j \in Nat : j = k + 1
    OBVIOUS
  <2>2. j \in 1..n /\ j \in 1..(n + 1) /\ j \in 1..(i - 1) /\ k + 1 <= i
    BY <1>2, <2>1
  <2>3. OffsetOf(u, j) = OffsetOf(t, j)
    BY <1>8, <2>1, <2>2
  <2>4. u[j] = t[j]
    BY <1>6, <2>2
  <2>5. OffsetOf(u, j + 1) = OffsetOf(u, j) + (4 + u[j].len)
    BY <1>5, <2>2
  <2>6. OffsetOf(t, j + 1) = OffsetOf(t, j) + (4 + t[j].len)
    BY <1>3, <2>2
  <2>7. QED
    BY <2>1, <2>3, <2>4, <2>5, <2>6
<1>9. Nat \subseteq T
  BY <1>7, <1>8, NatInd
<1>10. ASSUME NEW j \in 1..i PROVE OffsetOf(u, j) = OffsetOf(t, j)
  <2>1. PICK k \in Nat : k = j - 1
    BY <1>2
  <2>2. j \in Int /\ 1 <= j /\ j <= i
    BY <1>2
  <2>3. k \in Nat /\ k + 1 = j /\ k + 1 <= i
    BY <2>1, <2>2
  <2>4. k \in T
    BY <1>9, <2>3
  <2>5. QED
    BY <2>3, <2>4
<1> DEFINE R == {k \in Nat : i + k <= n => OffsetOf(u, (i + k) + 1) = OffsetOf(t, i + k) + (4 + b.len)}
<1>11. 0 \in R
  <2>1. OffsetOf(u, i + 1) = OffsetOf(u, i) + (4 + u[i].len)
    BY <1>2, <1>5
  <2>2. OffsetOf(u, i) = OffsetOf(t, i) /\ i + 0 = i
    BY <1>2, <1>10
  <2>3. QED
    BY <1>6, <2>1, <2>2
<1>12. ASSUME NEW k \in Nat, k \in R PROVE k + 1 \in R
  <2> SUFFICES ASSUME i + (k + 1) <= n
               PROVE OffsetOf(u, (i + (k + 1)) + 1) = OffsetOf(t, i + (k + 1)) + (4 + b.len)
    OBVIOUS
  <2>1. PICK j \in Nat : j = i + k
    BY <1>2
  <2>2. /\ j \in 1..n /\ j + 1 \in 1..(n + 1) /\ j \in i..n /\ i + (k + 1) = j + 1 /\ i + k <= n
        /\ j + 1 \in 1..n
    BY <1>2, <2>1
  <2>3. OffsetOf(u, j + 1) = OffsetOf(t, j) + (4 + b.len)
    BY <1>12, <2>1, <2>2
  <2>4. u[j + 1] = t[j]
    BY <1>6, <2>2
  <2>5. OffsetOf(u, (j + 1) + 1) = OffsetOf(u, j + 1) + (4 + u[j + 1].len)
    BY <1>5, <2>2
  <2>6. OffsetOf(t, j + 1) = OffsetOf(t, j) + (4 + t[j].len)
    BY <1>3, <2>2
  <2>7. PICK x \in Nat, y \in Nat : x = OffsetOf(t, j) /\ y = t[j].len
    <3>1. OffsetOf(t, j) \in Nat
      BY <1>3, <2>2
    <3>2. t[j].len \in Nat
      BY <1>1, <2>2 DEF Listed
    <3>3. QED
      BY <3>1, <3>2
  <2>8. PICK z \in Nat : z = b.len
    OBVIOUS
  <2>9. OffsetOf(u, (j + 1) + 1) = x + (4 + z) + (4 + y) /\ OffsetOf(t, j + 1) = x + (4 + y)
    BY <2>3, <2>4, <2>5, <2>6, <2>7, <2>8
  <2>10. x + (4 + z) + (4 + y) = x + (4 + y) + (4 + z)
    <3>1. x \in Nat /\ y \in Nat /\ z \in Nat
      BY <2>7, <2>8
    <3>2. QED
      BY <3>1
  <2>11. QED
    BY <2>2, <2>8, <2>9, <2>10
<1>13. Nat \subseteq R
  BY <1>11, <1>12, NatInd
<1>14. ASSUME NEW j \in i..n PROVE OffsetOf(u, j + 1) = OffsetOf(t, j) + (4 + b.len)
  <2>1. PICK k \in Nat : k = j - i
    BY <1>2
  <2>2. j \in Int /\ i <= j /\ j <= n
    BY <1>2
  <2>3. k \in Nat /\ i + k = j /\ i + k <= n
    BY <1>2, <2>1, <2>2
  <2>4. k \in R
    BY <1>13, <2>3
  <2>5. QED
    BY <2>3, <2>4
<1>15. QED
  BY <1>1, <1>10, <1>14

\* What another tool's block at offset o leaves where it is, and what it moves up.
LEMMA WithHolds ==
    ASSUME NEW blocks, DOMAIN blocks \subseteq Int, NEW o \in Int, NEW b, b.len \in Nat,
           NEW w, w = With(blocks, o, b)
    PROVE  /\ o \in DOMAIN w /\ w[o] = b
           /\ \A y \in DOMAIN blocks : y < o => y \in DOMAIN w /\ w[y] = blocks[y]
           /\ \A y \in DOMAIN blocks :
                  ~(y < o) => y + (4 + b.len) \in DOMAIN w /\ w[y + (4 + b.len)] = blocks[y]
<1>1. PICK n \in Nat : n = b.len
  OBVIOUS
<1>2. PICK D0 : D0 = DOMAIN blocks
  OBVIOUS
<1>3. PICK mv : mv = [x \in D0 |-> IF x < o THEN x ELSE x + 4 + n]
  OBVIOUS
<1>4. \A x \in D0 : mv[x] = IF x < o THEN x ELSE x + 4 + n
  BY <1>3
<1>5. PICK X : X = {mv[y] : y \in D0} \cup {o}
  OBVIOUS
<1>6. X = {IF y < o THEN y ELSE y + 4 + n : y \in D0} \cup {o}
  BY <1>4, <1>5
<1>7. w = [x \in {IF y < o THEN y ELSE y + 4 + b.len : y \in DOMAIN blocks} \cup {o} |->
              IF x = o THEN b
              ELSE blocks[CHOOSE y \in DOMAIN blocks : (IF y < o THEN y ELSE y + 4 + b.len) = x]]
  BY Zenon DEF With, HeaderBytes
<1>8. w = [x \in X |->
              IF x = o THEN b ELSE blocks[CHOOSE y \in D0 : (IF y < o THEN y ELSE y + 4 + n) = x]]
  <2>1. w = [x \in {IF y < o THEN y ELSE y + 4 + n : y \in D0} \cup {o} |->
                IF x = o THEN b
                ELSE blocks[CHOOSE y \in D0 : (IF y < o THEN y ELSE y + 4 + n) = x]]
    BY <1>1, <1>2, <1>7
  <2>2. PICK Y : Y = {IF y < o THEN y ELSE y + 4 + n : y \in D0} \cup {o}
    OBVIOUS
  <2>3. X = Y
    BY <1>6, <2>2
  <2>4. QED
    BY <2>1, <2>2, <2>3, Zenon
<1>9. o \in X /\ DOMAIN w = X /\ w[o] = b
  BY <1>5, <1>8, Zenon
<1>10. \A x \in D0, y \in D0 :
           (IF y < o THEN y ELSE y + 4 + n) = (IF x < o THEN x ELSE x + 4 + n) => x = y
  BY <1>1, <1>2
<1>11. ASSUME NEW x \in D0, NEW z, z = IF x < o THEN x ELSE x + 4 + n
       PROVE  z \in X /\ w[z] = blocks[x]
  <2>1. z \in X
    BY <1>6, <1>11
  <2>2. z # o
    BY <1>1, <1>2, <1>11
  <2>3. PICK c : c = CHOOSE y \in D0 : (IF y < o THEN y ELSE y + 4 + n) = z
    OBVIOUS
  <2>4. c \in D0 /\ (IF c < o THEN c ELSE c + 4 + n) = z
    BY <1>11, <2>3
  <2>5. c = x
    BY <1>10, <1>11, <2>4
  <2>6. w[z] = IF z = o THEN b ELSE blocks[CHOOSE y \in D0 : (IF y < o THEN y ELSE y + 4 + n) = z]
    BY <1>8, <2>1, Zenon
  <2>7. w[z] = blocks[c]
    BY <2>2, <2>3, <2>6, Zenon
  <2>8. QED
    BY <2>1, <2>5, <2>7
<1>12. ASSUME NEW y \in DOMAIN blocks, y < o
       PROVE  y \in DOMAIN w /\ w[y] = blocks[y]
  <2>1. y \in D0 /\ y = IF y < o THEN y ELSE y + 4 + n
    BY <1>2, <1>12
  <2>2. QED
    BY <1>9, <1>11, <2>1
<1>13. ASSUME NEW y \in DOMAIN blocks, ~(y < o)
       PROVE  y + (4 + b.len) \in DOMAIN w /\ w[y + (4 + b.len)] = blocks[y]
  <2>1. PICK z : z = y + 4 + n
    OBVIOUS
  <2>2. y \in D0 /\ z = IF y < o THEN y ELSE y + 4 + n
    BY <1>2, <1>13, <2>1
  <2>3. z \in X /\ w[z] = blocks[y]
    BY <1>11, <2>2
  <2>4. z = y + (4 + b.len)
    BY <1>1, <2>1
  <2>5. QED
    BY <1>9, <2>3, <2>4
<1>14. QED
  BY <1>9, <1>12, <1>13

\* b is a block that another tool may add.
Addable(b) ==
    /\ b.len \in Nat /\ b.last = FALSE
    /\ b.kind = "tags" => b.body.vendor \in Nat /\ b.body.comments \in Seq(Nat)

\* A list with a block of another tool lies in the blocks with that block.
LEMMA InsertedLaid ==
    ASSUME NEW blocks, DOMAIN blocks \subseteq Int, NEW t, Listed(t), Laid(blocks, t),
           NEW i \in 1..Len(t), NEW b, Addable(b),
           NEW u, u = InsertAt(t, i, b)
    PROVE  /\ Listed(u) /\ Laid(With(blocks, OffsetOf(t, i), b), u) /\ Len(u) = Len(t) + 1
           /\ \E j \in 1..Len(u) : u[j] = t[1]
<1>0. /\ b.len \in Nat /\ b.last = FALSE
      /\ b.kind = "tags" => b.body.vendor \in Nat /\ b.body.comments \in Seq(Nat)
  BY DEF Addable
<1>1. PICK n \in Nat : n = Len(t)
  BY DEF Listed
<1>2. n \in Nat /\ i \in Int /\ 1 <= i /\ i <= n
  BY <1>1
<1>3. Inserted(u, t, i, b)
  BY InsertOne
<1>4. /\ Len(u) = n + 1 /\ DOMAIN u = 1..(n + 1) /\ u[i] = b
      /\ \A j \in 1..(i - 1) : u[j] = t[j]
      /\ \A j \in i..n : u[j + 1] = t[j]
  BY <1>1, <1>3 DEF Inserted
<1>5. ASSUME NEW j \in 1..(n + 1), j # i
      PROVE  \/ j \in 1..(i - 1) /\ j \in 1..n /\ j \in 1..i /\ j # n + 1 /\ j # n /\ u[j] = t[j]
             \/ \E k \in i..n : j = k + 1 /\ k \in 1..n /\ u[j] = t[k]
  <2>1. j \in Int /\ 1 <= j /\ j <= n + 1
    BY <1>2
  <2>2. CASE j < i
    BY <1>2, <1>4, <2>1, <2>2
  <2>3. CASE ~(j < i)
    <3>1. PICK k \in Nat : k = j - 1
      BY <2>1
    <3>2. k \in i..n /\ j = k + 1 /\ k \in 1..n
      BY <1>2, <1>5, <2>1, <2>3, <3>1
    <3>3. u[j] = t[k]
      BY <1>4, <3>2
    <3>4. QED
      BY <3>2, <3>3
  <2>4. QED
    BY <2>2, <2>3
<1>6. Listed(u)
  <2>1. Len(u) \in Nat /\ DOMAIN u = 1..Len(u)
    BY <1>2, <1>4
  <2>2. ASSUME NEW j \in 1..(n + 1)
        PROVE  /\ u[j].len \in Nat
               /\ u[j].kind = "tags" => u[j].body.vendor \in Nat /\ u[j].body.comments \in Seq(Nat)
    <3>1. CASE j = i
      BY <1>0, <1>4, <3>1
    <3>2. CASE j # i
      <4>1. PICK k \in 1..n : u[j] = t[k]
        BY <1>5, <3>2
      <4>2. QED
        BY <1>1, <4>1 DEF Listed
    <3>3. QED
      BY <3>1, <3>2
  <2>3. QED
    BY <1>4, <2>1, <2>2 DEF Listed
<1>7. /\ \A j \in 1..i : OffsetOf(u, j) = OffsetOf(t, j)
      /\ \A j \in i..n : OffsetOf(u, j + 1) = OffsetOf(t, j) + (4 + b.len)
  BY <1>0, <1>1, <1>3, <1>6, OffsetsMove
<1>8. PICK o : o = OffsetOf(t, i)
  OBVIOUS
<1>9. /\ \A j \in 1..(n + 1) : OffsetOf(t, j) \in Nat
      /\ \A j, k \in 1..(n + 1) : j <= k => OffsetOf(t, j) <= OffsetOf(t, k)
      /\ \A j \in 1..n : OffsetOf(t, j + 1) = OffsetOf(t, j) + (4 + t[j].len)
  BY <1>1, OffsetSteps
<1>10. o \in Int
  <2>1. i \in 1..(n + 1)
    BY <1>2
  <2>2. QED
    BY <1>8, <1>9, <2>1
<1>11. PICK w : w = With(blocks, o, b)
  OBVIOUS
<1>12. /\ o \in DOMAIN w /\ w[o] = b
       /\ \A y \in DOMAIN blocks : y < o => y \in DOMAIN w /\ w[y] = blocks[y]
       /\ \A y \in DOMAIN blocks :
              ~(y < o) => y + (4 + b.len) \in DOMAIN w /\ w[y + (4 + b.len)] = blocks[y]
  BY <1>0, <1>10, <1>11, WithHolds
<1>13. \A j \in 1..n : HoldsBlock(blocks, OffsetOf(t, j), t[j], j = n)
  BY <1>1 DEF Laid
<1>14. ASSUME NEW j \in 1..(n + 1) PROVE HoldsBlock(w, OffsetOf(u, j), u[j], j = n + 1)
  <2>1. CASE j = i
    <3>1. i \in 1..i /\ ~(i = n + 1)
      BY <1>2
    <3>2. OffsetOf(u, i) = o
      BY <1>7, <1>8, <3>1
    <3>3. HoldsBlock(w, o, b, FALSE)
      BY <1>0, <1>12 DEF HoldsBlock
    <3>4. HoldsBlock(w, o, b, i = n + 1)
      BY <3>1, <3>3
    <3>5. QED
      BY <1>4, <2>1, <3>2, <3>4
  <2>2. CASE j # i /\ j \in 1..(i - 1) /\ j \in 1..n /\ j \in 1..i /\ j # n + 1 /\ j # n /\ u[j] = t[j]
    <3>1. PICK x, y, c : x = OffsetOf(t, j) /\ y = OffsetOf(t, j + 1) /\ c = t[j]
      OBVIOUS
    <3>2. j \in 1..(n + 1) /\ j + 1 \in 1..(n + 1) /\ i \in 1..(n + 1) /\ j + 1 <= i
      BY <1>2, <2>2
    <3>3. x \in Nat /\ y \in Nat /\ y <= o
      BY <1>8, <1>9, <3>1, <3>2
    <3>4. c.len \in Nat /\ y = x + (4 + c.len)
      BY <1>1, <1>9, <2>2, <3>1 DEF Listed
    <3>5. x < o
      BY <1>10, <3>3, <3>4
    <3>6. HoldsBlock(blocks, x, c, FALSE)
      BY <1>13, <2>2, <3>1
    <3>7. x \in DOMAIN w /\ w[x] = blocks[x]
      BY <1>12, <3>5, <3>6 DEF HoldsBlock
    <3>8. HoldsBlock(w, x, c, FALSE)
      BY <3>6, <3>7 DEF HoldsBlock
    <3>9. OffsetOf(u, j) = x
      BY <1>7, <2>2, <3>1
    <3>10. QED
      BY <2>2, <3>1, <3>8, <3>9
  <2>3. ASSUME NEW k \in i..n, j = k + 1, k \in 1..n, u[j] = t[k]
        PROVE  HoldsBlock(w, OffsetOf(u, j), u[j], j = n + 1)
    <3>1. PICK x, c : x = OffsetOf(t, k) /\ c = t[k]
      OBVIOUS
    <3>2. k \in 1..(n + 1) /\ i \in 1..(n + 1) /\ i <= k /\ ((k = n) <=> (j = n + 1))
      BY <1>2, <2>3
    <3>3. x \in Nat /\ o <= x
      BY <1>8, <1>9, <3>1, <3>2
    <3>4. ~(x < o)
      BY <1>10, <3>3
    <3>5. HoldsBlock(blocks, x, c, k = n)
      BY <1>13, <2>3, <3>1
    <3>6. PICK z : z = x + (4 + b.len)
      OBVIOUS
    <3>7. z \in DOMAIN w /\ w[z] = blocks[x]
      BY <1>12, <3>4, <3>5, <3>6 DEF HoldsBlock
    <3>8. HoldsBlock(w, z, c, k = n)
      BY <3>5, <3>7 DEF HoldsBlock
    <3>9. OffsetOf(u, j) = z
      BY <1>7, <2>3, <3>1, <3>6
    <3>10. HoldsBlock(w, z, c, j = n + 1)
      BY <3>2, <3>8 DEF HoldsBlock
    <3>11. QED
      BY <2>3, <3>1, <3>9, <3>10
  <2>4. QED
    BY <1>5, <2>1, <2>2, <2>3
<1>15. Laid(w, u)
  BY <1>4, <1>14 DEF Laid
<1>16. \E j \in 1..Len(u) : u[j] = t[1]
  <2>1. CASE i = 1
    <3>1. 1 \in i..n /\ 1 + 1 \in 1..(n + 1)
      BY <1>2, <2>1
    <3>2. QED
      BY <1>4, <3>1
  <2>2. CASE i # 1
    <3>1. 1 \in 1..(i - 1) /\ 1 \in 1..(n + 1)
      BY <1>2, <2>2
    <3>2. QED
      BY <1>4, <3>1
  <2>3. QED
    BY <2>1, <2>2
<1>17. QED
  BY <1>1, <1>4, <1>6, <1>8, <1>11, <1>15, <1>16

-----------------------------------------------------------------------------
(* The file that is read.                                                   *)

\* File f holds the blocks of t where their lengths say, one of them the STREAMINFO i.
Stands(f, t, i) ==
    /\ Listed(t) /\ Laid(f.blocks, t)
    /\ f.prefix \in Nat /\ f.prefix = TagBytes(f) /\ f.size \in Int
    /\ \E j \in 1..Len(t) : t[j].kind = "info" /\ t[j].body = InfoOf(i)

\* No file is being read, or one that an encoder left and that stays as it is.
Filed == file = NoFile \/ (Readable /\ Stands(file, truth, info))

\* A file with a tag before its blocks.
LEMMA FileStands ==
    ASSUME NEW f \in Leading, NEW blocks, NEW t, NEW i, NEW size \in Int, NEW ending,
           Listed(t), Laid(blocks, t),
           \E j \in 1..Len(t) : t[j].kind = "info" /\ t[j].body = InfoOf(i)
    PROVE  Stands(File(f, blocks, size, ending), t, i) /\ File(f, blocks, size, ending) # NoFile
<1>1. PICK g : g = File(f, blocks, size, ending)
  OBVIOUS
<1>2. /\ g.id3 = f.id3 /\ g.footer = f.footer /\ g.prefix = f.prefix /\ g.blocks = blocks
      /\ g.size = size
  BY <1>1 DEF File
<1>3. TagBytes(g) = TagBytes(f)
  BY <1>2 DEF TagBytes
<1>4. g.prefix \in Nat /\ g.prefix = TagBytes(g)
  BY <1>2, <1>3, LeadingAssumption
<1>5. g # NoFile
  <2>1. "blocks" \in DOMAIN g
    BY <1>1 DEF File
  <2>2. "blocks" \notin DOMAIN NoFile
    BY DEF NoFile
  <2>3. QED
    BY <2>1, <2>2
<1>6. Stands(g, t, i)
  BY <1>2, <1>4 DEF Stands
<1>7. QED
  BY <1>1, <1>5, <1>6

\* Where the frames start and how long the file is.
LEMMA SizesLeft ==
    ASSUME Left
    PROVE  AudioStart(cfg) \in Nat /\ end \in Nat
<1>1. ConfigOK(cfg) /\ end \in Nat
  BY DEF Left, Headed, Measured, Adjacent, Counted
<1>2. MaxPoints(cfg) \in Nat /\ TagsLen \in Nat
  BY <1>1, RoomForPoints, SizesAssumption
<1>3. QED
  BY <1>1, <1>2 DEF AudioStart, SeekBodyOff, TableHeader, InfoBody, InfoLen, TagsBlock, HeaderLen, PointLen

\* The blocks meant stand in the sink.
LEMMA IntendedStands ==
    ASSUME Left, Readable
    PROVE  /\ Listed(Intended) /\ Laid(SinkBlocks, Intended) /\ DOMAIN SinkBlocks \subseteq Int
           /\ 1 \in 1..Len(Intended) /\ Intended[1].kind = "info" /\ Intended[1].body = InfoOf(info)
<1>1. /\ Listed(Intended) /\ Laid(SinkBlocks, Intended)
      /\ 1 \in 1..Len(Intended) /\ Intended[1] = InfoBlock
  BY IntendedLaid
<1>2. InfoBlock.kind = "info" /\ InfoBlock.body = InfoOf(info)
  BY BlocksMeant
<1>3. DOMAIN headers \subseteq Int
  BY SinkHeaders DEF HeadersAre
<1>4. DOMAIN SinkBlocks = DOMAIN headers
  BY DEF SinkBlocks
<1>5. QED
  BY <1>1, <1>2, <1>3, <1>4

\* The file that is opened stands (OpenStored, OpenCutAudio).
LEMMA OpensStanding ==
    ASSUME Left, OpenStored \/ OpenCutAudio
    PROVE  /\ Readable /\ Stands(file', truth', info) /\ file' # NoFile /\ UNCHANGED vars
           /\ rc = "idle" /\ result = "none" /\ \E f : Open(f)
<1>1. Readable /\ result = "none" /\ UNCHANGED vars
  BY DEF OpenStored, OpenCutAudio
<1>2. /\ Listed(Intended) /\ Laid(SinkBlocks, Intended) /\ DOMAIN SinkBlocks \subseteq Int
      /\ 1 \in 1..Len(Intended) /\ Intended[1].kind = "info" /\ Intended[1].body = InfoOf(info)
  BY <1>1, IntendedStands
<1>3. PICK a \in Nat, e \in Nat : a = AudioStart(cfg) /\ e = end
  BY SizesLeft
<1>4. a \in Nat /\ e \in Nat
  BY <1>3
<1>5. ASSUME NEW f \in Leading, NEW size \in Int, NEW ending, truth' = Intended,
             Open(File(f, SinkBlocks, size, ending))
      PROVE  Stands(file', truth', info) /\ file' # NoFile /\ rc = "idle" /\ \E g : Open(g)
  <2>1. /\ Stands(File(f, SinkBlocks, size, ending), Intended, info)
        /\ File(f, SinkBlocks, size, ending) # NoFile
    BY <1>2, FileStands
  <2>2. file' = File(f, SinkBlocks, size, ending) /\ rc = "idle"
    BY <1>5 DEF Open
  <2>3. QED
    BY <1>5, <2>1, <2>2
<1>6. CASE \E f \in Leading : OpenWhole(f)
  <2>1. PICK f \in Leading : OpenWhole(f)
    BY <1>6
  <2>2. f.prefix + a + e \in Int
    BY <1>4, <2>1, LeadingAssumption
  <2>3. truth' = Intended /\ Open(File(f, SinkBlocks, f.prefix + a + e, "eof"))
    BY <1>3, <2>1 DEF OpenWhole
  <2>4. QED
    BY <1>1, <1>5, <2>1, <2>2, <2>3
<1>7. CASE \E f \in Leading : OpenCut(f)
  <2>1. PICK f \in Leading : OpenCut(f)
    BY <1>7
  <2>2. PICK i \in 1..(Len(Intended) + 1), d \in {0, 1, 5}, ending \in {"eof", "broken"} :
            /\ Open(File(f, SinkBlocks, f.prefix + OffsetOf(Intended, i) - d, ending))
            /\ truth' = Intended
    BY <2>1 DEF OpenCut
  <2>3. PICK o \in Nat : o = OffsetOf(Intended, i)
    BY <1>2, <2>2, OffsetSteps
  <2>4. f.prefix \in Int /\ o \in Int /\ d \in Int
    BY <2>1, <2>2, <2>3, LeadingAssumption
  <2>5. f.prefix + o - d \in Int
    BY <2>4
  <2>6. QED
    BY <1>1, <1>5, <2>1, <2>2, <2>3, <2>5
<1>8. CASE OpenCutAudio
  <2>1. PICK f \in Leading, k \in 0..(end - 1), ending \in {"eof", "broken"} :
            Open(File(f, SinkBlocks, f.prefix + AudioStart(cfg) + k, ending))
    BY <1>8 DEF OpenCutAudio
  <2>2. f.prefix \in Int /\ k \in Int
    BY <1>3, <2>1, LeadingAssumption
  <2>3. f.prefix + a + k \in Int
    BY <1>4, <2>2
  <2>4. truth' = Intended
    BY <1>8 DEF OpenCutAudio
  <2>5. QED
    BY <1>1, <1>3, <1>5, <2>1, <2>3, <2>4
<1>9. CASE \E f \in Leading : OpenExtended(f)
  <2>1. PICK f \in Leading : OpenExtended(f)
    BY <1>9
  <2>2. PICK i \in 1..Len(Intended), b \in Foreign :
            /\ Open(File(f, With(SinkBlocks, OffsetOf(Intended, i), b),
                         f.prefix + AudioStart(cfg) + HeaderBytes + b.len + end, "eof"))
            /\ truth' = InsertAt(Intended, i, b)
    BY <2>1, Zenon DEF OpenExtended
  <2>3. /\ b.len \in Nat /\ b.last = FALSE
        /\ b.kind = "tags" => b.body.vendor \in Nat /\ b.body.comments \in Seq(Nat)
    BY <2>2, ForeignAssumption
  <2>4. PICK u, w : u = InsertAt(Intended, i, b) /\ w = With(SinkBlocks, OffsetOf(Intended, i), b)
    OBVIOUS
  <2>5. /\ Listed(u) /\ Laid(w, u) /\ Len(u) = Len(Intended) + 1
        /\ \E j \in 1..Len(u) : u[j] = Intended[1]
    <3>1. Addable(b)
      BY <2>3 DEF Addable
    <3>2. QED
      BY <1>2, <2>2, <2>4, <3>1, InsertedLaid
  <2>6. \E j \in 1..Len(u) : u[j].kind = "info" /\ u[j].body = InfoOf(info)
    BY <1>2, <2>5
  <2>7. PICK size : size = f.prefix + a + HeaderBytes + b.len + e
    OBVIOUS
  <2>8. size \in Int
    <3>1. f.prefix \in Int /\ b.len \in Int
      BY <2>1, <2>3, LeadingAssumption
    <3>2. QED
      BY <1>4, <2>7, <3>1 DEF HeaderBytes
  <2>9. Open(File(f, w, size, "eof")) /\ truth' = u
    BY <1>3, <2>2, <2>4, <2>7
  <2>10. Stands(File(f, w, size, "eof"), u, info) /\ File(f, w, size, "eof") # NoFile
    BY <2>1, <2>5, <2>6, <2>8, FileStands
  <2>11. file' = File(f, w, size, "eof") /\ rc = "idle"
    BY <2>9 DEF Open
  <2>12. QED
    BY <1>1, <2>9, <2>10, <2>11
<1>10. QED
  BY <1>6, <1>7, <1>8, <1>9 DEF OpenStored

\* What is opened stays as it is.
LEMMA FiledKept == Left /\ Filed /\ [TripNext]_tripVars => Filed'
<1> SUFFICES ASSUME Left, Filed, [TripNext]_tripVars PROVE Filed'
  OBVIOUS
<1>1. CASE Encodes
  <2>1. file = NoFile /\ file' = file
    BY <1>1 DEF Encodes, reader
  <2>2. QED
    BY <2>1 DEF Filed
<1>2. CASE OpenStored \/ OpenCutAudio
  <2>1. Readable /\ Stands(file', truth', info) /\ UNCHANGED vars
    BY <1>2, OpensStanding
  <2>2. info' = info /\ (Readable' <=> Readable)
    BY <2>1 DEF vars, sink, call, Readable, Usable
  <2>3. QED
    BY <2>1, <2>2 DEF Filed
<1>3. CASE Reads \/ UNCHANGED encoded
  <2>1. UNCHANGED <<vars, truth, file>>
    BY <1>3 DEF Reads, ReadStep, SourceEnds, SkipTag, ReadMarker, ReadBlockHeader, ReadBody, Refuse,
                encoded, reader
  <2>2. info' = info /\ (Readable' <=> Readable)
    BY <2>1 DEF vars, sink, call, Readable, Usable
  <2>3. QED
    BY <2>1, <2>2 DEF Filed
<1>4. CASE NewDecoder \/ WriteTo \/ DecodeFrame \/ CappedWrite \/ DecodeReturns \/ UNCHANGED tripVars
  <2>1. UNCHANGED encoded
    BY <1>4 DEF NewDecoder, WriteTo, DecodeFrame, CappedWrite, DecodeReturns, tripVars
  <2>2. QED
    BY <2>1, <1>3
<1>5. QED
  BY <1>1, <1>2, <1>3, <1>4 DEF TripNext, Stored, StoredNext

-----------------------------------------------------------------------------
(* What has been read of the file.                                          *)

\* Block i of the file is one that ReadMetadata lets pass.
Acceptable(i) ==
    /\ truth[i].kind # "invalid"
    /\ (i = 1) <=> (truth[i].kind = "info")
    /\ truth[i].kind = "info" => truth[i].len = InfoBytes /\ truth[i].body.legal
    /\ truth[i].kind = "seek" => truth[i].len % PointBytes = 0

\* The last table and the last sound tags among the first k blocks.
TablesTo(k) == {i \in 1..k : truth[i].kind = "seek"}
TagsTo(k) == {i \in 1..k : truth[i].kind = "tags" /\ Sound(truth[i])}
PointsTo(k) == IF TablesTo(k) = {} THEN <<>> ELSE Used(truth[Max(TablesTo(k))].body.points)
CommentsTo(k) == IF TagsTo(k) = {} THEN <<>> ELSE truth[Max(TagsTo(k))].body.tags
MetaTo(k) == [info |-> IF k = 0 THEN <<>> ELSE truth[1].body.info,
              points |-> PointsTo(k), tags |-> CommentsTo(k)]

\* The first k blocks have been read.
Passed(k) ==
    /\ file.marker /\ meta = MetaTo(k)
    /\ k = 0 => first = TRUE
    /\ k # 0 => first = FALSE
    /\ \A i \in 1..k : Acceptable(i)

\* The number of the last of a set of numbers to k + 1.
LEMMA LastAdded ==
    ASSUME NEW k \in Nat, NEW S, NEW T, \A i \in 1..(k + 1) : i \in T <=> i \in S \/ i = k + 1,
           S \subseteq 1..k, T \subseteq 1..(k + 1)
    PROVE  T # {} /\ Max(T) = k + 1
<1>1. k + 1 \in T /\ \A i \in T : i \in Int /\ i <= k + 1
  OBVIOUS
<1>2. PICK m : m = CHOOSE x \in T : \A y \in T : x >= y
  OBVIOUS
<1>3. \A y \in T : k + 1 >= y
  BY <1>1
<1>4. m \in T /\ m >= k + 1
  BY <1>1, <1>2, <1>3
<1>5. m = k + 1
  BY <1>1, <1>4
<1>6. QED
  BY <1>1, <1>2, <1>5 DEF Max

\* A block that is no table adds no points, and one that is has the last.
LEMMA PointsAdded ==
    ASSUME NEW k \in Nat
    PROVE  PointsTo(k + 1) = IF truth[k + 1].kind = "seek" THEN Used(truth[k + 1].body.points)
                             ELSE PointsTo(k)
<1>1. PICK S, T : S = TablesTo(k) /\ T = TablesTo(k + 1)
  OBVIOUS
<1>2. k + 1 \in Nat /\ \A i \in 1..(k + 1) : i \in 1..k \/ i = k + 1
  OBVIOUS
<1>3. CASE truth[k + 1].kind = "seek"
  <2>1. T # {} /\ Max(T) = k + 1
    <3>1. \A i \in 1..(k + 1) : i \in T <=> i \in S \/ i = k + 1
      BY <1>1, <1>2, <1>3 DEF TablesTo
    <3>2. S \subseteq 1..k /\ T \subseteq 1..(k + 1)
      BY <1>1 DEF TablesTo
    <3>3. QED
      BY <3>1, <3>2, LastAdded
  <2>2. QED
    BY <1>1, <1>3, <2>1 DEF PointsTo
<1>4. CASE truth[k + 1].kind # "seek"
  <2>1. T = S
    BY <1>1, <1>2, <1>4 DEF TablesTo
  <2>2. QED
    BY <1>1, <1>4, <2>1 DEF PointsTo
<1>5. QED
  BY <1>3, <1>4

\* The comments after block k + 1 are its own if it holds sound tags (ReadMetadata).
LEMMA CommentsAdded ==
    ASSUME NEW k \in Nat
    PROVE  CommentsTo(k + 1) =
               IF truth[k + 1].kind = "tags" /\ Sound(truth[k + 1]) THEN truth[k + 1].body.tags
               ELSE CommentsTo(k)
<1>1. PICK S, T : S = TagsTo(k) /\ T = TagsTo(k + 1)
  OBVIOUS
<1>2. k + 1 \in Nat /\ \A i \in 1..(k + 1) : i \in 1..k \/ i = k + 1
  OBVIOUS
<1>3. CASE truth[k + 1].kind = "tags" /\ Sound(truth[k + 1])
  <2>1. T # {} /\ Max(T) = k + 1
    <3>1. \A i \in 1..(k + 1) : i \in T <=> i \in S \/ i = k + 1
      BY <1>1, <1>2, <1>3 DEF TagsTo
    <3>2. S \subseteq 1..k /\ T \subseteq 1..(k + 1)
      BY <1>1 DEF TagsTo
    <3>3. QED
      BY <3>1, <3>2, LastAdded
  <2>2. QED
    BY <1>1, <1>3, <2>1 DEF CommentsTo
<1>4. CASE ~(truth[k + 1].kind = "tags" /\ Sound(truth[k + 1]))
  <2>1. T = S
    BY <1>1, <1>2, <1>4 DEF TagsTo
  <2>2. QED
    BY <1>1, <1>4, <2>1 DEF CommentsTo
<1>5. QED
  BY <1>3, <1>4

\* Nothing has been read, or all there is.
LEMMA NothingRead == MetaTo(0) = NoMeta
<1>1. TablesTo(0) = {} /\ TagsTo(0) = {}
  BY DEF TablesTo, TagsTo
<1>2. QED
  BY <1>1 DEF MetaTo, NoMeta, PointsTo, CommentsTo

\* A file of acceptable blocks is well formed, and no other.
LEMMA WellFormedIs ==
    ASSUME Listed(truth), 1 \in 1..Len(truth)
    PROVE  WellFormed <=> file.marker /\ \A i \in 1..Len(truth) : Acceptable(i)
<1>1. DOMAIN truth = 1..Len(truth)
  BY DEF Listed
<1>2. \A kind, i : i \in Of(kind) <=> i \in 1..Len(truth) /\ truth[i].kind = kind
  BY <1>1 DEF Of
<1>3. ASSUME WellFormed PROVE file.marker /\ \A i \in 1..Len(truth) : Acceptable(i)
  <2>1. /\ file.marker /\ truth[1].len = InfoBytes /\ truth[1].body.legal
        /\ \A i : i \in Of("info") <=> i = 1
        /\ \A i : i \notin Of("invalid")
        /\ \A i \in Of("seek") : truth[i].len % PointBytes = 0
    BY <1>3 DEF WellFormed
  <2>2. QED
    BY <1>2, <2>1 DEF Acceptable
<1>4. ASSUME file.marker, \A i \in 1..Len(truth) : Acceptable(i) PROVE WellFormed
  <2>1. \A i : i \in Of("info") <=> i = 1
    BY <1>2, <1>4 DEF Acceptable
  <2>2. truth[1].len = InfoBytes /\ truth[1].body.legal
    BY <1>2, <1>4, <2>1 DEF Acceptable
  <2>3. \A i : i \notin Of("invalid")
    BY <1>2, <1>4 DEF Acceptable
  <2>4. \A i \in Of("seek") : truth[i].len % PointBytes = 0
    BY <1>2, <1>4 DEF Acceptable
  <2>5. QED
    BY <1>4, <2>1, <2>2, <2>3, <2>4 DEF WellFormed
<1>5. QED
  BY <1>3, <1>4

\* The block whose body is next is block k + 1, and may stand there.
AtBody(k) ==
    /\ block.kind = truth[k + 1].kind /\ block.len = truth[k + 1].len
    /\ block.last <=> (k + 1 = Len(truth))
    /\ block.kind \in {"info", "tags"} => block.body = truth[k + 1].body
    /\ block.kind = "seek" => Used(block.body.points) = Used(truth[k + 1].body.points)
    /\ block.kind # "invalid"
    /\ (k = 0) <=> (block.kind = "info")
    /\ block.kind = "info" => block.len = InfoBytes

\* How far the reader is.
AtTag == pos = 0 /\ first = TRUE /\ meta = NoMeta
AtMarker == pos = file.prefix /\ first = TRUE /\ meta = NoMeta
AtHeader ==
    \E k \in 0..(Len(truth) - 1) : pos = file.prefix + OffsetOf(truth, k + 1) /\ Passed(k)
InBody ==
    \E k \in 0..(Len(truth) - 1) :
        pos = file.prefix + (OffsetOf(truth, k + 1) + 4) /\ Passed(k) /\ AtBody(k)
AtAudio ==
    Passed(Len(truth)) /\ pos = file.prefix + Extent(truth) /\ pos <= file.size
EndsEarly ==
    /\ file.size < file.prefix + Extent(truth)
    /\ result = IF file.end = "eof" THEN "unexpected" ELSE "source"

Walked ==
    /\ rc \in {"tag", "marker", "header", "body", "idle"}
    /\ file = NoFile => rc = "idle" /\ result = "none"
    /\ file # NoFile =>
           /\ rc = "idle" <=> result # "none"
           /\ rc = "tag" => AtTag
           /\ rc = "marker" => AtMarker
           /\ rc = "header" => AtHeader
           /\ rc = "body" => InBody
           /\ result = "ok" => AtAudio
           /\ rc = "idle" /\ result # "ok" /\ WellFormed => EndsEarly

\* The encoder, and the file, stay as they are once the file is being read.
LEMMA FileFixed ==
    ASSUME Left, Walked, file # NoFile, [TripNext]_tripVars
    PROVE  UNCHANGED <<vars, truth, file>>
<1>1. CASE Encodes
  BY <1>1 DEF Encodes
<1>2. CASE OpenStored \/ OpenCutAudio
  <2>1. rc = "idle" /\ result = "none"
    BY <1>2, OpensStanding
  <2>2. QED
    BY <2>1 DEF Walked
<1>3. CASE Reads \/ UNCHANGED encoded
  BY <1>3 DEF Reads, ReadStep, SourceEnds, SkipTag, ReadMarker, ReadBlockHeader, ReadBody, Refuse,
              encoded, reader
<1>4. CASE NewDecoder \/ WriteTo \/ DecodeFrame \/ CappedWrite \/ DecodeReturns \/ UNCHANGED tripVars
  <2>1. UNCHANGED encoded
    BY <1>4 DEF NewDecoder, WriteTo, DecodeFrame, CappedWrite, DecodeReturns, tripVars
  <2>2. QED
    BY <2>1, <1>3
<1>5. QED
  BY <1>1, <1>2, <1>3, <1>4 DEF TripNext, Stored, StoredNext

\* What depends on the file alone.
LEMMA SameFile ==
    ASSUME truth' = truth, file' = file
    PROVE  /\ \A k : MetaTo(k)' = MetaTo(k)
           /\ \A i : Acceptable(i)' <=> Acceptable(i)
           /\ WellFormed' <=> WellFormed
<1>1. ASSUME NEW k PROVE MetaTo(k)' = MetaTo(k)
  <2>1. TablesTo(k)' = TablesTo(k) /\ TagsTo(k)' = TagsTo(k)
    BY DEF TablesTo, TagsTo, Sound
  <2>2. PointsTo(k)' = PointsTo(k) /\ CommentsTo(k)' = CommentsTo(k)
    BY <2>1 DEF PointsTo, CommentsTo
  <2>3. QED
    BY <2>2 DEF MetaTo
<1>2. ASSUME NEW i PROVE Acceptable(i)' <=> Acceptable(i)
  BY DEF Acceptable
<1>3. WellFormed' <=> WellFormed
  <2>1. \A kind : Of(kind)' = Of(kind)
    BY DEF Of
  <2>2. QED
    BY <2>1 DEF WellFormed
<1>4. QED
  BY <1>1, <1>2, <1>3

\* The bytes wanted by what is next.
LEMMA WantedIs ==
    /\ rc = "tag" => Wanted = TagBytes(file)
    /\ rc = "marker" => Wanted = 4
    /\ rc = "header" => Wanted = 4
    /\ rc = "body" => Wanted = IF block.kind = "info" /\ ~block.body.legal THEN 18 ELSE block.len
  BY DEF Wanted, MarkerBytes, HeaderBytes, RatesBytes

\* What lies where the reader is, and how much of the file lies there at least.
LEMMA Reaches ==
    ASSUME Listed(truth), file.prefix \in Nat, NEW k \in 0..(Len(truth) - 1)
    PROVE  /\ k \in Nat /\ k + 1 \in 1..Len(truth) /\ truth[k + 1].len \in Nat
           /\ OffsetOf(truth, k + 1) \in Nat /\ OffsetOf(truth, (k + 1) + 1) \in Nat
           /\ OffsetOf(truth, (k + 1) + 1) = OffsetOf(truth, k + 1) + (4 + truth[k + 1].len)
           /\ Extent(truth) \in Nat /\ OffsetOf(truth, (k + 1) + 1) <= Extent(truth)
           /\ (k + 1 = Len(truth)) => OffsetOf(truth, (k + 1) + 1) = Extent(truth)
           /\ k + 1 # Len(truth) => k + 1 \in 0..(Len(truth) - 1)
<1>1. PICK n \in Nat : n = Len(truth)
  BY DEF Listed
<1>2. /\ k \in Nat /\ k + 1 \in 1..n /\ k + 1 \in 1..(n + 1) /\ (k + 1) + 1 \in 1..(n + 1)
      /\ n + 1 \in 1..(n + 1) /\ (k + 1) + 1 <= n + 1
      /\ k + 1 # n => k + 1 \in 0..(n - 1)
  BY <1>1
<1>3. /\ \A i \in 1..n : OffsetOf(truth, i + 1) = OffsetOf(truth, i) + (4 + truth[i].len)
      /\ \A i \in 1..(n + 1) : OffsetOf(truth, i) \in Nat
      /\ \A i, j \in 1..(n + 1) : i <= j => OffsetOf(truth, i) <= OffsetOf(truth, j)
  BY <1>1, OffsetSteps
<1>4. Extent(truth) = OffsetOf(truth, n + 1)
  BY <1>1 DEF Extent
<1>5. truth[k + 1].len \in Nat
  BY <1>1, <1>2 DEF Listed
<1>6. QED
  BY <1>1, <1>2, <1>3, <1>4, <1>5

\* A file being read.
Reading == Filed /\ Walked /\ file # NoFile /\ truth' = truth

\* What is known of it.
LEMMA ReadingIs ==
    ASSUME Reading
    PROVE  /\ Listed(truth) /\ Laid(file.blocks, truth) /\ 1 \in 1..Len(truth)
           /\ file.prefix \in Nat /\ file.prefix = TagBytes(file) /\ file.size \in Int
<1>1. /\ Stands(file, truth, info)
  BY DEF Reading, Filed
<1>2. Len(truth) \in Nat /\ \E j \in 1..Len(truth) : TRUE
  BY <1>1 DEF Stands, Listed
<1>3. QED
  BY <1>1, <1>2 DEF Stands

\* A refusal is final, and of a well-formed file only its end's.
LEMMA Refused ==
    ASSUME Reading, NEW error, Refuse(error), error # "none", error # "ok",
           WellFormed => /\ file.size < file.prefix + Extent(truth)
                         /\ error = IF file.end = "eof" THEN "unexpected" ELSE "source"
    PROVE  Walked'
<1>1. /\ rc' = "idle" /\ result' = error /\ file' = file /\ truth' = truth
  BY DEF Refuse, Reading
<1>2. WellFormed' <=> WellFormed
  BY <1>1, SameFile
<1>3. WellFormed' => EndsEarly'
  BY <1>1, <1>2 DEF EndsEarly
<1>4. file' # NoFile
  BY <1>1 DEF Reading
<1>5. QED
  BY <1>1, <1>3, <1>4 DEF Walked

\* Where the source ends before a well-formed file's metadata do, the file was cut off
\* (ReadMetadata: io.ErrUnexpectedEOF, and never io.EOF).
LEMMA EndKept == ASSUME Reading, SourceEnds PROVE Walked'
<1>1. /\ Listed(truth) /\ 1 \in 1..Len(truth) /\ Len(truth) \in Nat
      /\ file.prefix \in Nat /\ file.prefix = TagBytes(file) /\ file.size \in Int
  BY ReadingIs DEF Listed
<1>2. PICK error : Refuse(error) /\ error = IF file.end = "eof" THEN "unexpected" ELSE "source"
  BY DEF SourceEnds
<1>3. rc # "idle" /\ ~(pos + Wanted <= file.size)
  BY DEF SourceEnds, Enough
<1>4. PICK x \in Nat : x = Extent(truth)
  <2>1. 0 \in 0..(Len(truth) - 1)
    BY <1>1
  <2>2. Extent(truth) \in Nat
    BY <1>1, <2>1, Reaches
  <2>3. QED
    BY <2>2
<1>5. 4 <= x
  <2>1. 0 \in 0..(Len(truth) - 1) /\ 0 + 1 = 1
    BY <1>1
  <2>2. /\ OffsetOf(truth, 0 + 1) \in Nat /\ truth[0 + 1].len \in Nat
        /\ OffsetOf(truth, (0 + 1) + 1) = OffsetOf(truth, 0 + 1) + (4 + truth[0 + 1].len)
        /\ OffsetOf(truth, (0 + 1) + 1) <= Extent(truth)
    BY <1>1, <2>1, Reaches
  <2>3. PICK a \in Nat, l \in Nat : a = OffsetOf(truth, 0 + 1) /\ l = truth[0 + 1].len
    BY <2>2
  <2>4. a \in Nat /\ l \in Nat /\ a + (4 + l) <= x
    BY <1>4, <2>2, <2>3
  <2>5. QED
    BY <1>4, <2>4
<1>6. WellFormed => file.size < file.prefix + x
  <2>1. CASE rc = "tag"
    <3>1. pos = 0 /\ Wanted = file.prefix
      BY <1>1, <2>1, WantedIs DEF Reading, Walked, AtTag
    <3>2. QED
      BY <1>1, <1>3, <1>4, <3>1
  <2>2. CASE rc = "marker"
    <3>1. pos = file.prefix /\ Wanted = 4
      BY <2>2, WantedIs DEF Reading, Walked, AtMarker
    <3>2. QED
      BY <1>1, <1>3, <1>4, <1>5, <3>1
  <2>3. CASE rc = "header"
    <3>1. PICK k \in 0..(Len(truth) - 1) : pos = file.prefix + OffsetOf(truth, k + 1)
      BY <2>3 DEF Reading, Walked, AtHeader
    <3>2. PICK a \in Nat, l \in Nat : a = OffsetOf(truth, k + 1) /\ l = truth[k + 1].len
      BY <1>1, <3>1, Reaches
    <3>3. a \in Nat /\ l \in Nat /\ a + (4 + l) <= x
      BY <1>1, <1>4, <3>1, <3>2, Reaches
    <3>4. Wanted = 4
      BY <2>3, WantedIs
    <3>5. PICK b \in Nat, s \in Int : b = file.prefix /\ s = file.size
      BY <1>1
    <3>6. b \in Nat /\ s \in Int /\ ~((b + a) + 4 <= s)
      BY <1>3, <3>1, <3>2, <3>4, <3>5
    <3>7. s < b + x
      BY <1>4, <3>3, <3>6
    <3>8. QED
      BY <3>5, <3>7
  <2>4. CASE rc = "body"
    <3>1. PICK k \in 0..(Len(truth) - 1) :
              pos = file.prefix + (OffsetOf(truth, k + 1) + 4) /\ Passed(k) /\ AtBody(k)
      BY <2>4 DEF Reading, Walked, InBody
    <3>2. PICK a \in Nat, l \in Nat : a = OffsetOf(truth, k + 1) /\ l = truth[k + 1].len
      BY <1>1, <3>1, Reaches
    <3>3. a \in Nat /\ l \in Nat /\ a + (4 + l) <= x
      BY <1>1, <1>4, <3>1, <3>2, Reaches
    <3>4. SUFFICES ASSUME WellFormed PROVE file.size < file.prefix + x
      OBVIOUS
    <3>5. ~(block.kind = "info" /\ ~block.body.legal)
      <4>1. Acceptable(k + 1)
        BY <1>1, <3>1, <3>4, WellFormedIs, Reaches
      <4>2. QED
        BY <4>1, <3>1 DEF AtBody, Acceptable
    <3>6. Wanted = l
      BY <2>4, <3>1, <3>2, <3>5, WantedIs DEF AtBody
    <3>7. PICK b \in Nat, s \in Int : b = file.prefix /\ s = file.size
      BY <1>1
    <3>8. b \in Nat /\ s \in Int /\ ~((b + (a + 4)) + l <= s)
      BY <1>3, <3>1, <3>2, <3>6, <3>7
    <3>9. s < b + x
      BY <1>4, <3>3, <3>8
    <3>10. QED
      BY <3>7, <3>9
  <2>5. QED
    BY <1>3, <2>1, <2>2, <2>3, <2>4 DEF Reading, Walked
<1>7. error # "none" /\ error # "ok"
  BY <1>2
<1>8. QED
  BY <1>2, <1>4, <1>6, <1>7, Refused

\* The tag is skipped, to where the marker must be.
LEMMA TagKept == ASSUME Reading, SkipTag PROVE Walked'
<1>1. /\ file.prefix \in Nat /\ file.prefix = TagBytes(file)
  BY ReadingIs
<1>2. /\ rc = "tag" /\ pos' = pos + Wanted /\ rc' = "marker"
      /\ UNCHANGED <<file, first, meta, result>> /\ truth' = truth
  BY DEF SkipTag, Reading
<1>3. pos = 0 /\ Wanted = file.prefix /\ first = TRUE /\ meta = NoMeta /\ result = "none"
  BY <1>1, <1>2, WantedIs DEF Reading, Walked, AtTag
<1>4. AtMarker'
  BY <1>1, <1>2, <1>3 DEF AtMarker
<1>5. file' # NoFile /\ result' = "none"
  BY <1>2, <1>3 DEF Reading
<1>6. QED
  BY <1>2, <1>4, <1>5 DEF Walked

\* The marker is read.
LEMMA MarkerKept == ASSUME Reading, ReadMarker PROVE Walked'
<1>1. /\ Listed(truth) /\ 1 \in 1..Len(truth) /\ Len(truth) \in Nat /\ file.prefix \in Nat
  BY ReadingIs DEF Listed
<1>2. rc = "marker" /\ truth' = truth /\ file # NoFile /\ result = "none"
  BY DEF ReadMarker, Reading, Walked
<1>3. pos = file.prefix /\ Wanted = 4 /\ first = TRUE /\ meta = NoMeta
  BY <1>2, WantedIs DEF Reading, Walked, AtMarker
<1>4. CASE file.marker
  <2>1. /\ pos' = pos + 4 /\ rc' = "header" /\ UNCHANGED <<file, first, meta, result>>
    BY <1>3, <1>4 DEF ReadMarker
  <2>2. OffsetOf(truth, 1) = 4
    BY <1>1, OffsetSteps
  <2>3. pos' = file'.prefix + OffsetOf(truth', 0 + 1)
    BY <1>2, <1>3, <2>1, <2>2
  <2>4. meta' = MetaTo(0)'
    BY <1>2, <1>3, <2>1, NothingRead, SameFile
  <2>5. Passed(0)'
    BY <1>3, <1>4, <2>1, <2>4 DEF Passed
  <2>6. 0 \in 0..(Len(truth') - 1)
    BY <1>1, <1>2
  <2>7. AtHeader'
    BY <2>3, <2>5, <2>6 DEF AtHeader
  <2>8. QED
    BY <1>2, <2>1, <2>7 DEF Walked
<1>5. CASE ~file.marker
  <2>1. Refuse("unsupported") /\ ~WellFormed
    BY <1>5 DEF ReadMarker, WellFormed
  <2>2. QED
    BY <2>1, Refused
<1>6. QED
  BY <1>4, <1>5

\* The block at the reader's place in the file.
LEMMA BlockThere ==
    ASSUME Reading, NEW k \in 0..(Len(truth) - 1), pos = file.prefix + OffsetOf(truth, k + 1)
    PROVE  /\ BlockAt(file, pos) = file.blocks[OffsetOf(truth, k + 1)]
           /\ HoldsBlock(file.blocks, OffsetOf(truth, k + 1), truth[k + 1], k + 1 = Len(truth))
<1>1. Listed(truth) /\ Laid(file.blocks, truth) /\ file.prefix \in Nat
  BY ReadingIs
<1>2. PICK o \in Nat : o = OffsetOf(truth, k + 1)
  BY <1>1, Reaches
<1>3. k + 1 \in 1..Len(truth)
  BY <1>1, Reaches
<1>4. HoldsBlock(file.blocks, o, truth[k + 1], k + 1 = Len(truth))
  BY <1>1, <1>2, <1>3 DEF Laid
<1>5. PICK pre \in Nat : pre = file.prefix
  BY <1>1
<1>6. pos - pre = o
  <2>1. pre \in Nat /\ o \in Nat /\ pos = pre + o
    BY <1>2, <1>5
  <2>2. QED
    BY <2>1
<1>7. o \in DOMAIN file.blocks
  BY <1>4 DEF HoldsBlock
<1>8. BlockAt(file, pos) = file.blocks[o]
  BY <1>5, <1>6, <1>7 DEF BlockAt
<1>9. QED
  BY <1>2, <1>4, <1>8

\* A block header is read, or refused for what a well-formed file does not hold
\* (ReadMetadata: a block of type 127, a STREAMINFO missing or twice, or of a wrong length).
LEMMA HeaderKept == ASSUME Reading, ReadBlockHeader PROVE Walked'
<1>1. /\ Listed(truth) /\ 1 \in 1..Len(truth) /\ file.prefix \in Nat
  BY ReadingIs
<1>2. rc = "header" /\ truth' = truth /\ file # NoFile /\ result = "none" /\ Wanted = 4
  BY WantedIs DEF ReadBlockHeader, Reading, Walked
<1>3. PICK k \in 0..(Len(truth) - 1) : pos = file.prefix + OffsetOf(truth, k + 1) /\ Passed(k)
  BY <1>2 DEF Reading, Walked, AtHeader
<1>4. PICK b : b = BlockAt(file, pos)
  OBVIOUS
<1>5. PICK o \in Nat : o = OffsetOf(truth, k + 1)
  BY <1>1, <1>3, Reaches
<1>6. HoldsBlock(file.blocks, o, truth[k + 1], k + 1 = Len(truth)) /\ b = file.blocks[o]
  BY <1>3, <1>4, <1>5, BlockThere
<1>7. /\ b.kind = truth[k + 1].kind /\ b.len = truth[k + 1].len
      /\ b.last <=> (k + 1 = Len(truth))
      /\ b.kind \in {"info", "tags"} => b.body = truth[k + 1].body
      /\ b.kind = "seek" => Used(b.body.points) = Used(truth[k + 1].body.points)
  BY <1>6 DEF HoldsBlock
<1>8. k \in Nat /\ k + 1 \in 1..Len(truth) /\ (k + 1 = 1 <=> k = 0)
  BY <1>1, <1>3, Reaches
<1>9. Misplaced(b) <=> ~((k = 0) <=> (b.kind = "info"))
  <2>1. CASE k = 0
    <3>1. first = TRUE
      BY <1>3, <2>1 DEF Passed
    <3>2. QED
      BY <2>1, <3>1 DEF Misplaced
  <2>2. CASE k # 0
    <3>1. first = FALSE
      BY <1>3, <2>2 DEF Passed
    <3>2. QED
      BY <2>2, <3>1 DEF Misplaced
  <2>3. QED
    BY <2>1, <2>2
<1>10. WellFormed => Acceptable(k + 1)
  BY <1>1, <1>8, WellFormedIs
<1>11. CASE b.kind = "invalid" \/ Misplaced(b) \/ (b.kind = "info" /\ b.len # InfoBytes)
  <2>1. ~WellFormed
    BY <1>7, <1>8, <1>9, <1>10, <1>11 DEF Acceptable
  <2>2. \E error \in {"unsupported", "missing"} : Refuse(error)
    BY <1>4, <1>11 DEF ReadBlockHeader
  <2>3. QED
    BY <2>1, <2>2, Refused
<1>12. CASE ~(b.kind = "invalid" \/ Misplaced(b) \/ (b.kind = "info" /\ b.len # InfoBytes))
  <2>1. pos' = pos + 4 /\ block' = b /\ rc' = "body" /\ UNCHANGED <<file, first, meta, result>>
    BY <1>2, <1>4, <1>12 DEF ReadBlockHeader
  <2>2. AtBody(k)'
    BY <1>2, <1>7, <1>9, <1>12, <2>1 DEF AtBody
  <2>3. Passed(k)'
    BY <1>2, <1>3, <2>1, SameFile DEF Passed
  <2>4. pos' = file'.prefix + (OffsetOf(truth', k + 1) + 4)
    <3>1. PICK pre \in Nat : pre = file.prefix
      BY <1>1
    <3>2. pre \in Nat /\ o \in Nat /\ pos' = (pre + o) + 4
      BY <1>3, <1>5, <2>1, <3>1
    <3>3. pos' = pre + (o + 4)
      BY <3>2
    <3>4. QED
      BY <1>2, <1>5, <2>1, <3>1, <3>3
  <2>5. InBody'
    BY <1>2, <1>3, <2>2, <2>3, <2>4 DEF InBody
  <2>6. QED
    BY <1>2, <2>1, <2>5 DEF Walked
<1>13. QED
  BY <1>11, <1>12

\* What the body of an acceptable block adds to the StreamMeta.
LEMMA MetaAdded ==
    ASSUME Reading, NEW k \in 0..(Len(truth) - 1), Passed(k), AtBody(k), ~Illegal,
           NEW m, m = CASE block.kind = "info" -> [meta EXCEPT !.info = block.body.info]
                        [] block.kind = "seek" -> [meta EXCEPT !.points = Used(block.body.points)]
                        [] block.kind = "tags" /\ TagsFit(block) ->
                               [meta EXCEPT !.tags = block.body.tags]
                        [] OTHER -> meta
    PROVE  m = MetaTo(k + 1)
<1>1. Listed(truth) /\ file.prefix \in Nat
  BY ReadingIs
<1>2. k \in Nat /\ k + 1 \in 1..Len(truth) /\ k + 1 # 0
  BY <1>1, Reaches
<1>3. PICK i, pre, t : /\ i = IF k = 0 THEN <<>> ELSE truth[1].body.info
                       /\ pre = PointsTo(k) /\ t = CommentsTo(k)
  OBVIOUS
<1>4. meta = [info |-> i, points |-> pre, tags |-> t]
  BY <1>3 DEF Passed, MetaTo
<1>5. MetaTo(k + 1) = [info |-> truth[1].body.info, points |-> PointsTo(k + 1), tags |-> CommentsTo(k + 1)]
  BY <1>2 DEF MetaTo
<1>6. PICK b : b = truth[k + 1]
  OBVIOUS
<1>7. /\ PointsTo(k + 1) = IF b.kind = "seek" THEN Used(b.body.points) ELSE pre
      /\ CommentsTo(k + 1) = IF b.kind = "tags" /\ Sound(b) THEN b.body.tags ELSE t
  BY <1>2, <1>3, <1>6, PointsAdded, CommentsAdded
<1>8. /\ block.kind = b.kind /\ block.len = b.len
      /\ b.kind \in {"info", "tags"} => block.body = b.body
      /\ b.kind = "seek" => Used(block.body.points) = Used(b.body.points)
      /\ (k = 0) <=> (b.kind = "info")
  BY <1>6 DEF AtBody
<1>9. CASE b.kind = "info"
  <2>1. m = [meta EXCEPT !.info = block.body.info]
    BY <1>8, <1>9
  <2>2. m = [info |-> block.body.info, points |-> pre, tags |-> t]
    BY <1>4, <2>1
  <2>3. k = 0 /\ block.body.info = truth[1].body.info
    BY <1>6, <1>8, <1>9
  <2>4. PointsTo(k + 1) = pre /\ CommentsTo(k + 1) = t
    BY <1>7, <1>9
  <2>5. QED
    BY <1>5, <2>2, <2>3, <2>4
<1>10. b.kind # "info" => i = truth[1].body.info
  BY <1>3, <1>8
<1>11. CASE b.kind = "seek"
  <2>1. m = [meta EXCEPT !.points = Used(block.body.points)]
    BY <1>8, <1>11
  <2>2. m = [info |-> i, points |-> Used(block.body.points), tags |-> t]
    BY <1>4, <2>1
  <2>3. PointsTo(k + 1) = Used(block.body.points) /\ CommentsTo(k + 1) = t
    BY <1>7, <1>8, <1>11
  <2>4. i = truth[1].body.info
    BY <1>10, <1>11
  <2>5. QED
    BY <1>5, <2>2, <2>3, <2>4
<1>12. CASE b.kind = "tags"
  <2>1. TagsFit(block) <=> Sound(b)
    <3>1. block.len \in Nat /\ block.body.vendor \in Nat /\ block.body.comments \in Seq(Nat)
      BY <1>1, <1>2, <1>6, <1>8, <1>12 DEF Listed
    <3>2. TagsFit(block) <=> Sound(block)
      BY <3>1, FitIsSound
    <3>3. Sound(block) <=> Sound(b)
      BY <1>8, <1>12 DEF Sound
    <3>4. QED
      BY <3>2, <3>3
  <2>2. i = truth[1].body.info /\ PointsTo(k + 1) = pre
    BY <1>7, <1>10, <1>12
  <2>3. CASE Sound(b)
    <3>1. m = [meta EXCEPT !.tags = block.body.tags]
      BY <1>8, <1>12, <2>1, <2>3
    <3>2. m = [info |-> i, points |-> pre, tags |-> block.body.tags]
      BY <1>4, <3>1
    <3>3. CommentsTo(k + 1) = block.body.tags
      BY <1>7, <1>8, <1>12, <2>3
    <3>4. QED
      BY <1>5, <2>2, <3>2, <3>3
  <2>4. CASE ~Sound(b)
    <3>1. m = meta
      BY <1>8, <1>12, <2>1, <2>4
    <3>2. CommentsTo(k + 1) = t
      BY <1>7, <2>4
    <3>3. QED
      BY <1>4, <1>5, <2>2, <3>1, <3>2
  <2>5. QED
    BY <2>3, <2>4
<1>13. CASE b.kind \notin {"info", "seek", "tags"}
  <2>1. m = meta
    BY <1>8, <1>13
  <2>2. PointsTo(k + 1) = pre /\ CommentsTo(k + 1) = t /\ i = truth[1].body.info
    BY <1>7, <1>10, <1>13
  <2>3. QED
    BY <1>4, <1>5, <2>1, <2>2
<1>14. QED
  BY <1>9, <1>11, <1>12, <1>13

\* A body is read or refused: the next header is behind it, or the first frame.
LEMMA BodyKept == ASSUME Reading, ReadBody PROVE Walked'
<1>1. /\ Listed(truth) /\ 1 \in 1..Len(truth) /\ file.prefix \in Nat /\ file.size \in Int
  BY ReadingIs
<1>2. rc = "body" /\ truth' = truth /\ file # NoFile /\ result = "none" /\ pos + Wanted <= file.size
  BY DEF ReadBody, Reading, Walked, Enough
<1>3. PICK k \in 0..(Len(truth) - 1) :
          pos = file.prefix + (OffsetOf(truth, k + 1) + 4) /\ Passed(k) /\ AtBody(k)
  BY <1>2 DEF Reading, Walked, InBody
<1>4. k \in Nat /\ k + 1 \in 1..Len(truth) /\ (k + 1 = 1 <=> k = 0)
  BY <1>1, <1>3, Reaches
<1>5. CASE Illegal
  <2>1. ~Acceptable(k + 1)
    BY <1>3, <1>5 DEF Illegal, Acceptable, AtBody
  <2>2. ~WellFormed
    BY <1>1, <1>4, <2>1, WellFormedIs
  <2>3. Refuse("unsupported")
    BY <1>5 DEF ReadBody
  <2>4. QED
    BY <2>2, <2>3, Refused
<1>6. CASE ~Illegal
  <2>1. /\ pos' = pos + Wanted /\ first' = FALSE /\ UNCHANGED <<file, block>>
        /\ IF block.last THEN result' = "ok" /\ rc' = "idle"
           ELSE rc' = "header" /\ result' = result
    BY <1>6 DEF ReadBody
  <2>2. Acceptable(k + 1)
    BY <1>3, <1>4, <1>6 DEF Illegal, Acceptable, AtBody
  <2>3. meta' = CASE block.kind = "info" -> [meta EXCEPT !.info = block.body.info]
                  [] block.kind = "seek" -> [meta EXCEPT !.points = Used(block.body.points)]
                  [] block.kind = "tags" /\ TagsFit(block) ->
                         [meta EXCEPT !.tags = block.body.tags]
                  [] OTHER -> meta
    BY <1>6, Zenon DEF ReadBody
  <2>4. meta' = MetaTo(k + 1)
    BY <1>3, <1>6, <2>3, MetaAdded
  <2>5. Passed(k + 1)'
    <3>1. \A i \in 1..(k + 1) : i \in 1..k \/ i = k + 1
      BY <1>4
    <3>2. \A i \in 1..(k + 1) : Acceptable(i)'
      BY <1>2, <1>3, <2>1, <2>2, <3>1, SameFile DEF Passed
    <3>3. meta' = MetaTo(k + 1)'
      BY <1>2, <2>1, <2>4, SameFile
    <3>4. file'.marker /\ k + 1 # 0
      BY <1>3, <1>4, <2>1 DEF Passed
    <3>5. QED
      BY <2>1, <3>2, <3>3, <3>4 DEF Passed
  <2>6. PICK pre \in Nat, a \in Nat, l \in Nat :
            pre = file.prefix /\ a = OffsetOf(truth, k + 1) /\ l = truth[k + 1].len
    BY <1>1, <1>3, Reaches
  <2>7. Wanted = l
    BY <1>2, <1>3, <1>6, <2>6, WantedIs DEF Illegal, AtBody
  <2>8. pos' = pre + (a + (4 + l))
    <3>1. pre \in Nat /\ a \in Nat /\ l \in Nat /\ pos' = (pre + (a + 4)) + l
      BY <1>3, <2>1, <2>6, <2>7
    <3>2. QED
      BY <3>1
  <2>9. pos' = file.prefix + OffsetOf(truth, (k + 1) + 1)
    BY <1>1, <1>3, <2>6, <2>8, Reaches
  <2>10. CASE block.last
    <3>1. k + 1 = Len(truth)
      BY <1>3, <2>10 DEF AtBody
    <3>2. pos' = file.prefix + Extent(truth)
      BY <1>1, <1>3, <2>9, <3>1, Reaches
    <3>3. pos' <= file.size
      BY <1>2, <2>1
    <3>4. AtAudio'
      BY <1>2, <2>1, <2>5, <3>1, <3>2, <3>3 DEF AtAudio
    <3>5. QED
      BY <1>2, <2>1, <2>10, <3>4 DEF Walked
  <2>11. CASE ~block.last
    <3>1. k + 1 \in 0..(Len(truth) - 1)
      BY <1>1, <1>3, <2>11, Reaches DEF AtBody
    <3>2. AtHeader'
      BY <1>2, <2>1, <2>5, <2>9, <3>1 DEF AtHeader
    <3>3. QED
      BY <1>2, <2>1, <2>11, <3>2 DEF Walked
  <2>12. QED
    BY <2>10, <2>11
<1>7. QED
  BY <1>5, <1>6

\* Nothing is being read at first.
LEMMA StartsWalked == ReadInit => Filed /\ Walked
  BY DEF ReadInit, Filed, Walked

\* Every step of the reader, and any other, keeps its place.
LEMMA WalkedKept == Left /\ Filed /\ Walked /\ [TripNext]_tripVars => Walked'
<1> SUFFICES ASSUME Left, Filed, Walked, [TripNext]_tripVars PROVE Walked'
  OBVIOUS
<1>1. CASE Encodes
  <2>1. file = NoFile /\ UNCHANGED <<file, rc, result>>
    BY <1>1 DEF Encodes, reader
  <2>2. rc = "idle" /\ result = "none"
    BY <2>1 DEF Walked
  <2>3. QED
    BY <2>1, <2>2 DEF Walked
<1>2. CASE OpenStored \/ OpenCutAudio
  <2>1. file' # NoFile /\ \E f : Open(f)
    BY <1>2, OpensStanding
  <2>2. rc' = "tag" /\ pos' = 0 /\ first' = TRUE /\ meta' = NoMeta /\ result' = "none"
    BY <2>1 DEF Open
  <2>3. AtTag'
    BY <2>2 DEF AtTag
  <2>4. QED
    BY <2>1, <2>2, <2>3 DEF Walked
<1>3. CASE Reads
  <2>1. truth' = truth /\ ReadStep
    BY <1>3 DEF Reads
  <2>2. rc # "idle"
    BY <2>1 DEF ReadStep, SourceEnds, SkipTag, ReadMarker, ReadBlockHeader, ReadBody
  <2>3. Reading
    BY <2>1, <2>2 DEF Reading, Walked
  <2>4. QED
    BY <2>1, <2>3, EndKept, TagKept, MarkerKept, HeaderKept, BodyKept DEF ReadStep
<1>4. CASE UNCHANGED encoded
  <2>1. UNCHANGED <<file, rc, pos, block, first, meta, result, truth>>
    BY <1>4 DEF encoded, reader
  <2>2. /\ \A k : MetaTo(k)' = MetaTo(k)
        /\ \A i : Acceptable(i)' <=> Acceptable(i)
        /\ WellFormed' <=> WellFormed
    BY <2>1, SameFile
  <2>3. \A k : Passed(k)' <=> Passed(k)
    BY <2>1, <2>2 DEF Passed
  <2>4. \A k : AtBody(k)' <=> AtBody(k)
    BY <2>1 DEF AtBody
  <2>5. AtHeader' <=> AtHeader
    BY <2>1, <2>3 DEF AtHeader
  <2>6. InBody' <=> InBody
    BY <2>1, <2>3, <2>4 DEF InBody
  <2>7. AtAudio' <=> AtAudio
    BY <2>1, <2>3 DEF AtAudio
  <2>8. (AtTag' <=> AtTag) /\ (AtMarker' <=> AtMarker) /\ (EndsEarly' <=> EndsEarly)
    BY <2>1 DEF AtTag, AtMarker, EndsEarly
  <2>9. QED
    BY <2>1, <2>2, <2>5, <2>6, <2>7, <2>8 DEF Walked
<1>5. CASE NewDecoder \/ WriteTo \/ DecodeFrame \/ CappedWrite \/ DecodeReturns \/ UNCHANGED tripVars
  <2>1. UNCHANGED encoded
    BY <1>5 DEF NewDecoder, WriteTo, DecodeFrame, CappedWrite, DecodeReturns, tripVars
  <2>2. QED
    BY <2>1, <1>4
<1>6. QED
  BY <1>1, <1>2, <1>3, <1>4, <1>5 DEF TripNext, Stored, StoredNext

\* The three invariants of a stored file hold together.
LEMMA AlwaysWalked == TripSpec => [](Left /\ Filed /\ Walked)
<1>1. TripInit => Left /\ Filed /\ Walked
  BY StartsLeft, StartsWalked DEF TripInit, StoredInit
<1>2. (Left /\ Filed /\ Walked) /\ [TripNext]_tripVars => (Left /\ Filed /\ Walked)'
  BY TripEncodes, LeftKept, FiledKept, WalkedKept
<1>3. QED
  BY <1>1, <1>2, PTL DEF TripSpec

\* A reader that accepts the file is at its first frame, with the STREAMINFO, the points
\* written so far but no placeholder, and the last sound tags (ReadMetadata, Close,
\* writeInitialMetadata).
THEOREM LeftIsRead == TripSpec => []ReadsWhatWasLeft
<1>1. Filed /\ Walked => ReadsWhatWasLeft
  <2> SUFFICES ASSUME Filed, Walked, result = "ok" PROVE ReadsWhatWasLeft
    BY DEF ReadsWhatWasLeft
  <2>1. file # NoFile
    BY DEF Walked
  <2>2. Stands(file, truth, info) /\ AtAudio
    BY <2>1 DEF Filed, Walked
  <2>3. PICK n \in Nat : n = Len(truth) /\ n # 0 /\ DOMAIN truth = 1..n
    <3>1. Len(truth) \in Nat /\ \E j \in 1..Len(truth) : TRUE
      BY <2>2 DEF Stands, Listed
    <3>2. QED
      BY <2>2, <3>1 DEF Stands
  <2>4. meta = MetaTo(n) /\ pos = file.prefix + Extent(truth)
    BY <2>2, <2>3 DEF AtAudio, Passed
  <2>5. /\ meta.info = IF n = 0 THEN <<>> ELSE truth[1].body.info
        /\ meta.points = PointsTo(n) /\ meta.tags = CommentsTo(n)
    BY <2>4 DEF MetaTo
  <2>6. Of("seek") = TablesTo(n)
    BY <2>3 DEF Of, TablesTo
  <2>7. {i \in Of("tags") : Sound(truth[i])} = TagsTo(n)
    BY <2>3 DEF Of, TagsTo
  <2>8. meta.points = LastOf(Of("seek"), <<>>, LAMBDA i : Used(truth[i].body.points))
    BY <2>5, <2>6, Zenon DEF LastOf, PointsTo
  <2>9. meta.tags = LastOf({i \in Of("tags") : Sound(truth[i])}, <<>>, LAMBDA i : truth[i].body.tags)
    BY <2>5, <2>7, Zenon DEF LastOf, CommentsTo
  <2>10. meta.info = truth[1].body.info
    BY <2>3, <2>5
  <2>11. QED
    BY <2>4, <2>8, <2>9, <2>10, Zenon DEF ReadsWhatWasLeft
<1>2. QED
  BY <1>1, AlwaysWalked, PTL

\* A file is accepted exactly if it is well formed and has all of its metadata; an end in
\* a well-formed one is never a clean end of the stream (ReadMetadata).
THEOREM AcceptanceIsExact == TripSpec => []AcceptsWellFormed
<1>1. Filed /\ Walked => AcceptsWellFormed
  <2> SUFFICES ASSUME Filed, Walked, rc = "idle", result # "none" PROVE AcceptsWellFormed
    BY DEF AcceptsWellFormed
  <2>1. file # NoFile
    BY DEF Walked
  <2>2. Stands(file, truth, info)
    BY <2>1 DEF Filed
  <2>3. Listed(truth) /\ 1 \in 1..Len(truth) /\ file.prefix \in Nat /\ file.size \in Int
    <3>1. Len(truth) \in Nat /\ \E j \in 1..Len(truth) : TRUE
      BY <2>2 DEF Stands, Listed
    <3>2. QED
      BY <2>2, <3>1 DEF Stands
  <2>4. 0 \in 0..(Len(truth) - 1)
    BY <2>3 DEF Listed
  <2>5. PICK x \in Nat : x = Extent(truth)
    BY <2>3, <2>4, Reaches
  <2>6. PICK pre \in Nat, s \in Int : pre = file.prefix /\ s = file.size
    BY <2>3
  <2>7. x \in Nat /\ pre \in Nat /\ s \in Int
    BY <2>5, <2>6
  <2>8. CASE result = "ok"
    <3>1. AtAudio
      BY <2>1, <2>8 DEF Walked
    <3>2. pre + x <= s
      BY <2>5, <2>6, <3>1 DEF AtAudio
    <3>3. WellFormed
      BY <2>3, <3>1, WellFormedIs DEF AtAudio, Passed
    <3>4. s >= pre + x
      BY <2>7, <3>2
    <3>5. QED
      BY <2>5, <2>6, <2>8, <3>3, <3>4 DEF AcceptsWellFormed
  <2>9. CASE result # "ok"
    <3>1. WellFormed => EndsEarly
      BY <2>1, <2>9 DEF Walked
    <3>2. WellFormed => s < pre + x /\ result = IF file.end = "eof" THEN "unexpected" ELSE "source"
      BY <2>5, <2>6, <3>1 DEF EndsEarly
    <3>3. s < pre + x => ~(s >= pre + x)
      BY <2>7
    <3>4. CASE WellFormed
      <4>1. ~(file.size >= file.prefix + Extent(truth))
        BY <2>5, <2>6, <3>2, <3>3, <3>4
      <4>2. QED
        BY <2>9, <3>2, <3>4, <4>1 DEF AcceptsWellFormed
    <3>5. CASE ~WellFormed
      <4>0. WellFormed \in BOOLEAN
        BY DEF WellFormed
      <4>1. (result = "ok") = WellFormed
        BY <2>9, <3>5, <4>0
      <4>2. QED
        BY <3>5, <4>1, Zenon DEF AcceptsWellFormed
    <3>6. QED
      BY <3>4, <3>5
  <2>10. QED
    BY <2>8, <2>9
<1>2. QED
  BY <1>1, AlwaysWalked, PTL

-----------------------------------------------------------------------------
(* The audio of frames, and the audio decoded.                              *)

\* Audio is a list of pairs.
LEMMA AudioIs ==
    ASSUME NEW a \in Nat, NEW n \in Nat, NEW w
    PROVE  /\ D!Audio(a, n, w) \in Seq(Nat \X {w})
           /\ Len(D!Audio(a, n, w)) = n
           /\ \A i \in 1..n : D!Audio(a, n, w)[i] = <<a + i - 1, w>>
<1>1. PICK s : s = [i \in 1..n |-> <<a + i - 1, w>>]
  OBVIOUS
<1>2. s = D!Audio(a, n, w)
  BY <1>1, Zenon DEF D!Audio
<1>3. \A i \in 1..n : a + i - 1 \in Nat
  OBVIOUS
<1>4. s \in [1..n -> Nat \X {w}]
  BY <1>1, <1>3
<1>5. s \in Seq(Nat \X {w}) /\ Len(s) = n
  BY <1>4, ListIs
<1>6. \A i \in 1..n : s[i] = <<a + i - 1, w>>
  BY <1>1
<1>7. QED
  BY <1>2, <1>5, <1>6

\* The audio of a frame goes on where that of the frames before it ends.
LEMMA AudioGoesOn ==
    ASSUME NEW n \in Nat, NEW m \in Nat, NEW w
    PROVE  D!Audio(0, n, w) \o D!Audio(n, m, w) = D!Audio(0, n + m, w)
<1>1. PICK s, t, q, S : /\ s = D!Audio(0, n, w) /\ t = D!Audio(n, m, w)
                        /\ q = D!Audio(0, n + m, w) /\ S = Nat \X {w}
  OBVIOUS
<1>2. s \in Seq(S) /\ Len(s) = n /\ \A i \in 1..n : s[i] = <<0 + i - 1, w>>
  <2>1. /\ D!Audio(0, n, w) \in Seq(Nat \X {w}) /\ Len(D!Audio(0, n, w)) = n
        /\ \A i \in 1..n : D!Audio(0, n, w)[i] = <<0 + i - 1, w>>
    BY AudioIs
  <2>2. QED
    BY <1>1, <2>1
<1>3. t \in Seq(S) /\ Len(t) = m /\ \A i \in 1..m : t[i] = <<n + i - 1, w>>
  <2>1. /\ D!Audio(n, m, w) \in Seq(Nat \X {w}) /\ Len(D!Audio(n, m, w)) = m
        /\ \A i \in 1..m : D!Audio(n, m, w)[i] = <<n + i - 1, w>>
    BY AudioIs
  <2>2. QED
    BY <1>1, <2>1
<1>4. q \in Seq(S) /\ Len(q) = n + m /\ \A i \in 1..(n + m) : q[i] = <<0 + i - 1, w>>
  <2>1. PICK l \in Nat : l = n + m
    OBVIOUS
  <2>2. q = D!Audio(0, l, w)
    BY <1>1, <2>1
  <2>3. l \in Nat /\ 0 \in Nat
    BY <2>1
  <2>4. /\ D!Audio(0, l, w) \in Seq(Nat \X {w}) /\ Len(D!Audio(0, l, w)) = l
        /\ \A i \in 1..l : D!Audio(0, l, w)[i] = <<0 + i - 1, w>>
    BY <2>3, AudioIs
  <2>5. QED
    BY <1>1, <2>1, <2>2, <2>4
<1>5. \A i \in 1..n : q[i] = s[i]
  <2>1. \A i \in 1..n : i \in 1..(n + m)
    OBVIOUS
  <2>2. QED
    BY <1>2, <1>4, <2>1
<1>6. ASSUME NEW i \in 1..m PROVE q[n + i] = t[i]
  <2>1. n + i \in 1..(n + m) /\ 0 + (n + i) - 1 = n + i - 1
    OBVIOUS
  <2>2. q[n + i] = <<0 + (n + i) - 1, w>>
    BY <1>4, <2>1
  <2>3. QED
    BY <1>3, <2>1, <2>2
<1>7. Joined(q, s, t)
  BY <1>2, <1>3, <1>4, <1>5, <1>6 DEF Joined
<1>8. QED
  BY <1>1, <1>2, <1>3, <1>4, <1>7, Joins

\* Audio of different lengths differs.
LEMMA AudioLength ==
    ASSUME NEW n \in Nat, NEW m \in Nat, NEW v, NEW w, D!Audio(0, n, v) = D!Audio(0, m, w)
    PROVE  n = m
<1>1. Len(D!Audio(0, n, v)) = n /\ Len(D!Audio(0, m, w)) = m
  BY AudioIs
<1>2. QED
  BY <1>1

\* The audio of no samples is empty.
LEMMA NoAudio == ASSUME NEW w PROVE D!Audio(0, 0, w) = <<>>
<1>1. D!Audio(0, 0, w) \in Seq(Nat \X {w}) /\ Len(D!Audio(0, 0, w)) = 0
  BY AudioIs
<1>2. QED
  BY <1>1, EmptySeq

-----------------------------------------------------------------------------
(* The frames in the sink.                                                  *)

\* The sample after the k-th frame, and so the first of the next.
Ends(k) == IF k = 0 THEN 0 ELSE frames[k].first + frames[k].samples

\* The frames follow one another from sample 0 to the total (emitBlock).
LEMMA FramesFollow ==
    ASSUME Left, NEW n, n = Len(frames)
    PROVE  /\ n \in Nat /\ DOMAIN frames = 1..n /\ total \in Nat
           /\ Ends(0) = 0 /\ Ends(n) = total
           /\ \A k \in 0..n : Ends(k) \in Nat /\ Ends(k) <= total
           /\ \A k \in 1..n : /\ frames[k].first = Ends(k - 1) /\ frames[k].samples \in Nat
                              /\ frames[k].samples # 0 /\ Ends(k) = Ends(k - 1) + frames[k].samples
           /\ total = 0 => n = 0
<1>1. /\ n \in Nat /\ DOMAIN frames = 1..n /\ total \in Nat
      /\ \A k \in 1..n : /\ frames[k].first = (k - 1) * BlockSize
                         /\ frames[k].samples \in 1..BlockSize
                         /\ frames[k].samples = BlockSize \/ k = n
                         /\ k = n => total = frames[k].first + frames[k].samples
      /\ n = 0 => total = 0
  <2>1. Blocks /\ Measured
    BY DEF Left
  <2>2. Len(frames) \in Nat /\ DOMAIN frames = 1..Len(frames)
    BY <2>1 DEF Blocks
  <2>3. n = 0 => total = 0
    <3>1. n = 0 => frames = <<>>
      BY DEF Left, Ordinary
    <3>2. QED
      BY <2>1, <3>1 DEF Measured
  <2>4. QED
    BY <2>1, <2>2, <2>3 DEF Blocks, Measured, Numbered
<1>2. BlockSize \in Nat /\ BlockSize # 0
  BY SizesAssumption
<1>3. Ends(0) = 0
  BY DEF Ends
<1>4. ASSUME NEW k \in 1..n
      PROVE  Ends(k) = frames[k].first + frames[k].samples /\ frames[k].first \in Nat
             /\ frames[k].samples \in Nat /\ frames[k].samples # 0
  <2>1. k # 0 /\ k - 1 \in Nat
    BY <1>1
  <2>2. (k - 1) * BlockSize \in Nat
    BY <1>2, <2>1
  <2>3. QED
    BY <1>1, <1>2, <2>1, <2>2 DEF Ends
<1>5. ASSUME NEW k \in 0..n, k # n PROVE Ends(k) = k * BlockSize
  <2>1. CASE k = 0
    BY <1>2, <1>3, <2>1
  <2>2. CASE k # 0
    <3>1. k \in 1..n /\ k \in Nat
      BY <1>1, <2>2
    <3>2. Ends(k) = (k - 1) * BlockSize + BlockSize
      BY <1>1, <1>4, <1>5, <3>1
    <3>3. (k - 1) * BlockSize + BlockSize = k * BlockSize
      BY <1>2, <3>1
    <3>4. QED
      BY <3>2, <3>3
  <2>3. QED
    BY <2>1, <2>2
<1>6. ASSUME NEW k \in 1..n PROVE frames[k].first = Ends(k - 1)
  <2>1. k - 1 \in 0..n /\ k - 1 # n
    BY <1>1
  <2>2. QED
    BY <1>1, <1>5, <2>1
<1>7. Ends(n) = total
  <2>1. CASE n = 0
    BY <1>1, <1>3, <2>1
  <2>2. CASE n # 0
    <3>1. n \in 1..n
      BY <1>1, <2>2
    <3>2. QED
      BY <1>1, <1>4, <3>1
  <2>3. QED
    BY <2>1, <2>2
<1>8. ASSUME NEW k \in 0..n PROVE Ends(k) \in Nat /\ Ends(k) <= total
  <2>1. CASE k = n
    BY <1>1, <1>7, <2>1
  <2>2. CASE k # n
    <3>1. n \in 1..n /\ k \in Nat /\ n - 1 \in Nat /\ k <= n - 1
      BY <1>1, <2>2
    <3>2. PICK x \in Nat, y \in Nat : x = k * BlockSize /\ y = (n - 1) * BlockSize
      BY <1>2, <3>1
    <3>3. x <= y
      <4>1. ASSUME NEW a \in Nat, NEW b \in Nat, NEW c \in Nat, a <= b PROVE a * c <= b * c
        BY <4>1
      <4>2. QED
        BY <1>2, <3>1, <3>2, <4>1
    <3>4. PICK z \in Nat : z = frames[n].samples /\ frames[n].first = y
      BY <1>1, <1>4, <3>1, <3>2
    <3>5. total = y + z
      BY <1>1, <3>1, <3>4
    <3>6. Ends(k) = x
      BY <1>5, <2>2, <3>2
    <3>7. QED
      BY <3>2, <3>3, <3>4, <3>5, <3>6
  <2>3. QED
    BY <2>1, <2>2
<1>9. \A k \in 1..n : Ends(k) = Ends(k - 1) + frames[k].samples
  BY <1>4, <1>6
<1>10. ASSUME total = 0 PROVE n = 0
  <2> SUFFICES ASSUME n # 0 PROVE FALSE
    OBVIOUS
  <2>1. n \in 1..n
    BY <1>1
  <2>2. PICK a \in Nat, b \in Nat : a = frames[n].first /\ b = frames[n].samples /\ b # 0
    BY <1>4, <2>1
  <2>3. total = a + b
    BY <1>1, <2>1, <2>2
  <2>4. QED
    BY <1>10, <2>2, <2>3
<1>11. QED
  BY <1>1, <1>3, <1>4, <1>6, <1>7, <1>8, <1>9, <1>10

\* The sizes of the frames, added up.
LEMMA SizesGrow ==
    ASSUME Left, NEW n, n = Len(frames)
    PROVE  /\ n \in Nat /\ \A i \in 0..n : SizeUpTo(i) \in Nat
           /\ \A i, j \in 0..n : i <= j => SizeUpTo(i) <= SizeUpTo(j)
           /\ \A i \in 1..n : SizeUpTo(i - 1) < SizeUpTo(i)
           /\ end = SizeUpTo(n) + junk /\ junk \in Nat /\ end \in Nat
           /\ junk = 0 => \A i \in 1..n : frames[i].at = SizeUpTo(i - 1)
<1>1. /\ n \in Nat /\ DOMAIN frames = 1..n /\ (\A i \in 1..n : frames[i].size \in Nat \ {0})
      /\ end = SizeUpTo(n) + junk /\ junk \in Nat /\ end \in Nat
      /\ junk = 0 => \A i \in 1..n : frames[i].at = SizeUpTo(i - 1)
  BY DEF Left, Blocks, Adjacent, Counted
<1>2. PICK y : y = [k \in 1..n |-> frames[k].size]
  OBVIOUS
<1>3. Len(y) = n /\ \A i \in 1..n : y[i] \in Nat
  BY <1>1, <1>2
<1>4. Len(y) \in Nat /\ \A i \in 1..Len(y) : y[i] \in Nat
  BY <1>1, <1>3
<1>5. /\ \A i \in 0..Len(y) : SumsFrom(0, y)[i] \in Nat
      /\ \A i, j \in 0..Len(y) : i <= j => SumsFrom(0, y)[i] <= SumsFrom(0, y)[j]
  BY <1>4, SumsGrow
<1>6. \A i : SizeUpTo(i) = SumsFrom(0, y)[i]
  BY <1>1, <1>2 DEF SizeUpTo
<1>7. ASSUME NEW i \in 1..n PROVE SizeUpTo(i - 1) < SizeUpTo(i)
  <2>1. \A j \in 1..Len(y) : SumsFrom(0, y)[j] = SumsFrom(0, y)[j - 1] + y[j]
    <3>1. \A j \in 1..Len(y) : y[j] \in Int
      BY <1>4
    <3>2. QED
      BY <1>4, <3>1, SumsSteps
  <2>2. i \in 1..Len(y) /\ i - 1 \in 0..Len(y)
    BY <1>1, <1>3
  <2>3. PICK a \in Nat, b \in Nat : a = SumsFrom(0, y)[i - 1] /\ b = y[i] /\ b # 0
    BY <1>1, <1>2, <1>5, <2>2
  <2>4. SumsFrom(0, y)[i] = a + b
    BY <2>1, <2>2, <2>3
  <2>5. a \in Nat /\ b \in Nat /\ a < a + b
    BY <2>3
  <2>6. QED
    BY <1>6, <2>3, <2>4, <2>5
<1>8. QED
  BY <1>1, <1>3, <1>5, <1>6, <1>7

\* What is known of the frames that a decoder of the file meets: m of them, of which only
\* the last may be one that it cannot decode, and the others are those written.
Meets(s, m) ==
    /\ m \in Nat /\ Len(s.frames) = m /\ m <= Len(frames) + 1
    /\ \A i \in 1..m : s.frames[i] = FrameAt(i)
    /\ \A i \in 1..m : i < m => FrameAt(i).state = "ok"
    /\ m > 0 => SizeUpTo(m - 1) < AudioLeft
    /\ m <= Len(frames) => SizeUpTo(m) >= AudioLeft \/ (m > 0 /\ FrameAt(m).state # "ok")

\* A frame that can be decoded is one written, at its place and whole.
LEMMA GoodFrame ==
    ASSUME NEW i, FrameAt(i).state = "ok"
    PROVE  /\ i <= Len(frames) /\ FrameAt(i).first = frames[i].first
           /\ FrameAt(i).block = frames[i].samples
<1>1. PICK found, whole : /\ found = (i <= Len(frames) /\ frames[i].at = SizeUpTo(i - 1))
                          /\ whole = (found /\ SizeUpTo(i) <= AudioLeft)
  OBVIOUS
<1>2. FrameAt(i) = [first |-> IF found THEN frames[i].first ELSE total,
                    block |-> IF found THEN frames[i].samples ELSE BlockSize,
                    state |-> IF whole THEN "ok" ELSE IF found \/ i > Len(frames) THEN "cut" ELSE "bad"]
  BY <1>1 DEF FrameAt
<1>3. FrameAt(i).state = IF whole THEN "ok" ELSE IF found \/ i > Len(frames) THEN "cut" ELSE "bad"
  BY <1>2
<1>4. whole
  BY <1>3
<1>5. found
  BY <1>1, <1>4
<1>6. i <= Len(frames)
  BY <1>1, <1>5
<1>7. /\ FrameAt(i).first = IF found THEN frames[i].first ELSE total
      /\ FrameAt(i).block = IF found THEN frames[i].samples ELSE BlockSize
  BY <1>2
<1>8. QED
  BY <1>5, <1>6, <1>7

\* And one written at its place and whole can be decoded.
LEMMA WholeFrame ==
    ASSUME NEW i, i <= Len(frames), frames[i].at = SizeUpTo(i - 1), SizeUpTo(i) <= AudioLeft
    PROVE  FrameAt(i).state = "ok"
  BY DEF FrameAt

\* The frames met are numbered from 1 on.
LEMMA MetAre ==
    ASSUME Left, AudioLeft \in Int
    PROVE  \E m : m \in Nat /\ m <= Len(frames) + 1
               /\ {i \in 1..(Len(frames) + 1) : SizeUpTo(i - 1) < AudioLeft
                      /\ \A j \in 1..(i - 1) : FrameAt(j).state = "ok"} = 1..m
               /\ (m <= Len(frames) => SizeUpTo(m) >= AudioLeft \/ (m > 0 /\ FrameAt(m).state # "ok"))
<1>1. PICK n \in Nat : n = Len(frames)
  BY FramesFollow
<1>2. PICK l \in Int : l = AudioLeft
  OBVIOUS
<1>3. (\A i \in 0..n : SizeUpTo(i) \in Nat) /\ \A i, j \in 0..n : i <= j => SizeUpTo(i) <= SizeUpTo(j)
  BY <1>1, SizesGrow
<1>4. PICK M : M = {i \in 1..(n + 1) : SizeUpTo(i - 1) < l
                       /\ \A j \in 1..(i - 1) : FrameAt(j).state = "ok"}
  OBVIOUS
<1>5. ASSUME NEW i \in M, NEW k \in 1..i PROVE k \in M
  <2>1. /\ i \in 1..(n + 1) /\ SizeUpTo(i - 1) < l /\ i \in Int
        /\ \A j \in 1..(i - 1) : FrameAt(j).state = "ok"
    BY <1>4
  <2>2. k \in Int /\ 1 <= k /\ k <= i
    BY <2>1
  <2>3. k \in 1..(n + 1) /\ k - 1 \in 0..n /\ i - 1 \in 0..n /\ k - 1 <= i - 1
    BY <1>1, <2>1, <2>2
  <2>4. SizeUpTo(k - 1) < l
    <3>1. PICK a \in Nat, b \in Nat : a = SizeUpTo(k - 1) /\ b = SizeUpTo(i - 1) /\ a <= b
      BY <1>3, <2>3
    <3>2. a \in Nat /\ b \in Nat /\ b < l
      BY <2>1, <3>1
    <3>3. QED
      BY <1>2, <3>1, <3>2
  <2>5. \A j \in 1..(k - 1) : j \in 1..(i - 1)
    BY <2>1, <2>2
  <2>6. QED
    BY <1>4, <2>1, <2>3, <2>4, <2>5
<1>6. PICK m \in 0..(n + 1) : (m = 0 \/ m \in M) /\ m + 1 \notin M
  <2> DEFINE T == {k \in Nat : k <= n + 1 => k \in M \cup {0}}
  <2>1. CASE \E k \in Nat : k \notin T
    <3>1. PICK z : z = {k \in Nat : k \notin T}
      OBVIOUS
    <3>2. z \in SUBSET Nat /\ \E k : k \in z
      BY <2>1, <3>1
    <3>3. PICK x \in z : \A y \in z : x <= y
      BY <3>2, NatMin
    <3>4. x \in Nat /\ x <= n + 1 /\ x \notin M /\ x # 0
      BY <3>1, <3>3
    <3>5. PICK k \in Nat : k = x - 1
      BY <3>4
    <3>6. k \in Nat /\ k + 1 = x /\ k <= n + 1 /\ ~(x <= k)
      BY <1>1, <3>4, <3>5
    <3>7. k \notin z
      BY <3>3, <3>6
    <3>8. k \in M \/ k = 0
      BY <3>1, <3>6, <3>7
    <3>9. k \in 0..(n + 1) /\ k + 1 \notin M
      BY <3>4, <3>6
    <3>10. QED
      BY <3>8, <3>9
  <2>2. CASE \A k \in Nat : k \in T
    <3>1. n + 1 \in T /\ n + 1 \in Nat /\ n + 1 # 0
      BY <1>1, <2>2
    <3>2. n + 1 \in M
      BY <3>1
    <3>3. (n + 1) + 1 \notin 1..(n + 1) /\ n + 1 \in 0..(n + 1)
      BY <1>1
    <3>4. (n + 1) + 1 \notin M
      BY <1>4, <3>3
    <3>5. QED
      BY <3>2, <3>3, <3>4
  <2>3. QED
    BY <2>1, <2>2
<1>7. m \in Nat /\ m <= n + 1
  BY <1>1, <1>6
<1>8. \A i \in M : i \in 1..m
  <2> SUFFICES ASSUME NEW i \in M, i \notin 1..m PROVE FALSE
    OBVIOUS
  <2>1. i \in Int /\ 1 <= i
    BY <1>1, <1>4
  <2>2. m + 1 \in 1..i
    BY <1>7, <2>1
  <2>3. QED
    BY <1>5, <1>6, <2>2
<1>9. \A k \in 1..m : k \in M
  <2>1. CASE m = 0
    BY <2>1
  <2>2. CASE m # 0
    BY <1>5, <1>6, <2>2
  <2>3. QED
    BY <2>1, <2>2
<1>10. M = 1..m
  BY <1>8, <1>9
<1>11. ASSUME m <= n, m = 0 \/ FrameAt(m).state = "ok" PROVE SizeUpTo(m) >= l
  <2>1. m + 1 \in 1..(n + 1) /\ (m + 1) - 1 = m
    BY <1>1, <1>7, <1>11
  <2>2. \A j \in 1..m : FrameAt(j).state = "ok"
    <3>1. m # 0 => \A j \in 1..(m - 1) : FrameAt(j).state = "ok"
      BY <1>4, <1>6
    <3>2. \A j \in 1..m : m # 0 /\ (j \in 1..(m - 1) \/ j = m)
      BY <1>7
    <3>3. QED
      BY <1>11, <3>1, <3>2
  <2>3. ~(SizeUpTo(m) < l)
    BY <1>4, <1>6, <2>1, <2>2
  <2>4. PICK a \in Nat : a = SizeUpTo(m)
    BY <1>3, <1>7, <1>11
  <2>5. QED
    BY <1>2, <2>3, <2>4
<1>12. m <= n => SizeUpTo(m) >= l \/ (m > 0 /\ FrameAt(m).state # "ok")
  <2>1. m # 0 => m > 0
    BY <1>7
  <2>2. QED
    BY <1>11, <2>1
<1>13. QED
  BY <1>1, <1>2, <1>4, <1>7, <1>10, <1>12

\* The source of a file that was accepted is its STREAMINFO and the frames met in it.
LEMMA SourceIs ==
    ASSUME Left, Filed, Walked, result = "ok"
    PROVE  /\ Readable /\ file # NoFile /\ rc = "idle" /\ AudioLeft \in Int
           /\ Source.header = TRUE /\ Source.info.total = info.total
           /\ Source.info.md5 = Digest(info.md5)
           /\ \E m : Meets(Source, m)
<1>1. file # NoFile
  BY DEF Walked
<1>2. Readable /\ Stands(file, truth, info) /\ AtAudio /\ rc = "idle"
  BY <1>1 DEF Filed, Walked
<1>3. PICK n \in Nat : n = Len(truth)
  BY <1>2 DEF Stands, Listed
<1>4. PICK j \in 1..n : truth[j].kind = "info" /\ truth[j].body = InfoOf(info)
  BY <1>2, <1>3 DEF Stands
<1>5. meta = MetaTo(n) /\ \A i \in 1..n : Acceptable(i)
  BY <1>2, <1>3 DEF AtAudio, Passed
<1>6. j = 1 /\ n # 0
  BY <1>3, <1>4, <1>5 DEF Acceptable
<1>7. meta.info = truth[1].body.info
  BY <1>5, <1>6 DEF MetaTo
<1>8. truth[1].body.info = <<info>>
  BY <1>4, <1>6 DEF InfoOf
<1>9. meta.info[1] = info
  BY <1>7, <1>8
<1>10. AudioLeft \in Int
  <2>1. Listed(truth) /\ file.prefix \in Nat /\ file.size \in Int /\ 0 \in 0..(Len(truth) - 1)
    BY <1>2, <1>3, <1>6 DEF Stands
  <2>2. Extent(truth) \in Nat
    BY <2>1, Reaches
  <2>3. QED
    BY <2>1, <2>2 DEF AudioLeft
<1>11. PICK m : /\ m \in Nat /\ m <= Len(frames) + 1
                /\ {i \in 1..(Len(frames) + 1) : SizeUpTo(i - 1) < AudioLeft
                       /\ \A k \in 1..(i - 1) : FrameAt(k).state = "ok"} = 1..m
                /\ (m <= Len(frames) => SizeUpTo(m) >= AudioLeft \/ (m > 0 /\ FrameAt(m).state # "ok"))
  BY <1>10, MetAre
<1>12. FramesLeft = [i \in 1..m |-> FrameAt(i)]
  <2>1. PICK M : M = {i \in 1..(Len(frames) + 1) : SizeUpTo(i - 1) < AudioLeft
                         /\ \A k \in 1..(i - 1) : FrameAt(k).state = "ok"}
    OBVIOUS
  <2>2. FramesLeft = [i \in M |-> FrameAt(i)]
    BY <2>1, Zenon DEF FramesLeft
  <2>3. M = 1..m
    BY <1>11, <2>1
  <2>4. QED
    BY <2>2, <2>3
<1>13. PICK s : s = Source
  OBVIOUS
<1>14. s.header = TRUE /\ s.info.total = meta.info[1].total /\ s.info.md5 = Digest(meta.info[1].md5)
       /\ s.frames = FramesLeft
  BY <1>13 DEF Source
<1>15. Len(s.frames) = m /\ \A i \in 1..m : s.frames[i] = FrameAt(i)
  <2>1. PICK f : f = [i \in 1..m |-> FrameAt(i)]
    OBVIOUS
  <2>2. f \in [1..m -> {FrameAt(i) : i \in 1..m}]
    BY <2>1
  <2>3. Len(f) = m
    BY <1>11, <2>2, ListIs
  <2>4. \A i \in 1..m : f[i] = FrameAt(i)
    BY <2>1
  <2>5. QED
    BY <1>12, <1>14, <2>1, <2>3, <2>4
<1>16. \A i \in 1..m : i < m => FrameAt(i).state = "ok"
  <2> SUFFICES ASSUME NEW i \in 1..m, i < m PROVE FrameAt(i).state = "ok"
    OBVIOUS
  <2>1. m \in 1..m /\ i \in 1..(m - 1)
    BY <1>11
  <2>2. \A k \in 1..(m - 1) : FrameAt(k).state = "ok"
    BY <1>11, <2>1
  <2>3. QED
    BY <2>1, <2>2
<1>17. m > 0 => SizeUpTo(m - 1) < AudioLeft
  <2>1. m > 0 => m \in 1..m
    BY <1>11
  <2>2. QED
    BY <1>11, <2>1
<1>18. Meets(s, m)
  BY <1>11, <1>15, <1>16, <1>17 DEF Meets
<1>19. QED
  BY <1>1, <1>2, <1>9, <1>10, <1>13, <1>14, <1>18

\* STREAMINFO records a placeholder, with the total declared, or the stream as it is.
Foretold == info.total = cfg.declared /\ Digest(info.md5) = <<>>
Recorded ==
    /\ info.total = total /\ Digest(info.md5) \in {<<>>, D!Audio(0, total, D!Native)}
    /\ cfg.declared = 0 \/ cfg.declared = total

\* It records the stream as it is once Close has patched it, and the total that was checked
\* when Close could not (Close, InitialInfo).
LEMMA InfoSays ==
    ASSUME Left, Readable
    PROVE  /\ Foretold \/ Recorded
           /\ verdict = "done" /\ cfg.seekable => Recorded
           /\ verdict = "done" => cfg.declared = 0 \/ cfg.declared = total
<1>1. /\ Typed /\ Placed /\ Measured /\ Headed /\ Verified /\ Ordinary /\ Staged
  BY DEF Left, IInv
<1>2. /\ cfg.declared \in Nat /\ cfg.md5 \in {"running", "skipped"}
      /\ total \in Nat /\ total * FrameLen = Len(audio) /\ FrameLen \in Nat /\ FrameLen # 0
  BY <1>1, SizesAssumption DEF Headed, ConfigOK, Measured, Ordinary
<1>3. verdict \in {"open", "done"}
  BY <1>1 DEF Readable, Usable, Typed
<1>4. ~Declared => cfg.declared = 0 \/ cfg.declared = total
  BY <1>2 DEF Declared
<1>5. Digest(NoDigest) = <<>>
  BY Zenon DEF Digest
<1>6. ASSUME info = InitialInfo(cfg) PROVE Foretold
  <2>1. info.total = cfg.declared /\ info.md5 = NoDigest
    BY <1>2, <1>6 DEF InitialInfo
  <2>2. QED
    BY <1>5, <2>1 DEF Foretold
<1>7. ASSUME info = TrueInfo, ~Declared PROVE Recorded
  <2>1. info.total = total /\ info.md5 = IF cfg.md5 = "running" THEN hashed ELSE InitialInfo(cfg).md5
    BY <1>7 DEF TrueInfo
  <2>2. CASE cfg.md5 = "running"
    <3>1. info.md5 = audio
      BY <1>1, <2>1, <2>2 DEF Measured
    <3>2. audio = Bytes(0, Len(audio))
      BY <1>1 DEF Placed
    <3>3. Len(audio) \div FrameLen = total
      <4>1. ASSUME NEW a \in Nat, NEW d \in Nat, d # 0 PROVE (a * d) \div d = a
        BY <4>1
      <4>2. (total * FrameLen) \div FrameLen = total
        BY <1>2, <4>1
      <4>3. QED
        BY <1>2, <4>2
    <3>4. PICK x : x = audio
      OBVIOUS
    <3>5. Digest(x) = IF x = NoDigest THEN <<>>
                      ELSE IF x = Bytes(0, Len(x)) THEN D!Audio(0, Len(x) \div FrameLen, D!Native)
                      ELSE <<<<-1, D!Native>>>>
      BY Zenon DEF Digest
    <3>6. Digest(x) \in {<<>>, D!Audio(0, total, D!Native)}
      BY <3>2, <3>3, <3>4, <3>5
    <3>7. QED
      BY <1>4, <1>7, <2>1, <3>1, <3>4, <3>6 DEF Recorded
  <2>3. CASE cfg.md5 # "running"
    <3>1. info.md5 = NoDigest
      BY <1>2, <2>1, <2>3 DEF InitialInfo
    <3>2. QED
      BY <1>4, <1>5, <1>7, <2>1, <3>1 DEF Recorded
  <2>4. QED
    BY <2>2, <2>3
<1>8. CASE pc \in Patching \/ (verdict = "done" /\ cfg.seekable)
  <2>1. info = TrueInfo /\ ~Declared
    BY <1>1, <1>8 DEF Headed, Verified
  <2>2. QED
    BY <1>4, <1>7, <2>1
<1>9. CASE ~(pc \in Patching \/ (verdict = "done" /\ cfg.seekable))
  <2>1. info = InitialInfo(cfg)
    BY <1>1, <1>3, <1>9 DEF Headed
  <2>2. verdict = "done" => ~Declared
    BY <1>1 DEF Verified
  <2>3. QED
    BY <1>4, <1>6, <1>9, <2>1, <2>2
<1>10. QED
  BY <1>8, <1>9

\* All that a Write accepted is in the frames of a stream whose Close returned nil.
LEMMA AllAccepted ==
    ASSUME Left, verdict = "done"
    PROVE  Samples = total /\ total \in Nat
<1>1. /\ Typed /\ Placed /\ Measured /\ Verified /\ Staged
  BY DEF Left, IInv
<1>2. pc = "idle" /\ leftover = <<>>
  BY <1>1 DEF Staged, Verified
<1>3. written = 0
  BY <1>1, <1>2 DEF Staged
<1>4. /\ total \in Nat /\ total * FrameLen = Len(audio) /\ FrameLen \in Nat /\ FrameLen # 0
      /\ accepted \in Nat
  BY <1>1, SizesAssumption DEF Measured, Typed
<1>5. accepted = total * FrameLen
  <2>1. Len(audio) + Len(leftover) = accepted + written
    BY <1>1 DEF Placed
  <2>2. Len(leftover) = 0
    BY <1>2
  <2>3. total * FrameLen \in Nat
    BY <1>4
  <2>4. QED
    BY <1>3, <1>4, <2>1, <2>2, <2>3
<1>6. (total * FrameLen) \div FrameLen = total
  <2>1. ASSUME NEW a \in Nat, NEW d \in Nat, d # 0 PROVE (a * d) \div d = a
    BY <2>1
  <2>2. QED
    BY <1>4, <2>1
<1>7. QED
  BY <1>4, <1>5, <1>6 DEF Samples

-----------------------------------------------------------------------------
(* The decoder.                                                             *)

\* A decoder that is about to decode, or that could not be made.
Made ==
    /\ writing = FALSE
    /\ IF err = D!NoErr
       THEN /\ br = 1 /\ pending = <<>> /\ dHashed = <<>> /\ decoded = 0 /\ delivered = <<>>
            /\ ~done /\ dInfo = src.info
       ELSE dResult = err /\ err \in {"io", "unsupported"}

\* The limit that was given, if any, has been kept.
Within == limit = 0 \/ Len(delivered) * SampleBytes <= limit

\* The first k frames were decoded, and delivered but perhaps for the last of them.
Decoded(k) ==
    /\ k \in Nat /\ k <= Len(src.frames) /\ br = k + 1
    /\ \A i \in 1..k : src.frames[i].state = "ok"
    /\ decoded = Ends(k)
    /\ dHashed = IF skipMD5 THEN <<>> ELSE D!Audio(0, Ends(k), D!Native)
    /\ \/ pending = <<>> /\ delivered = D!Audio(0, Ends(k), width)
       \/ /\ k # 0 /\ pending = D!Audio(Ends(k - 1), frames[k].samples, width)
          /\ delivered = D!Audio(0, Ends(k - 1), width)

\* Why WriteTo has returned, after k frames: at the end of the stream, at the limit, or
\* because the source broke, a frame could not be decoded or the end is not the stream's.
AtEnd(k)    == pending = <<>> /\ k = Len(src.frames) /\ D!Verdict = D!NoErr /\ file.end = "eof"
OverLimit(k) == limit # 0 /\ Ends(k) * SampleBytes > limit
Faulty(k) ==
    \/ file.end # "eof"
    \/ k < Len(src.frames) /\ src.frames[k + 1].state # "ok"
    \/ k = Len(src.frames) /\ D!Verdict # D!NoErr

Stopped(k) ==
    \/ dResult = "eof" /\ AtEnd(k)
    \/ dResult = "write" /\ OverLimit(k)
    \/ dResult \notin {"eof", "write", D!NoErr} /\ Faulty(k)

Going(k) == Decoded(k) /\ IF writing THEN ~done /\ err = D!NoErr ELSE Stopped(k)

\* What holds of a decoder however far it is.
Bound ==
    /\ result = "ok" /\ src = Source /\ ~seeked /\ limit \in Nat
    /\ width \in {D!Native, D!Converted} /\ skipMD5 \in BOOLEAN /\ writing \in BOOLEAN
    /\ done \in BOOLEAN

Answered ==
    /\ ~writing /\ (dCall = "writeto" \/ err # D!NoErr)
    /\ ret = IF dResult = "eof" THEN [err |-> D!NoErr, pcm |-> delivered]
             ELSE [err |-> dResult, pcm |-> <<>>]

Decodes ==
    IF src = D!NoSource THEN ret = NotYet /\ dCall = "new" /\ writing = FALSE
    ELSE /\ Bound
         /\ \/ dCall = "reset" /\ Made
            \/ dCall = "writeto" /\ dInfo = src.info /\ Within /\ \E k : Going(k)
         /\ ret # NotYet => Answered

\* No decoder has been made yet.
LEMMA StartsDecoding == TripInit => Decodes
  BY DEF TripInit, Decodes, D!Init

\* Once the file has been accepted only the decoder goes on.
LEMMA Settled ==
    ASSUME Left, Filed, Walked, result = "ok", [TripNext]_tripVars
    PROVE  UNCHANGED encoded
<1>1. rc = "idle" /\ file # NoFile
  BY SourceIs
<1>2. ~Encodes /\ ~OpenStored /\ ~OpenCutAudio /\ ~Reads
  BY <1>1 DEF Encodes, OpenStored, OpenCutAudio, Reads, ReadStep, SourceEnds, SkipTag, ReadMarker,
              ReadBlockHeader, ReadBody
<1>3. CASE NewDecoder \/ WriteTo \/ DecodeFrame \/ CappedWrite \/ DecodeReturns \/ UNCHANGED tripVars
  BY <1>3 DEF NewDecoder, WriteTo, DecodeFrame, CappedWrite, DecodeReturns, tripVars
<1>4. QED
  BY <1>2, <1>3 DEF TripNext, Stored, StoredNext

\* And what it decodes stays as it is.
LEMMA SourceKept ==
    ASSUME UNCHANGED encoded
    PROVE  /\ Source' = Source /\ result' = result /\ file' = file /\ frames' = frames
           /\ \A k : Ends(k)' = Ends(k)
<1>1. /\ meta' = meta /\ frames' = frames /\ total' = total /\ file' = file /\ truth' = truth
      /\ result' = result
  BY DEF encoded, vars, reader, stream, sink
<1>2. (\A i : SizeUpTo(i)' = SizeUpTo(i)) /\ AudioLeft' = AudioLeft
  BY <1>1 DEF SizeUpTo, AudioLeft, Extent
<1>3. \A i : FrameAt(i)' = FrameAt(i)
  BY <1>1, <1>2 DEF FrameAt
<1>4. FramesLeft' = FramesLeft
  BY <1>1, <1>2, <1>3 DEF FramesLeft
<1>5. Source' = Source
  BY <1>1, <1>4 DEF Source
<1>6. \A k : Ends(k)' = Ends(k)
  BY <1>1 DEF Ends
<1>7. QED
  BY <1>1, <1>5, <1>6

\* A decoder is made of a file that was accepted (NewDecoder).
LEMMA MadeKept ==
    ASSUME Left, Filed, Walked, Decodes, NewDecoder
    PROVE  Decodes'
<1>1. result = "ok" /\ ret = NotYet /\ src = D!NoSource /\ limit' \in Limits /\ ret' = ret
      /\ UNCHANGED encoded /\ D!Reset(Source)
  BY DEF NewDecoder
<1>2. Source.header = TRUE
  BY <1>1, SourceIs
<1>3. Source # D!NoSource
  BY <1>2 DEF D!NoSource
<1>4. Source' = Source /\ result' = result
  BY <1>1, SourceKept
<1>5. limit' \in Nat
  BY <1>1, LimitsAssumption
<1>6. /\ src' = Source /\ br' = 1 /\ dHashed' = <<>> /\ delivered' = <<>> /\ dCall' = "reset"
      /\ writing' = writing /\ writing = FALSE
  BY <1>1 DEF D!Reset, Decodes
<1>7. PICK sk, skip \in BOOLEAN, w \in {D!Native, D!Converted, "invalid"} :
          \/ D!Poison("io")
          \/ w = "invalid" /\ D!RejectOptions(Source, sk)
          \/ w # "invalid" /\ D!Open(Source, sk, skip, w)
  <2>1. "invalid" \in {D!Native, D!Converted, "invalid"} /\ TRUE \in BOOLEAN
    OBVIOUS
  <2>2. QED
    BY <1>1, <1>2, <2>1 DEF D!Reset
<1>8. /\ pending' = <<>> /\ decoded' = 0 /\ seeked' = FALSE /\ done' = FALSE
      /\ width' \in {D!Native, D!Converted} /\ skipMD5' \in BOOLEAN
  BY <1>7 DEF D!Poison, D!RejectOptions, D!Open, D!ClearStream
<1>9. \/ err' = D!NoErr /\ dInfo' = Source.info
      \/ err' # D!NoErr /\ err' \in {"io", "unsupported"} /\ dResult' = err'
  BY <1>7 DEF D!Poison, D!RejectOptions, D!Open, D!NoErr
<1>10. Made'
  BY <1>6, <1>8, <1>9 DEF Made
<1>11. Bound'
  BY <1>1, <1>4, <1>5, <1>6, <1>8 DEF Bound
<1>12. QED
  BY <1>1, <1>3, <1>6, <1>10, <1>11 DEF Decodes

\* What a decoder finds in the file's source.
LEMMA SourceHas ==
    ASSUME Left, Filed, Walked, Bound, NEW m, m = Len(src.frames)
    PROVE  /\ m \in Nat /\ SampleBytes \in Nat /\ SampleBytes # 0
           /\ Meets(src, m)
           /\ src.info.total = info.total /\ src.info.md5 = Digest(info.md5)
           /\ \A k \in 1..m : src.frames[k].state = "ok" =>
                  /\ k <= Len(frames) /\ src.frames[k].first = Ends(k - 1)
                  /\ src.frames[k].block = frames[k].samples
                  /\ frames[k].samples \in Nat /\ frames[k].samples # 0
                  /\ Ends(k - 1) \in Nat /\ Ends(k) \in Nat
                  /\ Ends(k) = Ends(k - 1) + frames[k].samples
<1>1. src = Source /\ result = "ok"
  BY DEF Bound
<1>2. PICK n : Meets(src, n) /\ src.info.total = info.total /\ src.info.md5 = Digest(info.md5)
  BY <1>1, SourceIs
<1>3. n = m /\ m \in Nat
  BY <1>2 DEF Meets
<1>4. \A i \in 1..m : src.frames[i] = FrameAt(i)
  BY <1>2, <1>3 DEF Meets
<1>5. SampleBytes \in Nat /\ SampleBytes # 0
  BY SizesAssumption DEF SampleBytes
<1>6. ASSUME NEW k \in 1..m, src.frames[k].state = "ok"
      PROVE  /\ k <= Len(frames) /\ src.frames[k].first = Ends(k - 1)
             /\ src.frames[k].block = frames[k].samples
             /\ frames[k].samples \in Nat /\ frames[k].samples # 0
             /\ Ends(k - 1) \in Nat /\ Ends(k) \in Nat
             /\ Ends(k) = Ends(k - 1) + frames[k].samples
  <2>1. FrameAt(k).state = "ok"
    BY <1>4, <1>6
  <2>2. /\ k <= Len(frames) /\ FrameAt(k).first = frames[k].first
        /\ FrameAt(k).block = frames[k].samples
    BY <2>1, GoodFrame
  <2>3. PICK l \in Nat : l = Len(frames)
    BY FramesFollow
  <2>4. k \in 1..l /\ k \in 0..l /\ k - 1 \in 0..l
    BY <1>3, <2>2, <2>3
  <2>5. /\ frames[k].first = Ends(k - 1) /\ frames[k].samples \in Nat /\ frames[k].samples # 0
        /\ Ends(k) = Ends(k - 1) + frames[k].samples
        /\ Ends(k) \in Nat /\ Ends(k - 1) \in Nat
    BY <2>3, <2>4, FramesFollow
  <2>6. QED
    BY <1>4, <2>2, <2>5
<1>7. QED
  BY <1>2, <1>3, <1>5, <1>6

\* The limit is kept by what is still to be delivered.
LEMMA NothingYet == ASSUME delivered = <<>>, limit \in Nat, SampleBytes \in Nat PROVE Within
<1>1. Len(delivered) = 0
  OBVIOUS
<1>2. 0 * SampleBytes = 0
  OBVIOUS
<1>3. QED
  BY <1>1, <1>2 DEF Within

\* WriteTo begins at the first frame (WriteTo).
LEMMA WriteToKept ==
    ASSUME Left, Filed, Walked, Decodes, WriteTo
    PROVE  Decodes'
<1>1. /\ ret = NotYet /\ dCall = "reset" /\ err = D!NoErr /\ UNCHANGED encoded /\ limit' = limit
      /\ ret' = ret /\ src # D!NoSource
  BY DEF WriteTo, D!WriteTo, D!Usable
<1>2. /\ dCall' = "writeto" /\ writing' = TRUE
      /\ UNCHANGED <<src, dInfo, skipMD5, width, br, pending, dHashed, decoded, seeked, done, err, delivered>>
  BY <1>1 DEF WriteTo, D!WriteTo, D!ReadGate, D!stream
<1>3. Bound /\ Made
  BY <1>1 DEF Decodes
<1>4. /\ br = 1 /\ pending = <<>> /\ dHashed = <<>> /\ decoded = 0 /\ delivered = <<>> /\ ~done
      /\ dInfo = src.info
  BY <1>1, <1>3 DEF Made
<1>5. Source' = Source /\ result' = result /\ \A k : Ends(k)' = Ends(k)
  BY <1>1, SourceKept
<1>6. Bound'
  BY <1>1, <1>2, <1>3, <1>5 DEF Bound
<1>7. Len(src.frames) \in Nat /\ SampleBytes \in Nat
  BY <1>3, SourceHas
<1>8. Ends(0)' = 0
  BY <1>5 DEF Ends
<1>9. D!Audio(0, 0, D!Native) = <<>> /\ D!Audio(0, 0, width) = <<>>
  BY NoAudio
<1>10. Decoded(0)'
  BY <1>2, <1>4, <1>7, <1>8, <1>9 DEF Decoded
<1>11. Going(0)'
  BY <1>1, <1>2, <1>4, <1>10 DEF Going
<1>12. Within'
  <2>1. Within
    BY <1>3, <1>4, <1>7, NothingYet DEF Bound
  <2>2. QED
    BY <1>1, <1>2, <2>1 DEF Within, SampleBytes
<1>13. QED
  BY <1>1, <1>2, <1>4, <1>6, <1>11, <1>12 DEF Decodes

\* The decoder, the file and the limit stay as they are.
LEMMA SameDecoder ==
    ASSUME UNCHANGED <<encoded, limit, decoder>>
    PROVE  /\ Bound' <=> Bound
           /\ Made' <=> Made
           /\ Within' <=> Within
           /\ (\E k : Going(k)) => (\E k : Going(k))'
<1>1. /\ UNCHANGED <<src, dInfo, skipMD5, width, br, pending, dHashed, decoded, seeked, done, err,
                     delivered, writing, dResult, limit>>
  BY DEF decoder
<1>2. /\ Source' = Source /\ result' = result /\ file' = file /\ frames' = frames
      /\ \A k : Ends(k)' = Ends(k)
  BY SourceKept
<1>3. D!Verdict' = D!Verdict
  BY <1>1 DEF D!Verdict
<1>4. SampleBytes' = SampleBytes
  BY <1>1 DEF SampleBytes
<1>5. ASSUME NEW k, Going(k) PROVE Going(k)'
  <2>1. Decoded(k)'
    BY <1>1, <1>2, <1>5 DEF Going, Decoded
  <2>2. Stopped(k) => Stopped(k)'
    BY <1>1, <1>2, <1>3, <1>4 DEF Stopped, AtEnd, OverLimit, Faulty
  <2>3. QED
    BY <1>1, <1>5, <2>1, <2>2 DEF Going
<1>6. (Bound' <=> Bound) /\ (Made' <=> Made) /\ (Within' <=> Within)
  BY <1>1, <1>2, <1>4 DEF Bound, Made, Within
<1>7. QED
  BY <1>5, <1>6

\* What the call returns is what it was left with (DecodeInterleavedLimit).
LEMMA ReturnKept ==
    ASSUME Decodes, DecodeReturns
    PROVE  Decodes'
<1>1. /\ ret = NotYet /\ ~writing /\ (dCall = "writeto" \/ (dCall = "reset" /\ err # D!NoErr))
      /\ ret' = IF dResult = "eof" THEN [err |-> D!NoErr, pcm |-> delivered]
                ELSE [err |-> dResult, pcm |-> <<>>]
      /\ UNCHANGED <<encoded, limit, decoder>>
  BY DEF DecodeReturns
<1>2. UNCHANGED <<src, dInfo, err, delivered, writing, dResult, dCall>>
  BY <1>1 DEF decoder
<1>3. src # D!NoSource
  BY <1>1 DEF Decodes
<1>4. Answered'
  BY <1>1, <1>2 DEF Answered
<1>5. /\ Bound' <=> Bound
      /\ Made' <=> Made
      /\ Within' <=> Within
      /\ (\E k : Going(k)) => (\E k : Going(k))'
  BY <1>1, SameDecoder
<1>6. QED
  BY <1>2, <1>3, <1>4, <1>5 DEF Decodes

\* Nothing happens to the decoder.
LEMMA IdleKept ==
    ASSUME Decodes, UNCHANGED <<encoded, limit, ret, decoder>>
    PROVE  Decodes'
<1>1. UNCHANGED <<src, dInfo, err, delivered, writing, dResult, dCall, ret>>
  BY DEF decoder
<1>2. Answered' <=> Answered
  BY <1>1 DEF Answered
<1>3. /\ Bound' <=> Bound
      /\ Made' <=> Made
      /\ Within' <=> Within
      /\ (\E k : Going(k)) => (\E k : Going(k))'
  BY SameDecoder
<1>4. QED
  BY <1>1, <1>2, <1>3 DEF Decodes

\* WriteTo's loop has delivered what it decoded and goes on, or returns (decodeNextFrame).
LEMMA FrameKept ==
    ASSUME Left, Filed, Walked, Decodes, DecodeFrame
    PROVE  Decodes'
<1>1. /\ D!WriteToDecode /\ UNCHANGED encoded /\ limit' = limit /\ ret' = ret
      /\ IF file.end = "eof" THEN err' # "io" ELSE ~done' /\ err' # "truncated"
  BY DEF DecodeFrame
<1>2. /\ writing = TRUE /\ pending = <<>>
      /\ UNCHANGED <<src, dInfo, seekable, skipMD5, width, seeked, dCall>>
  <2>1. writing
    BY <1>1 DEF D!WriteToDecode
  <2>2. writing \in BOOLEAN
    BY <2>1 DEF Decodes, Bound
  <2>3. QED
    BY <1>1, <2>1, <2>2 DEF D!WriteToDecode, D!stream
<1>3. src # D!NoSource /\ Bound /\ dCall = "writeto" /\ dInfo = src.info /\ Within
  BY <1>2 DEF Decodes, Made
<1>4. PICK k : Going(k)
  BY <1>2, <1>3 DEF Decodes, Made
<1>5. ~done /\ err = D!NoErr /\ Decoded(k)
  BY <1>2, <1>4 DEF Going
<1>6. ret = NotYet
  BY <1>2, <1>3 DEF Decodes, Answered
<1>7. PICK m \in Nat : m = Len(src.frames)
  BY <1>3, SourceHas
<1>8. /\ Source' = Source /\ result' = result /\ file' = file /\ frames' = frames
      /\ \A i : Ends(i)' = Ends(i)
  BY <1>1, SourceKept
<1>9. SampleBytes' = SampleBytes
  BY <1>2 DEF SampleBytes
<1>10. k \in Nat /\ k <= m /\ br = k + 1 /\ \A i \in 1..k : src.frames[i].state = "ok"
  BY <1>5, <1>7 DEF Decoded
<1>11. delivered = D!Audio(0, Ends(k), width)
  <2>1. CASE k # 0 /\ pending = D!Audio(Ends(k - 1), frames[k].samples, width)
    <3>1. k \in 1..k /\ k \in 1..m
      BY <1>10, <1>7, <2>1
    <3>2. /\ Ends(k - 1) \in Nat /\ frames[k].samples \in Nat /\ frames[k].samples # 0
      BY <1>3, <1>7, <1>10, <3>1, SourceHas
    <3>3. PICK a \in Nat, b \in Nat : a = Ends(k - 1) /\ b = frames[k].samples /\ b # 0
      BY <3>2
    <3>4. pending = D!Audio(a, b, width)
      BY <2>1, <3>3
    <3>5. Len(pending) = b
      <4>1. a \in Nat /\ b \in Nat
        BY <3>3
      <4>2. Len(D!Audio(a, b, width)) = b
        BY <4>1, AudioIs
      <4>3. QED
        BY <3>4, <4>2
    <3>6. QED
      BY <1>2, <3>3, <3>5
  <2>2. QED
    BY <1>5, <2>1 DEF Decoded
<1>12. CASE D!NoFrame /\ writing' = FALSE
  <2>1. /\ br' = br /\ dHashed' = dHashed /\ decoded' = decoded /\ pending' = pending
        /\ delivered' = delivered
    BY <1>12 DEF D!NoFrame, D!EndOfStream, D!Fail
  <2>2. done' \in BOOLEAN
    BY <1>3, <1>12 DEF D!NoFrame, D!EndOfStream, D!Fail, Bound
  <2>3. Decoded(k)'
    BY <1>2, <1>5, <1>8, <2>1 DEF Decoded
  <2>4. D!Verdict' = D!Verdict
    BY <1>2, <2>1 DEF D!Verdict
  <2>5. Stopped(k)'
    <3>1. CASE D!EndOfStream
      <4>1. /\ done' = TRUE /\ br > m
            /\ dResult' = IF D!Verdict = D!NoErr THEN "eof" ELSE D!Verdict
        BY <1>7, <3>1 DEF D!EndOfStream
      <4>2. k = m /\ k = Len(src'.frames)
        BY <1>2, <1>7, <1>10, <4>1
      <4>3. file'.end = "eof"
        BY <1>1, <1>8, <4>1
      <4>4. D!Verdict \in {D!NoErr, "md5", "truncated"}
        BY DEF D!Verdict
      <4>5. CASE D!Verdict = D!NoErr
        <5>1. AtEnd(k)'
          BY <1>2, <2>1, <2>4, <4>2, <4>3, <4>5 DEF AtEnd
        <5>2. QED
          BY <4>1, <4>5, <5>1 DEF Stopped
      <4>6. CASE D!Verdict # D!NoErr
        <5>1. Faulty(k)'
          BY <2>4, <4>2, <4>6 DEF Faulty
        <5>2. dResult' \notin {"eof", "write", D!NoErr}
          BY <4>1, <4>4, <4>6 DEF D!NoErr
        <5>3. QED
          BY <5>1, <5>2 DEF Stopped
      <4>7. QED
        BY <4>5, <4>6
    <3>2. CASE D!Fail("io")
      <4>1. dResult' = "io" /\ err' = "io"
        BY <3>2 DEF D!Fail
      <4>2. file'.end # "eof"
        BY <1>1, <1>8, <4>1
      <4>3. QED
        BY <4>1, <4>2 DEF Stopped, Faulty, D!NoErr
    <3>3. CASE /\ br <= Len(src.frames)
               /\ \/ src.frames[br].state = "bad" /\ D!Fail("crc")
                  \/ src.frames[br].state = "cut" /\ D!Fail("truncated")
      <4>1. dResult' \in {"crc", "truncated"} /\ src.frames[br].state # "ok"
        BY <3>3 DEF D!Fail
      <4>2. k < Len(src'.frames) /\ src'.frames[k + 1].state # "ok"
        BY <1>2, <1>7, <1>10, <3>3, <4>1
      <4>3. QED
        BY <4>1, <4>2 DEF Stopped, Faulty, D!NoErr
    <3>4. QED
      BY <1>5, <1>12, <3>1, <3>2, <3>3 DEF D!NoFrame
  <2>6. Going(k)'
    BY <1>12, <2>3, <2>5 DEF Going
  <2>7. Bound'
    BY <1>1, <1>2, <1>3, <1>8, <1>12, <2>2 DEF Bound
  <2>8. Within'
    BY <1>1, <1>3, <1>9, <2>1 DEF Within
  <2>9. QED
    BY <1>1, <1>2, <1>3, <1>6, <2>6, <2>7, <2>8 DEF Decodes
<1>13. CASE ~(D!NoFrame /\ writing' = FALSE)
  <2>1. PICK f : D!Frame(f, D!Pack(f, width)) /\ writing' = writing /\ delivered' = delivered
    <3>1. ~(D!NoFrame /\ ~writing') => \E f : D!Frame(f, D!Pack(f, width)) /\ writing' = writing
                                              /\ delivered' = delivered
      BY <1>1 DEF D!WriteToDecode
    <3>2. CASE D!NoFrame /\ ~writing'
      <4>1. D!NoFrame /\ (writing' <=> FALSE)
        BY <3>2
      <4>2. QED
        BY <1>1, <1>13, <4>1 DEF D!WriteToDecode
    <3>3. QED
      BY <3>1, <3>2
  <2>2. /\ br <= m /\ f = src.frames[br] /\ f.state = "ok" /\ br' = br + 1
        /\ decoded' = decoded + f.block /\ dHashed' = D!Hashed(f) /\ pending' = D!Pack(f, width)
        /\ done' = done /\ err' = err
    BY <1>7, <2>1 DEF D!Frame
  <2>3. PICK j \in Nat : j = k + 1
    BY <1>10
  <2>4. j \in 1..m /\ j - 1 = k /\ j # 0 /\ br = j /\ src.frames[j].state = "ok"
    BY <1>7, <1>10, <2>2, <2>3
  <2>5. /\ f.first = Ends(k) /\ f.block = frames[j].samples /\ frames[j].samples \in Nat
        /\ Ends(k) \in Nat /\ Ends(j) \in Nat /\ Ends(j) = Ends(k) + frames[j].samples
    BY <1>3, <1>7, <2>2, <2>4, SourceHas
  <2>6. decoded' = Ends(j)
    BY <1>5, <2>2, <2>5 DEF Decoded
  <2>7. pending' = D!Audio(Ends(k), frames[j].samples, width)
    BY <2>2, <2>5 DEF D!Pack
  <2>8. dHashed' = IF skipMD5 THEN <<>> ELSE D!Audio(0, Ends(j), D!Native)
    <3>1. dHashed = IF skipMD5 THEN <<>> ELSE D!Audio(0, Ends(k), D!Native)
      BY <1>5 DEF Decoded
    <3>2. ~seeked
      BY <1>3 DEF Bound
    <3>3. CASE skipMD5
      BY <2>2, <3>1, <3>3 DEF D!Hashed
    <3>4. CASE ~skipMD5
      <4>1. dHashed' = dHashed \o D!Pack(f, D!Native)
        BY <2>2, <3>2, <3>4 DEF D!Hashed
      <4>2. D!Pack(f, D!Native) = D!Audio(Ends(k), frames[j].samples, D!Native)
        BY <2>5 DEF D!Pack
      <4>3. D!Audio(0, Ends(k), D!Native) \o D!Audio(Ends(k), frames[j].samples, D!Native)
                = D!Audio(0, Ends(k) + frames[j].samples, D!Native)
        BY <2>5, AudioGoesOn
      <4>4. QED
        BY <2>5, <3>1, <3>4, <4>1, <4>2, <4>3
    <3>5. QED
      BY <3>3, <3>4
  <2>9. j \in Nat /\ j <= Len(src.frames) /\ br' = j + 1 /\ \A i \in 1..j : src.frames[i].state = "ok"
    <3>1. \A i \in 1..j : i \in 1..k \/ i = j
      BY <1>10, <2>3
    <3>2. j <= m
      BY <1>7, <2>4
    <3>3. QED
      BY <1>7, <1>10, <2>2, <2>3, <2>4, <3>1, <3>2
  <2>10. Decoded(j)'
    <3>1. delivered' = D!Audio(0, Ends(j - 1), width)
      BY <1>11, <2>1, <2>4
    <3>2. pending' = D!Audio(Ends(j - 1), frames[j].samples, width)
      BY <2>4, <2>7
    <3>3. QED
      BY <1>2, <1>8, <2>4, <2>6, <2>8, <2>9, <3>1, <3>2 DEF Decoded
  <2>11. Going(j)'
    BY <1>2, <1>5, <2>1, <2>2, <2>10 DEF Going
  <2>12. Bound'
    BY <1>1, <1>2, <1>3, <1>8, <2>1, <2>2 DEF Bound
  <2>13. Within'
    BY <1>1, <1>3, <1>9, <2>1 DEF Within
  <2>14. QED
    BY <1>1, <1>2, <1>3, <1>6, <2>11, <2>12, <2>13 DEF Decodes
<1>14. QED
  BY <1>12, <1>13

\* What is left of s behind its first n, and what those are.
LEMMA Parts ==
    ASSUME NEW S, NEW s \in Seq(S), NEW n \in 0..Len(s)
    PROVE  /\ Len(s) \in Nat /\ Len(D!Drop(s, n)) = Len(s) - n
           /\ n = Len(s) => D!Take(s, n) = s
           /\ n = 0 => D!Take(s, n) = <<>>
<1>1. PICK l \in Nat : l = Len(s)
  OBVIOUS
<1>2. D!Drop(s, n) = SubSeq(s, n + 1, l) /\ D!Take(s, n) = SubSeq(s, 1, n)
  BY <1>1 DEF D!Drop, D!Take
<1>3. Len(SubSeq(s, n + 1, l)) = l - n
  BY <1>1
<1>4. SubSeq(s, 1, l) = s
  BY <1>1
<1>5. SubSeq(s, 1, 0) = <<>>
  OBVIOUS
<1>6. QED
  BY <1>1, <1>2, <1>3, <1>4, <1>5

\* The frame decoded is written whole, or the limit would be exceeded (cappedWriter).
LEMMA CappedKept ==
    ASSUME Left, Filed, Walked, Decodes, CappedWrite
    PROVE  Decodes'
<1>1. /\ D!WriteToWrite /\ UNCHANGED encoded /\ limit' = limit /\ ret' = ret
      /\ pending' = IF Room(Len(pending)) THEN <<>> ELSE pending
  BY DEF CappedWrite
<1>2. /\ writing = TRUE /\ pending # <<>>
      /\ UNCHANGED <<src, dInfo, skipMD5, width, br, dHashed, decoded, seeked, done, err, dCall>>
  <2>1. writing
    BY <1>1 DEF D!WriteToWrite
  <2>2. writing \in BOOLEAN
    BY <2>1 DEF Decodes, Bound
  <2>3. QED
    BY <1>1, <2>1, <2>2 DEF D!WriteToWrite, D!stream
<1>3. src # D!NoSource /\ Bound /\ dCall = "writeto" /\ dInfo = src.info /\ Within
  BY <1>2 DEF Decodes, Made
<1>4. PICK k : Going(k)
  BY <1>2, <1>3 DEF Decodes, Made
<1>5. ~done /\ err = D!NoErr /\ Decoded(k)
  BY <1>2, <1>4 DEF Going
<1>6. ret = NotYet
  BY <1>2, <1>3 DEF Decodes, Answered
<1>7. PICK m \in Nat : m = Len(src.frames)
  BY <1>3, SourceHas
<1>8. /\ Source' = Source /\ result' = result /\ file' = file /\ frames' = frames
      /\ \A i : Ends(i)' = Ends(i)
  BY <1>1, SourceKept
<1>9. SampleBytes' = SampleBytes /\ SampleBytes \in Nat
  BY <1>2, <1>3, SourceHas DEF SampleBytes
<1>10. k \in Nat /\ k <= m /\ k # 0 /\ k \in 1..m /\ \A i \in 1..k : src.frames[i].state = "ok"
  BY <1>2, <1>5, <1>7 DEF Decoded
<1>11. PICK a \in Nat, b \in Nat : /\ a = Ends(k - 1) /\ b = frames[k].samples /\ b # 0
                                   /\ Ends(k) = a + b
  <2>1. src.frames[k].state = "ok"
    BY <1>10
  <2>2. /\ Ends(k - 1) \in Nat /\ frames[k].samples \in Nat /\ frames[k].samples # 0
        /\ Ends(k) = Ends(k - 1) + frames[k].samples
    BY <1>3, <1>7, <1>10, <2>1, SourceHas
  <2>3. QED
    BY <2>2
<1>12. pending = D!Audio(a, b, width) /\ delivered = D!Audio(0, a, width)
  BY <1>2, <1>5, <1>11 DEF Decoded
<1>13. PICK S : pending \in Seq(S) /\ Len(pending) = b /\ delivered \in Seq(S) /\ Len(delivered) = a
  <2>1. a \in Nat /\ b \in Nat /\ 0 \in Nat
    BY <1>11
  <2>2. /\ D!Audio(a, b, width) \in Seq(Nat \X {width}) /\ Len(D!Audio(a, b, width)) = b
        /\ D!Audio(0, a, width) \in Seq(Nat \X {width}) /\ Len(D!Audio(0, a, width)) = a
    BY <2>1, AudioIs
  <2>3. QED
    BY <1>12, <2>2
<1>14. PICK n \in 0..Len(pending) :
          /\ pending' = D!Unwritten(n) /\ D!Deliver(pending, n)
          /\ \/ n = Len(pending) /\ writing' = writing /\ dResult' = dResult
             \/ n < Len(pending) /\ writing' = FALSE /\ dResult' = "write"
  BY <1>1 DEF D!WriteToWrite
<1>15. n \in 0..b /\ pending' = D!Drop(pending, n) /\ delivered' = delivered \o D!Take(pending, n)
  BY <1>13, <1>14 DEF D!Unwritten, D!Deliver
<1>16. /\ Len(pending') = b - n
       /\ n = b => D!Take(pending, n) = pending
       /\ n = 0 => D!Take(pending, n) = <<>>
  BY <1>13, <1>14, <1>15, Parts
<1>17. CASE Room(b)
  <2>1. pending' = <<>>
    BY <1>1, <1>13, <1>17
  <2>2. n = b
    <3>1. b - n = 0
      BY <1>16, <2>1
    <3>2. QED
      BY <1>11, <1>15, <3>1
  <2>3. writing' = TRUE
    <3>1. ~(n < b)
      BY <1>11, <2>2
    <3>2. QED
      BY <1>2, <1>13, <1>14, <3>1
  <2>4. delivered' = D!Audio(0, Ends(k), width)
    <3>1. delivered' = D!Audio(0, a, width) \o D!Audio(a, b, width)
      BY <1>12, <1>15, <1>16, <2>2
    <3>2. D!Audio(0, a, width) \o D!Audio(a, b, width) = D!Audio(0, a + b, width)
      BY AudioGoesOn
    <3>3. QED
      BY <1>11, <3>1, <3>2
  <2>5. Decoded(k)'
    BY <1>2, <1>5, <1>8, <2>1, <2>4 DEF Decoded
  <2>6. Going(k)'
    BY <1>2, <1>5, <2>3, <2>5 DEF Going
  <2>7. Bound'
    BY <1>1, <1>2, <1>3, <1>8, <2>3 DEF Bound
  <2>8. Within'
    <3>1. a + b \in Nat
      BY <1>11
    <3>2. Len(delivered') = a + b
      <4>1. Len(D!Audio(0, a + b, width)) = a + b
        BY <3>1, AudioIs
      <4>2. QED
        BY <1>11, <2>4, <4>1
    <3>3. limit <= 0 \/ (a + b) * SampleBytes <= limit
      BY <1>13, <1>17 DEF Room
    <3>4. limit \in Nat
      BY <1>3 DEF Bound
    <3>5. limit <= 0 => limit = 0
      BY <3>4
    <3>6. limit = 0 \/ (a + b) * SampleBytes <= limit
      BY <3>3, <3>5
    <3>7. QED
      BY <1>1, <1>9, <3>2, <3>6 DEF Within
  <2>9. QED
    BY <1>1, <1>2, <1>3, <1>6, <2>6, <2>7, <2>8 DEF Decodes
<1>18. CASE ~Room(b)
  <2>1. pending' = pending
    BY <1>1, <1>13, <1>18
  <2>2. n = 0 /\ n < b
    <3>1. b - n = b
      BY <1>13, <1>16, <2>1
    <3>2. QED
      BY <1>11, <1>15, <3>1
  <2>3. writing' = FALSE /\ dResult' = "write"
    <3>1. n # b
      BY <1>11, <2>2
    <3>2. QED
      BY <1>13, <1>14, <3>1
  <2>4. delivered' = delivered
    BY <1>13, <1>15, <1>16, <2>2
  <2>5. Decoded(k)'
    BY <1>2, <1>5, <1>8, <2>1, <2>4 DEF Decoded
  <2>6. OverLimit(k)'
    <3>1. limit \in Nat
      BY <1>3 DEF Bound
    <3>2. ~(limit <= 0) /\ ~((a + b) * SampleBytes <= limit)
      BY <1>13, <1>18 DEF Room
    <3>3. PICK x \in Nat : x = (a + b) * SampleBytes
      BY <1>9, <1>11
    <3>4. limit # 0 /\ x > limit
      BY <3>1, <3>2, <3>3
    <3>5. QED
      BY <1>1, <1>8, <1>9, <1>11, <3>3, <3>4 DEF OverLimit
  <2>7. Going(k)'
    BY <2>3, <2>5, <2>6 DEF Going, Stopped
  <2>8. Bound'
    BY <1>1, <1>2, <1>3, <1>8, <2>3 DEF Bound
  <2>9. Within'
    BY <1>1, <1>3, <1>9, <2>4 DEF Within
  <2>10. QED
    BY <1>1, <1>2, <1>3, <1>6, <2>7, <2>8, <2>9 DEF Decodes
<1>19. QED
  BY <1>17, <1>18

\* Every step keeps what holds of the decoder.
LEMMA DecodesKept ==
    ASSUME Left, Filed, Walked, Decodes, [TripNext]_tripVars
    PROVE  Decodes'
<1>1. CASE Stored \/ OpenCutAudio \/ UNCHANGED tripVars
  <2>1. UNCHANGED <<limit, ret, decoder>>
    BY <1>1 DEF Stored, OpenCutAudio, tripVars
  <2>2. CASE src = D!NoSource
    BY <2>1, <2>2 DEF Decodes, decoder
  <2>3. CASE src # D!NoSource
    <3>1. result = "ok"
      BY <2>3 DEF Decodes, Bound
    <3>2. UNCHANGED encoded
      BY <3>1, Settled
    <3>3. QED
      BY <2>1, <3>2, IdleKept
  <2>4. QED
    BY <2>2, <2>3
<1>2. CASE NewDecoder
  BY <1>2, MadeKept
<1>3. CASE WriteTo
  BY <1>3, WriteToKept
<1>4. CASE DecodeFrame
  BY <1>4, FrameKept
<1>5. CASE CappedWrite
  BY <1>5, CappedKept
<1>6. CASE DecodeReturns
  BY <1>6, ReturnKept
<1>7. QED
  BY <1>1, <1>2, <1>3, <1>4, <1>5, <1>6 DEF TripNext

\* The invariants of the file and of its decoder hold together.
LEMMA AlwaysDecodes == TripSpec => [](Left /\ Filed /\ Walked /\ Decodes)
<1>1. TripInit => Decodes
  BY StartsDecoding
<1>2. (Left /\ Filed /\ Walked /\ Decodes) /\ [TripNext]_tripVars => Decodes'
  BY DecodesKept
<1>3. QED
  BY <1>1, <1>2, AlwaysWalked, PTL DEF TripSpec

-----------------------------------------------------------------------------
(* What the call returns.                                                   *)

\* With nothing pending, all that was decoded has been delivered.
LEMMA AllDelivered ==
    ASSUME Left, Filed, Walked, Bound, NEW k, Decoded(k), pending = <<>>
    PROVE  delivered = D!Audio(0, Ends(k), width)
<1>1. PICK m \in Nat : m = Len(src.frames)
  BY SourceHas
<1>2. SUFFICES ASSUME k # 0, pending = D!Audio(Ends(k - 1), frames[k].samples, width) PROVE FALSE
  BY DEF Decoded
<1>3. k \in 1..m /\ src.frames[k].state = "ok"
  <2>1. k \in Nat /\ k <= m /\ \A i \in 1..k : src.frames[i].state = "ok"
    BY <1>1 DEF Decoded
  <2>2. k \in 1..k
    BY <1>2, <2>1
  <2>3. QED
    BY <1>1, <2>1, <2>2
<1>4. /\ Ends(k - 1) \in Nat /\ frames[k].samples \in Nat /\ frames[k].samples # 0
  BY <1>1, <1>3, SourceHas
<1>5. PICK a \in Nat, b \in Nat : a = Ends(k - 1) /\ b = frames[k].samples /\ b # 0
  BY <1>4
<1>6. a \in Nat /\ b \in Nat
  BY <1>5
<1>7. Len(D!Audio(a, b, width)) = b
  BY <1>6, AudioIs
<1>8. D!Audio(a, b, width) = <<>>
  BY <1>2, <1>5
<1>9. QED
  BY <1>5, <1>7, <1>8

\* The frames decoded are of those written, from the first on.
LEMMA DecodedWritten ==
    ASSUME Left, Filed, Walked, Bound, NEW k, Decoded(k)
    PROVE  \E n \in Nat : n = Len(frames) /\ k \in 0..n /\ k <= Len(src.frames)
<1>1. PICK m \in Nat : m = Len(src.frames)
  BY SourceHas
<1>2. PICK n \in Nat : n = Len(frames)
  BY FramesFollow
<1>3. k \in Nat /\ k <= m /\ \A i \in 1..k : src.frames[i].state = "ok"
  BY <1>1 DEF Decoded
<1>4. ASSUME k # 0 PROVE k <= n
  <2>1. k \in 1..k /\ k \in 1..m
    BY <1>1, <1>3, <1>4
  <2>2. QED
    BY <1>1, <1>2, <1>3, <2>1, SourceHas
<1>5. k = 0 => k <= n
  BY <1>2
<1>6. QED
  BY <1>1, <1>2, <1>3, <1>4, <1>5

\* What a clean end of the stream tells of its length (finish).
LEMMA CleanEnd ==
    ASSUME Left, Filed, Walked, Bound, dInfo = src.info, NEW k, Decoded(k), D!Verdict = D!NoErr
    PROVE  /\ Recorded => Ends(k) = total
           /\ Ends(k) \in Nat /\ Ends(k) >= cfg.declared
<1>1. PICK n \in Nat : n = Len(frames) /\ k \in 0..n
  BY DecodedWritten
<1>2. PICK e \in Nat, t \in Nat : e = Ends(k) /\ t = total /\ e <= t
  BY <1>1, FramesFollow
<1>3. dInfo.total = info.total /\ dInfo.md5 = Digest(info.md5)
  BY SourceHas
<1>4. decoded = e /\ dHashed = IF skipMD5 THEN <<>> ELSE D!Audio(0, e, D!Native)
  BY <1>2 DEF Decoded
<1>5. ~seeked
  BY DEF Bound
<1>6. \/ ~skipMD5 /\ dInfo.md5 # <<>> /\ dHashed = dInfo.md5
      \/ (skipMD5 \/ dInfo.md5 = <<>>) /\ ~(dInfo.total # 0 /\ decoded < dInfo.total)
  BY <1>5 DEF D!Verdict, D!NoErr
<1>7. ASSUME Recorded PROVE e = t
  <2>1. info.total = t /\ Digest(info.md5) \in {<<>>, D!Audio(0, t, D!Native)}
    BY <1>2, <1>7 DEF Recorded
  <2>2. CASE ~skipMD5 /\ dInfo.md5 # <<>> /\ dHashed = dInfo.md5
    <3>1. D!Audio(0, e, D!Native) = D!Audio(0, t, D!Native)
      BY <1>3, <1>4, <2>1, <2>2
    <3>2. e \in Nat /\ t \in Nat
      BY <1>2
    <3>3. QED
      BY <3>1, <3>2, AudioLength
  <2>3. CASE ~(dInfo.total # 0 /\ decoded < dInfo.total)
    <3>1. t = 0 \/ ~(e < t)
      BY <1>3, <1>4, <2>1, <2>3
    <3>2. QED
      BY <1>2, <3>1
  <2>4. QED
    BY <1>6, <2>2, <2>3
<1>8. e >= cfg.declared
  <2>1. Readable
    BY SourceIs DEF Bound
  <2>2. cfg.declared \in Nat
    BY DEF Left, Headed, ConfigOK
  <2>3. PICK d \in Nat : d = cfg.declared
    BY <2>2
  <2>4. CASE Recorded
    <3>1. e = t /\ (d = 0 \/ d = t)
      BY <1>2, <1>7, <2>3, <2>4 DEF Recorded
    <3>2. e >= d
      BY <1>2, <2>3, <3>1
    <3>3. QED
      BY <2>3, <3>2
  <2>5. CASE Foretold
    <3>1. dInfo.total = d /\ dInfo.md5 = <<>>
      BY <1>3, <2>3, <2>5 DEF Foretold
    <3>2. ~(d # 0 /\ e < d)
      BY <1>4, <1>6, <3>1
    <3>3. e >= d
      BY <1>2, <2>3, <3>2
    <3>4. QED
      BY <2>3, <3>3
  <2>6. QED
    BY <2>1, <2>4, <2>5, InfoSays
<1>9. QED
  BY <1>2, <1>7, <1>8

\* The decoder of a whole file meets the frames that were written, and can decode them.
LEMMA WholeIsMet ==
    ASSUME Left, Filed, Walked, Bound, Whole, NEW m, m = Len(src.frames)
    PROVE  m = Len(frames) /\ m \in Nat /\ \A i \in 1..m : src.frames[i].state = "ok"
<1>1. PICK n \in Nat : n = Len(frames)
  BY FramesFollow
<1>2. m \in Nat /\ Meets(src, m)
  BY SourceHas
<1>3. /\ \A i \in 0..n : SizeUpTo(i) \in Nat
      /\ \A i, j \in 0..n : i <= j => SizeUpTo(i) <= SizeUpTo(j)
      /\ \A i \in 1..n : SizeUpTo(i - 1) < SizeUpTo(i)
      /\ end = SizeUpTo(n) + junk
      /\ junk = 0 => \A i \in 1..n : frames[i].at = SizeUpTo(i - 1)
  BY <1>1, SizesGrow
<1>4. AudioLeft = end /\ junk = 0
  BY DEF Whole
<1>5. n \in 0..n
  BY <1>1
<1>6. PICK l \in Nat : l = SizeUpTo(n) /\ AudioLeft = l
  BY <1>3, <1>4, <1>5
<1>7. ASSUME NEW i \in 1..n PROVE FrameAt(i).state = "ok"
  <2>1. i \in 0..n /\ i <= n
    BY <1>1
  <2>2. SizeUpTo(i) <= AudioLeft
    BY <1>3, <1>5, <1>6, <2>1
  <2>3. frames[i].at = SizeUpTo(i - 1) /\ i <= Len(frames)
    BY <1>1, <1>3, <1>4, <2>1
  <2>4. QED
    BY <2>2, <2>3, WholeFrame
<1>8. /\ m <= n + 1 /\ \A i \in 1..m : src.frames[i] = FrameAt(i)
      /\ m > 0 => SizeUpTo(m - 1) < AudioLeft
      /\ m <= n => SizeUpTo(m) >= AudioLeft \/ (m > 0 /\ FrameAt(m).state # "ok")
  BY <1>1, <1>2 DEF Meets
<1>9. m # n + 1
  <2> SUFFICES ASSUME m = n + 1 PROVE FALSE
    OBVIOUS
  <2>1. m > 0 /\ m - 1 = n
    BY <1>1
  <2>2. SizeUpTo(n) < AudioLeft
    BY <1>8, <2>1
  <2>3. QED
    BY <1>6, <2>2
<1>10. m <= n
  BY <1>1, <1>2, <1>8, <1>9
<1>11. m = n
  <2> SUFFICES ASSUME m # n PROVE FALSE
    OBVIOUS
  <2>1. m > 0 => m \in 1..n
    BY <1>1, <1>2, <1>10
  <2>2. SizeUpTo(m) >= AudioLeft
    BY <1>7, <1>8, <1>10, <2>1
  <2>3. m + 1 \in 1..n /\ m + 1 \in 0..n /\ m + 1 <= n /\ (m + 1) - 1 = m /\ m \in 0..n
    BY <1>1, <1>2, <1>10
  <2>4. SizeUpTo(m) < SizeUpTo(m + 1)
    BY <1>3, <2>3
  <2>5. SizeUpTo(m + 1) <= SizeUpTo(n)
    BY <1>3, <1>5, <2>3
  <2>6. PICK a \in Nat, b \in Nat : a = SizeUpTo(m) /\ b = SizeUpTo(m + 1)
    BY <1>3, <2>3
  <2>7. a < b /\ b <= l /\ a >= l
    BY <1>6, <2>2, <2>4, <2>5, <2>6
  <2>8. QED
    BY <1>6, <2>6, <2>7
<1>12. QED
  BY <1>1, <1>2, <1>7, <1>8, <1>11

\* A file whose Close returned nil decodes to every byte that Write accepted, in one call,
\* at either depth and with or without the MD5 check; a limit below that is reported, and a
\* limit of just that is enough (Encoder, DecodeInterleavedLimit, cappedWriter).
THEOREM EncodedIsDecoded == TripSpec => []DecodesWhatWasEncoded
<1>1. Left /\ Filed /\ Walked /\ Decodes => DecodesWhatWasEncoded
  <2> SUFFICES ASSUME Left, Filed, Walked, Decodes, Returned, verdict = "done", Whole,
                      dCall = "writeto"
               PROVE  ret = IF limit = 0 \/ Samples * SampleBytes <= limit
                            THEN [err |-> D!NoErr, pcm |-> D!Audio(0, Samples, width)]
                            ELSE [err |-> "write", pcm |-> <<>>]
    BY DEF DecodesWhatWasEncoded
  <2>1. src # D!NoSource /\ Bound /\ Within /\ dInfo = src.info /\ Answered
    BY DEF Decodes, Returned
  <2>2. PICK k : Going(k)
    BY <2>1 DEF Decodes
  <2>3. Decoded(k) /\ Stopped(k)
    BY <2>1, <2>2 DEF Going, Answered
  <2>4. PICK m \in Nat : m = Len(src.frames)
    BY <2>1, SourceHas
  <2>5. m = Len(frames) /\ \A i \in 1..m : src.frames[i].state = "ok"
    BY <2>1, <2>4, WholeIsMet
  <2>6. PICK t \in Nat : Samples = t /\ total = t /\ Ends(m) = t
    BY <2>5, AllAccepted, FramesFollow
  <2>7. PICK b \in Nat : b = SampleBytes /\ b # 0
    BY <2>1, SourceHas
  <2>8. limit \in Nat
    BY <2>1 DEF Bound
  <2>9. k \in 0..m
    BY <2>1, <2>3, <2>5, DecodedWritten
  <2>10. PICK e \in Nat : e = Ends(k) /\ e <= t
    BY <2>5, <2>6, <2>9, FramesFollow
  <2>11. ~Faulty(k)
    <3>1. file.end = "eof"
      BY DEF Whole
    <3>2. k < m => k + 1 \in 1..m
      BY <2>4, <2>9
    <3>3. k < m => src.frames[k + 1].state = "ok"
      BY <2>5, <3>2
    <3>4. k = m => D!Verdict = D!NoErr
      <4> SUFFICES ASSUME k = m PROVE D!Verdict = D!NoErr
        OBVIOUS
      <4>1. decoded = t /\ dHashed = IF skipMD5 THEN <<>> ELSE D!Audio(0, t, D!Native)
        BY <2>3, <2>6 DEF Decoded
      <4>2. dInfo.total = info.total /\ dInfo.md5 = Digest(info.md5)
        BY <2>1, SourceHas
      <4>3. /\ Digest(info.md5) \in {<<>>, D!Audio(0, t, D!Native)}
            /\ info.total = 0 \/ info.total = t
        <5>1. Readable
          BY <2>1, SourceIs DEF Bound
        <5>2. (Foretold \/ Recorded) /\ (cfg.declared = 0 \/ cfg.declared = t)
          BY <2>6, <5>1, InfoSays
        <5>3. QED
          BY <2>6, <5>2 DEF Foretold, Recorded
      <4>4. ~(dInfo.total # 0 /\ decoded < dInfo.total)
        <5>1. ~(t < t)
          OBVIOUS
        <5>2. QED
          BY <4>1, <4>2, <4>3, <5>1
      <4>5. ~skipMD5 /\ dInfo.md5 # <<>> => dHashed = dInfo.md5
        BY <4>1, <4>2, <4>3
      <4>6. QED
        BY <4>4, <4>5 DEF D!Verdict
    <3>5. QED
      BY <2>4, <3>1, <3>3, <3>4 DEF Faulty
  <2>12. CASE dResult = "eof"
    <3>1. AtEnd(k)
      BY <2>3, <2>11, <2>12 DEF Stopped
    <3>2. k = m /\ pending = <<>>
      BY <2>4, <3>1 DEF AtEnd
    <3>3. delivered = D!Audio(0, t, width)
      BY <2>1, <2>3, <2>6, <3>2, AllDelivered
    <3>4. Len(D!Audio(0, t, width)) = t
      BY AudioIs
    <3>5. limit = 0 \/ t * SampleBytes <= limit
      BY <2>1, <3>3, <3>4 DEF Within
    <3>6. QED
      BY <2>1, <2>6, <2>12, <3>3, <3>5 DEF Answered
  <2>13. CASE dResult # "eof"
    <3>1. dResult = "write" /\ OverLimit(k)
      BY <2>3, <2>11, <2>13 DEF Stopped
    <3>2. PICK x \in Nat, y \in Nat : x = e * b /\ y = t * b
      BY <2>7, <2>10
    <3>3. x <= y
      <4>1. ASSUME NEW u \in Nat, NEW v \in Nat, NEW w \in Nat, u <= v PROVE u * w <= v * w
        BY <4>1
      <4>2. QED
        BY <2>7, <2>10, <3>2, <4>1
    <3>4. limit # 0 /\ x > limit
      BY <2>7, <2>10, <3>1, <3>2 DEF OverLimit
    <3>5. ~(y <= limit)
      BY <2>8, <3>2, <3>3, <3>4
    <3>6. ~(limit = 0 \/ Samples * SampleBytes <= limit)
      BY <2>6, <2>7, <3>2, <3>4, <3>5
    <3>7. QED
      BY <2>1, <3>1, <3>6 DEF Answered
  <2>14. QED
    BY <2>12, <2>13
<1>2. QED
  BY <1>1, AlwaysDecodes, PTL

\* A call that succeeds returns whole frames from the first on, not more than the limit, and
\* not less than the file is known to have held: all of it if Close has patched its
\* STREAMINFO, the total if one was declared.  A source that broke, or one that ends in what
\* a failed write left, is never a success (finish, decodeNextFrame, Close, WriteTo).
THEOREM SuccessIsNotPartial == TripSpec => []PartialIsNoSuccess
<1>1. Left /\ Filed /\ Walked /\ Decodes => PartialIsNoSuccess
  <2> SUFFICES ASSUME Left, Filed, Walked, Decodes, Returned PROVE PartialIsNoSuccess
    BY DEF PartialIsNoSuccess
  <2>1. src # D!NoSource /\ Bound /\ Answered
    BY DEF Decodes, Returned
  <2>2. CASE dResult # "eof"
    <3>1. ret = [err |-> dResult, pcm |-> <<>>]
      BY <2>1, <2>2 DEF Answered
    <3>2. dResult # D!NoErr
      <4>1. CASE dCall = "reset" /\ Made
        BY <2>1, <4>1 DEF Answered, Made, D!NoErr
      <4>2. CASE dCall = "writeto" /\ \E k : Going(k)
        BY <2>1, <4>2 DEF Answered, Going, Stopped, D!NoErr
      <4>3. QED
        BY <2>1, <4>1, <4>2 DEF Decodes
    <3>3. ret.err # D!NoErr /\ ret.pcm = <<>>
      BY <3>1, <3>2
    <3>4. QED
      BY <3>3 DEF PartialIsNoSuccess
  <2>3. CASE dResult = "eof"
    <3>1. dCall = "writeto" /\ dInfo = src.info /\ Within /\ \E k : Going(k)
      BY <2>1, <2>3 DEF Decodes, Made, Answered, D!NoErr
    <3>2. PICK k : Going(k)
      BY <3>1
    <3>3. Decoded(k) /\ AtEnd(k)
      BY <2>1, <2>3, <3>2 DEF Going, Answered, Stopped, D!NoErr
    <3>4. ret = [err |-> D!NoErr, pcm |-> delivered]
      BY <2>1, <2>3 DEF Answered
    <3>5. PICK n \in Nat : n = Len(frames) /\ k \in 0..n /\ k = Len(src.frames)
      BY <2>1, <3>3, DecodedWritten DEF AtEnd
    <3>6. Ends(k) \in Nat /\ (Recorded => Ends(k) = total) /\ Ends(k) >= cfg.declared
      BY <2>1, <3>1, <3>3, CleanEnd DEF AtEnd
    <3>7. PICK e \in Nat : e = Ends(k)
      BY <3>6
    <3>8. delivered = D!Audio(0, e, width)
      BY <2>1, <3>3, <3>7, AllDelivered DEF AtEnd
    <3>9. Len(delivered) = e
      BY <3>8, AudioIs
    <3>10. e \in {0} \cup {frames[i].first + frames[i].samples : i \in DOMAIN frames}
      <4>1. k = 0 \/ k \in 1..n
        BY <3>5
      <4>2. DOMAIN frames = 1..n
        BY <3>5, FramesFollow
      <4>3. QED
        BY <3>7, <4>1, <4>2 DEF Ends
    <3>11. limit = 0 \/ Len(delivered) * SampleBytes <= limit
      BY <3>1 DEF Within
    <3>12. verdict = "done" /\ cfg.seekable => e = Samples
      <4> SUFFICES ASSUME verdict = "done", cfg.seekable PROVE e = Samples
        OBVIOUS
      <4>1. Readable
        BY <2>1, SourceIs DEF Bound
      <4>2. Recorded
        BY <4>1, InfoSays
      <4>3. QED
        BY <3>6, <3>7, <4>2, AllAccepted
    <3>13. file.end = "eof"
      BY <3>3 DEF AtEnd
    <3>14. ASSUME AudioLeft = end PROVE junk = 0
      <4>1. Meets(src, k)
        BY <2>1, <3>5, SourceHas
      <4>2. k \in 1..k => FrameAt(k).state = "ok"
        <5>1. \A i \in 1..k : src.frames[i].state = "ok"
          BY <3>3 DEF Decoded
        <5>2. \A i \in 1..k : src.frames[i] = FrameAt(i)
          BY <4>1 DEF Meets
        <5>3. QED
          BY <5>1, <5>2
      <4>3. k > 0 => k \in 1..k
        BY <3>5
      <4>4. k <= Len(frames)
        BY <3>5
      <4>5. SizeUpTo(k) >= AudioLeft
        BY <4>1, <4>2, <4>3, <4>4 DEF Meets
      <4>6. n \in 0..n /\ k <= n
        BY <3>5
      <4>7. /\ SizeUpTo(k) \in Nat /\ SizeUpTo(n) \in Nat /\ SizeUpTo(k) <= SizeUpTo(n)
            /\ end = SizeUpTo(n) + junk /\ junk \in Nat
        BY <3>5, <4>6, SizesGrow
      <4>8. PICK a \in Nat, b \in Nat, j \in Nat :
                a = SizeUpTo(k) /\ b = SizeUpTo(n) /\ j = junk /\ a <= b
        BY <4>7
      <4>9. a >= b + j
        BY <3>14, <4>5, <4>7, <4>8
      <4>10. j = 0
        BY <4>8, <4>9
      <4>11. QED
        BY <4>8, <4>10
    <3>15. ret.err = D!NoErr /\ ret.pcm = delivered
      BY <3>4
    <3>16. /\ ret.pcm = D!Audio(0, Len(ret.pcm), width)
           /\ Len(ret.pcm) \in {0} \cup {frames[i].first + frames[i].samples : i \in DOMAIN frames}
           /\ limit = 0 \/ Len(ret.pcm) * SampleBytes <= limit
           /\ verdict = "done" /\ cfg.seekable => Len(ret.pcm) = Samples
           /\ Len(ret.pcm) >= cfg.declared
           /\ file.end = "eof"
           /\ AudioLeft = end => junk = 0
      BY <3>6, <3>7, <3>8, <3>9, <3>10, <3>11, <3>12, <3>13, <3>14, <3>15
    <3>17. QED
      BY <3>15, <3>16 DEF PartialIsNoSuccess
  <2>4. QED
    BY <2>2, <2>3
<1>2. QED
  BY <1>1, AlwaysDecodes, PTL
=============================================================================
