----------------------------- MODULE DecoderProof -----------------------------
(***************************************************************************)
(* Proofs about Decoder for all sources, however damaged, and any number of *)
(* calls: nothing decodes from a reader that is gone, a failure lasts, what *)
(* is delivered is the audio from the position last reported, and what the  *)
(* end of the stream says of it is true.                                    *)
(*                                                                          *)
(* What makes a failure last is that no WriteTo is in its loop while there  *)
(* is one, and that a Reset that failed leaves nothing that a seek could    *)
(* start from.  What makes the audio right is that the pending audio, and   *)
(* then the frame at the reader, follow what was delivered, as long as the  *)
(* decoder has neither failed nor ended; and the verdicts are right because *)
(* a stream that no seek touched was counted and hashed from its start.     *)
(***************************************************************************)
EXTENDS Decoder, SequenceTheorems, TLAPS

\* A WriteTo in its loop has met no failure.
WritesOnlySound == writing => err = NoErr

\* A decoder whose last Reset failed, or that was never Reset.
FailedIsInert ==
    failed => /\ ~seekable /\ ~writing /\ delivered = <<>>
              /\ src # NoSource => err # NoErr

IInv ==
    /\ NoNilReader /\ WritesOnlySound /\ FailedIsInert
    /\ src = NoSource \/ src \in Sources
    /\ br \in Nat
    /\ writing \in BOOLEAN /\ done \in BOOLEAN /\ failed \in BOOLEAN /\ seekable \in BOOLEAN

-----------------------------------------------------------------------------
\* A decoder that was never bound has no reader and no audio (NewDecoder).
LEMMA Initially == Init => IInv
<1> SUFFICES ASSUME Init PROVE IInv
  OBVIOUS
<1>1. /\ src = NoSource /\ br = 0 /\ writing = FALSE /\ done = FALSE /\ err = NoErr
      /\ failed = TRUE /\ seekable = FALSE /\ delivered = <<>>
  BY DEF Init, NoBr
<1>2. NoNilReader /\ WritesOnlySound /\ FailedIsInert
  BY <1>1 DEF NoNilReader, WritesOnlySound, FailedIsInert
<1>3. QED
  BY <1>1, <1>2 DEF IInv

\* A Reset rebuilds the reader, and clears everything else or fails (init, applyOptions).
LEMMA ResetKeeps == ASSUME IInv, NEW s \in Sources, Reset(s) PROVE IInv'
<1>1. /\ br' = 1 /\ writing' = writing /\ ~writing /\ done' = FALSE /\ delivered' = <<>>
      /\ \/ failed' = TRUE /\ seekable' = FALSE /\ err' \in {"io", "header", "unsupported"}
         \/ failed' = FALSE /\ seekable' \in BOOLEAN /\ err' = NoErr
  BY DEF Reset, Poison, RejectOptions, Open, ClearStream
<1>2. NoNilReader'
  BY <1>1 DEF NoNilReader, NoBr
<1>3. WritesOnlySound' /\ FailedIsInert'
  BY <1>1 DEF WritesOnlySound, FailedIsInert, NoErr
<1>4. src' = s
  BY DEF Reset
<1>5. QED
  BY <1>1, <1>2, <1>3, <1>4 DEF IInv

\* decodeNextFrame ends the stream or fails where it returns no frame, and moves the
\* reader on where it does (decodeNextFrame, finish).
LEMMA NoFrameKeeps ==
    ASSUME IInv, NoFrame
    PROVE  /\ br' = br /\ delivered' = delivered /\ done' \in BOOLEAN
           /\ done => done'
           /\ done' \/ err' # NoErr
<1>1. CASE EndOfStream
  BY <1>1 DEF EndOfStream
<1>2. CASE ~EndOfStream
  BY <1>2 DEF NoFrame, Fail, NoErr, IInv
<1>3. QED
  BY <1>1, <1>2

\* decodeNextFrame decodes a frame only from a reader that is there.
LEMMA FrameKeeps ==
    ASSUME IInv, NEW f, NEW q, Frame(f, q)
    PROVE  br' \in Nat /\ br' # NoBr /\ done' = done /\ err' = err /\ ~done
BY DEF Frame, IInv, NoBr

\* The rest of the state, which Read and WriteTo leave alone.
Bound == <<src, seekable, failed>>

\* A step of Read or WriteTo on a decoder that has not failed (Read, WriteTo).
LEMMA DeliveryKeeps ==
    ASSUME IInv, err = NoErr, UNCHANGED Bound, src # NoSource,
           writing' = writing \/ writing' = FALSE,
           \/ NoFrame /\ writing' = FALSE
           \/ \E f, q : Frame(f, q)
           \/ UNCHANGED <<br, done, err>>
    PROVE  IInv'
<1>0. ~failed /\ UNCHANGED <<src, seekable, failed>> /\ writing' \in BOOLEAN
  BY DEF IInv, FailedIsInert, Bound
<1>1. CASE NoFrame /\ writing' = FALSE
  BY <1>0, <1>1, NoFrameKeeps DEF IInv, NoNilReader, WritesOnlySound, FailedIsInert
<1>2. CASE \E f, q : Frame(f, q)
  <2>1. br' \in Nat /\ br' # NoBr /\ done' = done /\ err' = err
    BY <1>2, FrameKeeps
  <2>2. QED
    BY <1>0, <2>1 DEF IInv, NoNilReader, WritesOnlySound, FailedIsInert
<1>3. CASE UNCHANGED <<br, done, err>>
  BY <1>0, <1>3 DEF IInv, NoNilReader, WritesOnlySound, FailedIsInert
<1>4. QED
  BY <1>1, <1>2, <1>3

\* A call that finds the decoder failed changes nothing (Read, WriteTo).
LEMMA GateKeeps ==
    ASSUME IInv, UNCHANGED <<Bound, writing, br, done, err, delivered>>
    PROVE  IInv'
BY DEF IInv, NoNilReader, WritesOnlySound, FailedIsInert, Bound

\* Read.
LEMMA ReadKeeps == ASSUME IInv, NEW n, Read(n) PROVE IInv'
<1>1. UNCHANGED Bound /\ writing' = writing /\ ~writing /\ src # NoSource
  BY DEF Read, Usable, Bound, stream
<1>2. CASE err # NoErr
  BY <1>1, <1>2, GateKeeps DEF Read, ReadGate
<1>3. CASE err = NoErr
  <2>1. \/ NoFrame \/ (\E f, q : Frame(f, q)) \/ UNCHANGED <<br, done, err>>
    BY <1>3 DEF Read, ReadGate
  <2>2. writing' = FALSE
    BY <1>1 DEF IInv
  <2>3. QED
    BY <1>1, <1>3, <2>1, <2>2, DeliveryKeeps
<1>4. QED
  BY <1>2, <1>3

\* WriteTo.
LEMMA WriteToKeeps ==
    ASSUME IInv, WriteTo \/ WriteToWrite \/ WriteToDecode PROVE IInv'
<1>1. CASE WriteTo
  <2>1. /\ UNCHANGED <<Bound, br, done, err, delivered>>
        /\ \/ writing' = TRUE /\ err = NoErr /\ src # NoSource
           \/ writing' = writing
    BY <1>1 DEF WriteTo, Usable, ReadGate, Bound, stream
  <2>2. CASE writing' = TRUE /\ err = NoErr /\ src # NoSource
    BY <2>1, <2>2 DEF IInv, NoNilReader, WritesOnlySound, FailedIsInert, Bound
  <2>3. CASE writing' = writing
    BY <2>1, <2>3, GateKeeps
  <2>4. QED
    BY <2>1, <2>2, <2>3
<1>2. CASE WriteToWrite \/ WriteToDecode
  <2>1. writing /\ err = NoErr /\ ~failed /\ UNCHANGED Bound
    BY <1>2 DEF WriteToWrite, WriteToDecode, IInv, WritesOnlySound, FailedIsInert,
                Bound, stream
  <2>2. \/ NoFrame /\ writing' = FALSE
        \/ (\E f, q : Frame(f, q)) /\ writing' = writing
        \/ UNCHANGED <<br, done, err>> /\ (writing' = writing \/ writing' = FALSE)
    BY <1>2 DEF WriteToWrite, WriteToDecode
  <2>3. CASE src # NoSource
    BY <2>1, <2>2, <2>3, DeliveryKeeps
  <2>4. CASE src = NoSource
    <3>1. CASE NoFrame /\ writing' = FALSE
      BY <2>1, <2>4, <3>1, NoFrameKeeps
         DEF IInv, NoNilReader, WritesOnlySound, FailedIsInert, Bound
    <3>2. CASE (\E f, q : Frame(f, q)) /\ writing' = writing
      <4>1. br' \in Nat /\ br' # NoBr /\ done' = done /\ err' = err
        BY <3>2, FrameKeeps
      <4>2. QED
        BY <2>1, <3>2, <4>1 DEF IInv, NoNilReader, WritesOnlySound, FailedIsInert, Bound
    <3>3. CASE UNCHANGED <<br, done, err>> /\ (writing' = writing \/ writing' = FALSE)
      BY <2>1, <3>3 DEF IInv, NoNilReader, WritesOnlySound, FailedIsInert, Bound
    <3>4. QED
      BY <2>2, <3>1, <3>2, <3>3
  <2>5. QED
    BY <2>3, <2>4
<1>3. QED
  BY <1>1, <1>2

\* A seek leaves a reader behind, an error, or the end of the stream (seekFailed, land).
LEMMA SeekKeeps == ASSUME IInv, NEW t, SeekToSample(t) PROVE IInv'
<1>1. /\ src # NoSource /\ src \in Sources /\ ~writing
      /\ UNCHANGED <<src, seekable, failed, writing>>
  BY DEF SeekToSample, Usable, stream, IInv
<1>2. CASE UNCHANGED <<err, br, done, delivered>>
  BY <1>1, <1>2 DEF IInv, NoNilReader, WritesOnlySound, FailedIsInert
<1>3. CASE seekable /\ \E e \in {"io", "truncated"} : SeekFailed(e)
  <2>1. ~failed /\ err' # NoErr /\ br' = NoBr /\ done' \in BOOLEAN
    BY <1>3 DEF SeekFailed, NoErr, IInv, FailedIsInert
  <2>2. QED
    BY <1>1, <2>1 DEF IInv, NoNilReader, WritesOnlySound, FailedIsInert, NoBr
<1>4. CASE seekable /\ \E at : SeekToEnd(at)
  <2>1. ~failed /\ done' = TRUE /\ br' = br
    BY <1>4 DEF SeekToEnd, IInv, FailedIsInert
  <2>2. QED
    BY <1>1, <2>1 DEF IInv, NoNilReader, WritesOnlySound, FailedIsInert
<1>5. CASE seekable /\ \E i \in Holding(t) : LandOn(i, t)
  <2>1. PICK i \in Holding(t) : LandOn(i, t)
    BY <1>5
  <2>2. i \in Nat \ {0}
    BY <1>1, <2>1, SourcesAssumption DEF Holding, SourceOK
  <2>3. ~failed /\ done' = FALSE /\ br' = i + 1
    BY <1>5, <2>1 DEF LandOn, IInv, FailedIsInert
  <2>4. br' \in Nat /\ br' # NoBr
    BY <2>2, <2>3 DEF NoBr
  <2>5. QED
    BY <1>1, <2>3, <2>4 DEF IInv, NoNilReader, WritesOnlySound, FailedIsInert
<1>6. QED
  BY <1>2, <1>3, <1>4, <1>5 DEF SeekToSample

-----------------------------------------------------------------------------
LEMMA Inductive == IInv /\ [Next]_vars => IInv'
<1> SUFFICES ASSUME IInv, [Next]_vars PROVE IInv'
  OBVIOUS
<1>1. CASE \E s \in Sources : Reset(s)
  BY <1>1, ResetKeeps
<1>2. CASE \E n \in ReadSizes : Read(n)
  BY <1>2, ReadKeeps
<1>3. CASE WriteTo \/ WriteToWrite \/ WriteToDecode
  BY <1>3, WriteToKeeps
<1>4. CASE \E t \in Targets : SeekToSample(t)
  BY <1>4, SeekKeeps
<1>5. CASE UNCHANGED vars
  BY <1>5 DEF vars, stream, history, IInv, NoNilReader, WritesOnlySound, FailedIsInert
<1>6. QED
  BY <1>1, <1>2, <1>3, <1>4, <1>5 DEF Next

(***************************************************************************)
(* Nothing is decoded from a reader that a failed seek dropped, whatever    *)
(* seeks, reads and resets follow it (seekFailed, land, decodeNextFrame).   *)
(***************************************************************************)
THEOREM ReaderIsThere == Spec => []NoNilReader
<1>1. IInv => NoNilReader
  BY DEF IInv
<1>2. QED
  BY Initially, Inductive, <1>1, PTL DEF Spec

-----------------------------------------------------------------------------
\* What one step does to a failure: the action of FailureIsSticky.
Sticky ==
    /\ (err # NoErr /\ call' # "reset" /\ ~(call' = "seek" /\ result' = NoErr)) =>
           err' # NoErr /\ delivered' = delivered
    /\ (failed /\ failed') =>
           delivered' = <<>> /\ (call' = "seek" => result' # NoErr)

\* A Reset that fails delivers nothing (Reset, poisonStream).
LEMMA ResetIsSticky == ASSUME IInv, NEW s \in Sources, Reset(s) PROVE Sticky
BY DEF Reset, Sticky

\* Read and WriteTo return the failure they find (Read, WriteTo).
LEMMA ReadIsSticky == ASSUME IInv, NEW n, Read(n) PROVE Sticky
<1>1. src # NoSource /\ failed' = failed /\ call' = "read"
  BY DEF Read, Usable
<1>2. failed => err # NoErr /\ delivered = <<>>
  BY <1>1 DEF IInv, FailedIsInert
<1>3. err # NoErr => err' = err /\ delivered' = delivered
  BY DEF Read, ReadGate
<1>4. QED
  BY <1>1, <1>2, <1>3 DEF Sticky

LEMMA WriteIsSticky ==
    ASSUME IInv, WriteTo \/ WriteToWrite \/ WriteToDecode PROVE Sticky
<1>1. CASE WriteTo
  BY <1>1 DEF WriteTo, Sticky, IInv, FailedIsInert
<1>2. CASE WriteToWrite \/ WriteToDecode
  <2>1. err = NoErr /\ ~failed
    BY <1>2 DEF WriteToWrite, WriteToDecode, IInv, WritesOnlySound, FailedIsInert
  <2>2. failed' = failed
    BY <1>2 DEF WriteToWrite, WriteToDecode
  <2>3. QED
    BY <2>1, <2>2 DEF Sticky
<1>3. QED
  BY <1>1, <1>2

\* A seek that fails keeps the failure, and after a failed Reset there is only
\* the refusal of a stream that cannot seek (SeekToSample, seekFailed).
LEMMA SeekIsSticky == ASSUME IInv, NEW t, SeekToSample(t) PROVE Sticky
<1>1. call' = "seek" /\ failed' = failed
  BY DEF SeekToSample
<1>2. CASE failed
  <2>1. ~seekable /\ delivered = <<>>
    BY <1>2 DEF IInv, FailedIsInert
  <2>2. result' = "noseek" /\ UNCHANGED <<err, delivered>>
    BY <2>1 DEF SeekToSample
  <2>3. QED
    BY <1>1, <2>1, <2>2 DEF Sticky, NoErr
<1>3. CASE ~failed
  <2>1. \/ UNCHANGED <<err, delivered>>
        \/ \E e \in {"io", "truncated"} : SeekFailed(e)
        \/ \E at : SeekToEnd(at)
        \/ \E i \in Holding(t) : LandOn(i, t)
    BY DEF SeekToSample
  <2>2. result' = NoErr \/ (delivered' = delivered /\ (err' = err \/ err' # NoErr))
    BY <2>1 DEF SeekFailed, SeekToEnd, LandOn, NoErr
  <2>3. QED
    BY <1>1, <1>3, <2>2 DEF Sticky
<1>4. QED
  BY <1>2, <1>3

LEMMA StepIsSticky == IInv /\ [Next]_vars => [Sticky]_vars
<1> SUFFICES ASSUME IInv, Next PROVE Sticky
  BY DEF Sticky
<1>1. CASE \E s \in Sources : Reset(s)
  BY <1>1, ResetIsSticky
<1>2. CASE \E n \in ReadSizes : Read(n)
  BY <1>2, ReadIsSticky
<1>3. CASE WriteTo \/ WriteToWrite \/ WriteToDecode
  BY <1>3, WriteIsSticky
<1>4. CASE \E t \in Targets : SeekToSample(t)
  BY <1>4, SeekIsSticky
<1>5. QED
  BY <1>1, <1>2, <1>3, <1>4 DEF Next

(***************************************************************************)
(* Only a Reset, or a seek that succeeds, clears a failure, and nothing is  *)
(* delivered while it lasts; after a Reset that failed no seek succeeds     *)
(* (the gates of Read and WriteTo, seekFailed, poisonStream).               *)
(***************************************************************************)
THEOREM FailuresLast == Spec => FailureIsSticky
<1>1. IInv /\ [Next]_vars => [Sticky]_vars
  BY StepIsSticky
<1>2. [][Sticky]_vars => FailureIsSticky
  BY DEF Sticky, FailureIsSticky
<1>3. QED
  BY Initially, Inductive, <1>1, <1>2, PTL DEF Spec

-----------------------------------------------------------------------------
(* Runs of audio.                                                           *)

Widths == {Native, Converted}

\* A run of audio has the length and the samples asked for.
LEMMA AudioType ==
    ASSUME NEW a \in Nat, NEW n \in Nat, NEW w \in Widths
    PROVE  /\ Audio(a, n, w) \in Seq(Nat \X {w})
           /\ Len(Audio(a, n, w)) = n
           /\ \A i \in 1..n : Audio(a, n, w)[i] = <<a + i - 1, w>>
<1>1. \A i \in 1..n : <<a + i - 1, w>> \in Nat \X {w}
  OBVIOUS
<1>2. Audio(a, n, w) \in [1..n -> Nat \X {w}]
  BY <1>1 DEF Audio
<1>3. Audio(a, n, w) \in Seq(Nat \X {w})
  BY <1>2
<1>4. QED
  BY <1>2, <1>3 DEF Audio

\* Two runs that follow one another are one run.
LEMMA AudioJoin ==
    ASSUME NEW a \in Nat, NEW n \in Nat, NEW m \in Nat, NEW w \in Widths
    PROVE  Audio(a, n, w) \o Audio(a + n, m, w) = Audio(a, n + m, w)
<1> DEFINE s == Audio(a, n, w)  t == Audio(a + n, m, w)  u == Audio(a, n + m, w)
           S == Nat \X {w}
<1>1. s \in Seq(S) /\ Len(s) = n /\ \A i \in 1..n : s[i] = <<a + i - 1, w>>
  BY AudioType
<1>2. a + n \in Nat /\ n + m \in Nat
  OBVIOUS
<1>3. t \in Seq(S) /\ Len(t) = m /\ \A i \in 1..m : t[i] = <<a + n + i - 1, w>>
  BY <1>2, AudioType
<1>4. u \in Seq(S) /\ Len(u) = n + m /\ \A i \in 1..(n + m) : u[i] = <<a + i - 1, w>>
  BY <1>2, AudioType
<1> HIDE DEF s, t, u, S
<1>5. /\ s \o t \in Seq(S) /\ Len(s \o t) = n + m
      /\ \A i \in 1..(n + m) : (s \o t)[i] = IF i <= n THEN s[i] ELSE t[i - n]
  BY <1>1, <1>3, ConcatProperties
<1>6. ASSUME NEW i \in 1..(n + m)
      PROVE  (s \o t)[i] = u[i]
  <2>1. CASE i <= n
    <3>1. i \in 1..n
      BY <2>1
    <3>2. s[i] = <<a + i - 1, w>> /\ (s \o t)[i] = s[i]
      BY <2>1, <3>1, <1>1, <1>5
    <3>3. QED
      BY <3>2, <1>4
  <2>2. CASE i > n
    <3>1. i - n \in 1..m
      BY <2>2
    <3>2. (s \o t)[i] = t[i - n]
      BY <2>2, <1>5
    <3>3. t[i - n] = <<a + n + (i - n) - 1, w>>
      BY <3>1, <1>3
    <3>4. a + n + (i - n) - 1 = a + i - 1
      OBVIOUS
    <3>5. QED
      BY <3>2, <3>3, <3>4, <1>4
  <2>3. i <= n \/ i > n
    OBVIOUS
  <2>4. QED
    BY <2>1, <2>2, <2>3, Zenon
<1>7. s \o t = u
  BY <1>4, <1>5, <1>6, SeqEqual
<1>8. QED
  BY <1>7 DEF s, t, u

\* The audio from the first sample on grows by what follows it.
LEMMA AudioGrows ==
    ASSUME NEW n \in Nat, NEW m \in Nat, NEW w \in Widths
    PROVE  Audio(0, n, w) \o Audio(n, m, w) = Audio(0, n + m, w)
<1>1. Audio(0, n, w) \o Audio(0 + n, m, w) = Audio(0, n + m, w)
  <2>1. 0 \in Nat
    OBVIOUS
  <2>2. QED
    BY <2>1, AudioJoin, Zenon
<1>2. 0 + n = n
  OBVIOUS
<1>3. QED
  BY <1>1, <1>2

\* The part of a run between two places is a run.
LEMMA AudioCut ==
    ASSUME NEW a \in Nat, NEW n \in Nat, NEW w \in Widths, NEW k \in 0..n, NEW l \in k..n
    PROVE  SubSeq(Audio(a, n, w), k + 1, l) = Audio(a + k, l - k, w)
<1> DEFINE s == Audio(a, n, w)  u == Audio(a + k, l - k, w)  c == SubSeq(s, k + 1, l)
           S == Nat \X {w}
<1>1. s \in Seq(S) /\ Len(s) = n /\ \A i \in 1..n : s[i] = <<a + i - 1, w>>
  BY AudioType
<1>2. a + k \in Nat /\ l - k \in Nat /\ k + 1 \in Int /\ l \in Int
  OBVIOUS
<1>3. u \in Seq(S) /\ Len(u) = l - k /\ \A i \in 1..(l - k) : u[i] = <<a + k + i - 1, w>>
  BY <1>2, AudioType
<1>4. \A i \in (k + 1)..l : s[i] \in S
  <2>1. TAKE i \in (k + 1)..l
  <2>2. i \in 1..n /\ a + i - 1 \in Nat
    OBVIOUS
  <2>3. QED
    BY <2>2, <1>1
<1> HIDE DEF s, u, S
<1>5. /\ c \in Seq(S)
      /\ Len(c) = IF k + 1 <= l THEN l - (k + 1) + 1 ELSE 0
      /\ \A i \in 1..(l - (k + 1) + 1) : c[i] = s[k + 1 + i - 1]
  BY <1>2, <1>4, SubSeqProperties
<1> HIDE DEF c
<1>6. Len(c) = l - k
  BY <1>5
<1>7. ASSUME NEW i \in 1..(l - k)
      PROVE  c[i] = u[i]
  <2>1. k + 1 + i - 1 = k + i /\ k + i \in 1..n /\ i \in 1..(l - (k + 1) + 1)
    OBVIOUS
  <2>2. c[i] = s[k + i]
    BY <2>1, <1>5
  <2>3. s[k + i] = <<a + (k + i) - 1, w>>
    BY <2>1, <1>1
  <2>4. a + (k + i) - 1 = a + k + i - 1
    OBVIOUS
  <2>5. QED
    BY <2>2, <2>3, <2>4, <1>3
<1>8. c = u
  BY <1>3, <1>5, <1>6, <1>7, SeqEqual
<1>9. QED
  BY <1>8 DEF s, u, c

\* A run of no samples is the empty sequence, and the only one.
LEMMA AudioNone ==
    ASSUME NEW a \in Nat, NEW n \in Nat, NEW w \in Widths
    PROVE  Audio(a, n, w) = <<>> <=> n = 0
<1>1. Audio(a, n, w) \in Seq(Nat \X {w}) /\ Len(Audio(a, n, w)) = n
  BY AudioType
<1> HIDE DEF Audio
<1>2. QED
  BY <1>1, EmptySeq

\* What Take and Drop make of a run.
LEMMA TakeDrop ==
    ASSUME NEW a \in Nat, NEW n \in Nat, NEW w \in Widths, NEW k \in 0..n
    PROVE  /\ Take(Audio(a, n, w), k) = Audio(a, k, w)
           /\ Drop(Audio(a, n, w), k) = Audio(a + k, n - k, w)
<1>1. SubSeq(Audio(a, n, w), 0 + 1, k) = Audio(a + 0, k - 0, w)
  <2>1. 0 \in 0..n /\ k \in 0..n
    OBVIOUS
  <2>2. QED
    BY <2>1, AudioCut, Zenon
<1>2. SubSeq(Audio(a, n, w), k + 1, n) = Audio(a + k, n - k, w)
  <2>1. n \in k..n
    OBVIOUS
  <2>2. QED
    BY <2>1, AudioCut, Zenon
<1>3. Len(Audio(a, n, w)) = n
  BY AudioType
<1>4. a + 0 = a /\ k - 0 = k /\ 0 + 1 = 1
  OBVIOUS
<1>5. QED
  BY <1>1, <1>2, <1>3, <1>4 DEF Take, Drop

-----------------------------------------------------------------------------
(* The audio that is delivered, and the verdict at its end.                 *)

\* The position of the frame that a reader is at.
Place(s, i) == IF i <= Len(s.frames) THEN s.frames[i].first ELSE EndOf(s)

Errors == {NoErr, "io", "header", "unsupported", "md5", "truncated", "crc"}

AudioTyped ==
    /\ width \in Widths
    /\ decoded \in Nat /\ origin \in Nat
    /\ seeked \in BOOLEAN /\ skipMD5 \in BOOLEAN /\ moved \in BOOLEAN
    /\ err \in Errors
    /\ info = NoInfo \/ (src \in Sources /\ info = src.info)
    /\ Len(delivered) \in Nat /\ Len(pending) \in Nat
    /\ writing => src # NoSource

\* What was delivered since the position last reported, and what comes next.
Delivering ==
    /\ delivered = Audio(origin, Len(delivered), width)
    /\ pending = Audio(origin + Len(delivered), Len(pending), width)
    /\ (src # NoSource /\ err = NoErr /\ ~done) =>
           origin + Len(delivered) + Len(pending) = Place(src, br)

\* What was decoded and hashed of a stream that is read from its start.
Counting ==
    /\ ~seeked /\ ~skipMD5 => hashed = Audio(0, decoded, Native)
    /\ (src # NoSource /\ ~seeked /\ err = NoErr /\ ~done) => decoded = Place(src, br)
    /\ ~moved => ~seeked /\ origin = 0 /\ decoded = Len(delivered) + Len(pending)

\* What the end of the stream, or a failure, said.
Ending ==
    /\ (done /\ err = NoErr /\ ~moved) => Verdict = NoErr
    /\ (result = "eof" /\ ~moved) => done /\ err = NoErr /\ pending = <<>>
    /\ err = "md5" => Held(src) # info.md5
    /\ err = "truncated" => CutOff \/ EndOf(src) < info.total

AInv == AudioTyped /\ Delivering /\ Counting /\ Ending

\* Where the frames of a source are.
LEMMA FramePlaces ==
    ASSUME NEW s \in Sources
    PROVE  /\ Len(s.frames) \in Nat /\ DOMAIN s.frames = 1..Len(s.frames)
           /\ Place(s, 1) = 0 /\ EndOf(s) \in Nat /\ s.info.total \in Nat
           /\ \A i \in 1..Len(s.frames) :
                  /\ s.frames[i].first \in Nat /\ s.frames[i].block \in Nat \ {0}
                  /\ Place(s, i) = s.frames[i].first
                  /\ Place(s, i + 1) = s.frames[i].first + s.frames[i].block
                  /\ s.info.total # 0 => s.frames[i].first <= s.info.total
<1>1. SourceOK(s) /\ InSequence(s)
  BY SourcesAssumption, FramesFollowAssumption
<1>2. Len(s.frames) \in Nat /\ DOMAIN s.frames = 1..Len(s.frames) /\ s.info.total \in Nat
  BY <1>1 DEF SourceOK, InSequence
<1>3. \A i \in 1..Len(s.frames) :
          s.frames[i].first \in Nat /\ s.frames[i].block \in Nat \ {0}
  BY <1>1, <1>2 DEF SourceOK
<1>4. EndOf(s) \in Nat
  <2>1. CASE Len(s.frames) = 0
    BY <2>1 DEF EndOf
  <2>2. CASE Len(s.frames) # 0
    <3>1. Len(s.frames) \in 1..Len(s.frames)
      BY <2>2, <1>2
    <3>2. QED
      BY <2>2, <3>1, <1>3 DEF EndOf
  <2>3. QED
    BY <2>1, <2>2
<1>5. Place(s, 1) = 0
  BY <1>1, <1>2 DEF InSequence, Place, EndOf
<1>6. ASSUME NEW i \in 1..Len(s.frames)
      PROVE  /\ s.frames[i].first \in Nat /\ s.frames[i].block \in Nat \ {0}
             /\ Place(s, i) = s.frames[i].first
             /\ Place(s, i + 1) = s.frames[i].first + s.frames[i].block
             /\ s.info.total # 0 => s.frames[i].first <= s.info.total
  <2>1. Place(s, i) = s.frames[i].first
    BY <1>2 DEF Place
  <2>2. s.info.total # 0 => s.frames[i].first <= s.info.total
    BY <1>1, <1>2 DEF InSequence
  <2>3. Place(s, i + 1) = s.frames[i].first + s.frames[i].block
    <3>1. CASE i = Len(s.frames)
      BY <3>1, <1>2 DEF Place, EndOf
    <3>2. CASE i # Len(s.frames)
      <4>1. i \in 1..Len(s.frames) - 1 /\ i + 1 <= Len(s.frames)
        BY <3>2, <1>2
      <4>2. QED
        BY <4>1, <1>1 DEF InSequence, Place
    <3>3. QED
      BY <3>1, <3>2
  <2>4. QED
    BY <2>1, <2>2, <2>3, <1>3
<1>7. QED
  BY <1>2, <1>4, <1>5, <1>6

\* The empty audio at any place.
LEMMA NoAudio == ASSUME NEW a \in Nat, NEW w \in Widths PROVE <<>> = Audio(a, 0, w)
BY AudioNone

\* A new decoder has delivered nothing (NewDecoder).
LEMMA AudioInitially == Init => AInv
<1> SUFFICES ASSUME Init PROVE AInv
  OBVIOUS
<1>1. /\ src = NoSource /\ info = NoInfo /\ pending = <<>> /\ hashed = <<>> /\ decoded = 0
      /\ seeked = FALSE /\ skipMD5 = FALSE /\ done = FALSE /\ err = NoErr /\ width = Native
      /\ result = NoErr /\ moved = FALSE /\ origin = 0 /\ delivered = <<>> /\ writing = FALSE
  BY DEF Init
<1>2. Len(<<>>) = 0
  BY EmptySeq
<1>3. AudioTyped
  BY <1>1, <1>2 DEF AudioTyped, Errors, Widths
<1>4. Delivering
  BY <1>1, <1>2, NoAudio DEF Widths, Delivering
<1>5. Counting
  BY <1>1, <1>2, NoAudio DEF Widths, Counting
<1>6. Ending
  BY <1>1 DEF Ending, NoErr
<1>7. QED
  BY <1>3, <1>4, <1>5, <1>6 DEF AInv

\* A Reset starts a stream at its first sample, or leaves nothing to read (init,
\* applyOptions, poisonStream).
LEMMA ResetAudio == ASSUME AInv, NEW s \in Sources, Reset(s) PROVE AInv'
<1>1. /\ src' = s /\ br' = 1 /\ pending' = <<>> /\ hashed' = <<>> /\ decoded' = 0
      /\ seeked' = FALSE /\ done' = FALSE /\ moved' = FALSE /\ origin' = 0
      /\ delivered' = <<>> /\ ~writing'
      /\ width' \in Widths /\ skipMD5' \in BOOLEAN
      /\ info' = NoInfo \/ info' = s.info
      /\ err' \in {NoErr, "io", "header", "unsupported"} /\ result' = err'
  <2>1. /\ src' = s /\ br' = 1 /\ hashed' = <<>> /\ moved' = FALSE /\ origin' = 0
        /\ delivered' = <<>> /\ writing' = writing /\ ~writing
        /\ \/ \E e \in {"io", "header", "unsupported"} : Poison(e)
           \/ \E sk, skip \in BOOLEAN, w \in Widths : Open(s, sk, skip, w)
    BY DEF Reset, RejectOptions, Widths
  <2>2. CASE \E e \in {"io", "header", "unsupported"} : Poison(e)
    BY <2>1, <2>2 DEF Poison, ClearStream, Widths
  <2>3. CASE \E sk, skip \in BOOLEAN, w \in Widths : Open(s, sk, skip, w)
    BY <2>1, <2>3 DEF Open, ClearStream, Widths
  <2>4. QED
    BY <2>1, <2>2, <2>3
<1>2. Len(<<>>) = 0
  BY EmptySeq
<1>3. Place(s, 1) = 0
  BY FramePlaces
<1>4. AudioTyped'
  BY <1>1, <1>2 DEF AudioTyped, Errors, Widths
<1>5. Delivering'
  BY <1>1, <1>2, <1>3, NoAudio DEF Widths, Delivering
<1>6. Counting'
  BY <1>1, <1>2, <1>3, NoAudio DEF Widths, Counting
<1>7. Ending'
  BY <1>1 DEF Ending, NoErr
<1>8. QED
  BY <1>4, <1>5, <1>6, <1>7 DEF AInv

\* What is not the audio itself, and what reading leaves alone of it.
Kept == <<src, info, width, origin, seeked, skipMD5, moved>>

\* Audio that moves from the pending to the delivered (Read, WriteTo).
LEMMA Deliveries ==
    ASSUME AudioTyped, NEW a \in Nat, NEW n \in Nat, NEW k \in 0..n,
           delivered = Audio(origin, a, width),
           delivered' = delivered \o Take(Audio(origin + a, n, width), k),
           pending' = Drop(Audio(origin + a, n, width), k),
           width' = width, origin' = origin
    PROVE  /\ Len(delivered') = a + k /\ Len(pending') = n - k
           /\ delivered' = Audio(origin', a + k, width')
           /\ pending' = Audio(origin' + (a + k), n - k, width')
<1>1. origin \in Nat /\ origin + a \in Nat /\ k \in Nat /\ n - k \in Nat /\ a + k \in Nat
      /\ origin + (a + k) \in Nat /\ (origin + a) + k = origin + (a + k)
  BY DEF AudioTyped
<1>2. /\ Take(Audio(origin + a, n, width), k) = Audio(origin + a, k, width)
      /\ Drop(Audio(origin + a, n, width), k) = Audio((origin + a) + k, n - k, width)
  BY <1>1, TakeDrop DEF AudioTyped
<1>3. Audio(origin, a, width) \o Audio(origin + a, k, width) = Audio(origin, a + k, width)
  <2>1. width \in Widths /\ origin \in Nat /\ k \in Nat
    BY DEF AudioTyped
  <2>2. QED
    BY <2>1, AudioJoin, Zenon
<1>4. /\ delivered' = Audio(origin', a + k, width')
      /\ pending' = Audio(origin' + (a + k), n - k, width')
  BY <1>1, <1>2, <1>3
<1>5. width \in Widths
  BY DEF AudioTyped
<1>6. /\ Len(Audio(origin, a + k, width)) = a + k
      /\ Len(Audio(origin + (a + k), n - k, width)) = n - k
  <2>1. Len(Audio(origin, a + k, width)) = a + k
    BY <1>1, <1>5, AudioType, Zenon
  <2>2. Len(Audio(origin + (a + k), n - k, width)) = n - k
    BY <1>1, <1>5, AudioType, Zenon
  <2>3. QED
    BY <2>1, <2>2
<1>7. QED
  BY <1>4, <1>6

\* A part of the pending audio is delivered (Read's copy, WriteTo's write).
LEMMA PendingDelivered ==
    ASSUME AInv, NEW k \in 0..Len(pending), pending # <<>>,
           UNCHANGED <<Kept, br, hashed, decoded, done, err>>,
           writing' => writing,
           Deliver(pending, k), pending' = Drop(pending, k),
           result' = result \/ result' \in {NoErr, "write"}
    PROVE  AInv'
<1>1. UNCHANGED <<src, info, width, origin, seeked, skipMD5, moved, br, hashed, decoded,
                  done, err>>
  BY DEF Kept
<1> DEFINE a == Len(delivered)  n == Len(pending)
<1>2. a \in Nat /\ n \in Nat
  BY DEF AInv, AudioTyped
<1>3. delivered = Audio(origin, a, width) /\ pending = Audio(origin + a, n, width)
  BY DEF AInv, Delivering
<1>4. /\ Len(delivered') = a + k /\ Len(pending') = n - k
      /\ delivered' = Audio(origin', a + k, width')
      /\ pending' = Audio(origin' + (a + k), n - k, width')
  <2> HIDE DEF a, n
  <2>1. k \in 0..n
    BY DEF n
  <2>2. delivered' = delivered \o Take(Audio(origin + a, n, width), k)
    BY <1>3 DEF Deliver
  <2>3. pending' = Drop(Audio(origin + a, n, width), k)
    BY <1>3
  <2>4. AudioTyped
    BY DEF AInv
  <2>5. QED
    BY <1>1, <1>2, <1>3, <2>1, <2>2, <2>3, <2>4, Deliveries
<1>5. AudioTyped'
  BY <1>1, <1>2, <1>4 DEF AInv, AudioTyped
<1>6. Delivering'
  <2>1. origin + a + n = origin + (a + k) + (n - k)
    BY <1>2 DEF AInv, AudioTyped
  <2>2. Place(src', br') = Place(src, br)
    BY <1>1
  <2>3. QED
    BY <1>1, <1>4, <2>1, <2>2 DEF AInv, Delivering
<1>7. Counting'
  <2>1. a + n = (a + k) + (n - k)
    BY <1>2
  <2>2. QED
    BY <1>1, <1>4, <2>1 DEF AInv, Counting
<1>8. Ending'
  <2>1. result' = "eof" => moved
    BY DEF AInv, Ending, NoErr
  <2>2. Verdict' = Verdict /\ CutOff' = CutOff
    BY <1>1 DEF Verdict, CutOff
  <2>3. QED
    BY <1>1, <2>1, <2>2 DEF AInv, Ending
<1>9. QED
  BY <1>5, <1>6, <1>7, <1>8 DEF AInv

\* A frame is decoded, and a part of it delivered (decodeNextFrame, packFrame).
LEMMA FrameDelivered ==
    ASSUME IInv, AInv, NEW f, NEW k \in Nat, k <= f.block, pending = <<>>,
           src # NoSource, err = NoErr,
           UNCHANGED Kept, writing' => writing,
           Frame(f, Drop(Pack(f, width), k)), Deliver(Pack(f, width), k)
    PROVE  AInv'
<1>1. /\ UNCHANGED <<src, info, width, origin, seeked, skipMD5, moved, done, err>>
      /\ ~done /\ br <= Len(src.frames) /\ f = src.frames[br] /\ result' = NoErr
      /\ br' = br + 1 /\ decoded' = decoded + f.block /\ hashed' = Hashed(f)
  BY DEF Kept, Frame
<1> DEFINE a == Len(delivered)
<1>2. a \in Nat /\ width \in Widths /\ origin \in Nat /\ decoded \in Nat
  BY DEF AInv, AudioTyped
<1>3. br \in 1..Len(src.frames) /\ src \in Sources
  BY <1>1, FramePlaces DEF IInv, NoNilReader, NoBr
<1>4. /\ f.first \in Nat /\ f.block \in Nat \ {0}
      /\ Place(src, br) = f.first /\ Place(src, br + 1) = f.first + f.block
  BY <1>1, <1>3, FramePlaces
<1>5. Len(pending) = 0
  BY EmptySeq
<1>6. origin + a = f.first /\ (~seeked => decoded = f.first)
  BY <1>1, <1>2, <1>4, <1>5 DEF AInv, Delivering, Counting
<1>7. delivered = Audio(origin, a, width)
  BY DEF AInv, Delivering
<1>8. /\ Len(delivered') = a + k /\ Len(pending') = f.block - k
      /\ delivered' = Audio(origin', a + k, width')
      /\ pending' = Audio(origin' + (a + k), f.block - k, width')
  <2> HIDE DEF a
  <2>1. k \in 0..f.block /\ f.block \in Nat
    BY <1>4
  <2>2. Pack(f, width) = Audio(origin + a, f.block, width)
    BY <1>6 DEF Pack
  <2>3. /\ delivered' = delivered \o Take(Audio(origin + a, f.block, width), k)
        /\ pending' = Drop(Audio(origin + a, f.block, width), k)
    BY <2>2 DEF Frame, Deliver
  <2>4. AudioTyped
    BY DEF AInv
  <2>5. width' = width /\ origin' = origin
    BY <1>1
  <2>6. a \in Nat
    BY <1>2
  <2>7. QED
    BY <1>7, <2>1, <2>3, <2>4, <2>5, <2>6, Deliveries
<1>9. AudioTyped'
  <2>1. Len(delivered') \in Nat /\ Len(pending') \in Nat /\ decoded' \in Nat
    <3> DEFINE b == f.block
    <3>1. b \in Nat /\ k <= b
      BY <1>4
    <3>2. Len(delivered') = a + k /\ Len(pending') = b - k /\ decoded' = decoded + b
      BY <1>1, <1>8
    <3> HIDE DEF a, b
    <3>3. QED
      BY <1>2, <3>1, <3>2
  <2>2. QED
    BY <1>1, <2>1 DEF AInv, AudioTyped
<1>10. Delivering'
  <2>1. origin + (a + k) + (f.block - k) = Place(src, br + 1)
    BY <1>2, <1>4, <1>6
  <2>2. QED
    BY <1>1, <1>8, <2>1 DEF Delivering
<1>11. Counting'
  <2> DEFINE b == f.block
  <2>0. b \in Nat
    BY <1>4
  <2> HIDE DEF a, b
  <2>1. ASSUME ~seeked, ~skipMD5
        PROVE  hashed' = Audio(0, decoded', Native)
    <3>1. hashed = Audio(0, decoded, Native)
      BY <2>1 DEF AInv, Counting
    <3>2. hashed' = Audio(0, decoded, Native) \o Audio(decoded, f.block, Native)
      <4>1. hashed' = hashed \o Pack(f, Native)
        BY <1>1, <2>1 DEF Hashed
      <4>2. Pack(f, Native) = Audio(decoded, f.block, Native)
        BY <1>6, <2>1 DEF Pack
      <4>3. QED
        BY <3>1, <4>1, <4>2
    <3>3. decoded \in Nat /\ f.block \in Nat /\ Native \in Widths
      BY <1>2, <1>4 DEF Widths
    <3>4. Audio(0, decoded, Native) \o Audio(decoded, f.block, Native)
              = Audio(0, decoded + f.block, Native)
      BY <3>3, AudioGrows, Zenon
    <3>5. QED
      BY <1>1, <3>2, <3>4
  <2>2. ~seeked => decoded' = Place(src, br + 1)
    BY <1>1, <1>4, <1>6
  <2>3. ~moved => decoded' = (a + k) + (b - k)
    <3>1. ~moved => decoded = a + 0
      BY <1>5 DEF AInv, Counting, a
    <3>2. a + 0 + b = (a + k) + (b - k)
      BY <1>2, <2>0
    <3>3. decoded' = decoded + b
      BY <1>1 DEF b
    <3>4. QED
      BY <3>1, <3>2, <3>3
  <2>4. QED
    BY <1>1, <1>8, <2>1, <2>2, <2>3 DEF AInv, Counting, b
<1>12. Ending'
  <2>1. err' = NoErr /\ ~done' /\ result' = NoErr
    BY <1>1
  <2>2. QED
    BY <2>1 DEF Ending, NoErr
<1>13. QED
  BY <1>9, <1>10, <1>11, <1>12 DEF AInv

\* The end of the stream, and its verdict, or a failure (decodeNextFrame, finish).
LEMMA NoFrameAudio ==
    ASSUME IInv, AInv, NoFrame, pending = <<>>, src # NoSource, err = NoErr,
           UNCHANGED Kept, writing' => writing
    PROVE  AInv'
<1>1. UNCHANGED <<src, info, width, origin, seeked, skipMD5, moved, br, hashed, decoded,
                  pending, delivered>>
  BY DEF Kept, NoFrame, EndOfStream, Fail
<1>2. Verdict' = Verdict /\ CutOff' = CutOff
  BY <1>1 DEF Verdict, CutOff
<1>3. \/ /\ done' /\ result' = "eof" /\ err' = NoErr /\ done
      \/ /\ EndOfStream
      \/ /\ err' \in {"io", "crc", "truncated"} /\ result' = err'
         /\ err' = "truncated" => CutOff
  <2>1. CASE done /\ NoFrame
    BY <2>1 DEF NoFrame, EndOfStream
  <2>2. CASE ~done /\ Fail("io")
    BY <2>2 DEF Fail
  <2>3. CASE /\ ~done /\ br <= Len(src.frames)
             /\ \/ src.frames[br].state = "bad" /\ Fail("crc")
                \/ src.frames[br].state = "cut" /\ Fail("truncated")
    <3>1. br \in DOMAIN src.frames
      BY <2>3, FramePlaces DEF IInv, NoNilReader, NoBr
    <3>2. QED
      BY <2>3, <3>1 DEF Fail, CutOff, Range
  <2>4. QED
    BY <2>1, <2>2, <2>3 DEF NoFrame
<1>4. CASE done' /\ result' = "eof" /\ err' = NoErr /\ done
  BY <1>1, <1>2, <1>4 DEF AInv, AudioTyped, Delivering, Counting, Ending
<1>5. CASE EndOfStream
  <2>1. /\ done' = TRUE /\ err' = Verdict /\ ~done /\ br > Len(src.frames)
        /\ result' = IF Verdict = NoErr THEN "eof" ELSE Verdict
    BY <1>5 DEF EndOfStream
  <2>2. Place(src, br) = EndOf(src)
    BY <2>1, FramePlaces DEF Place, IInv
  <2>3. Verdict \in {NoErr, "md5", "truncated"}
    BY DEF Verdict
  <2>4. Verdict = "md5" => Held(src) # info.md5
    BY <2>1, <2>2 DEF Verdict, AInv, Counting, Held, NoErr
  <2>5. Verdict = "truncated" => EndOf(src) < info.total
    BY <2>1, <2>2 DEF Verdict, AInv, Counting, NoErr
  <2>6. AudioTyped'
    BY <1>1, <2>1, <2>3 DEF AInv, AudioTyped, Errors
  <2>7. Delivering' /\ Counting'
    BY <1>1, <2>1 DEF AInv, Delivering, Counting
  <2>8. Ending'
    BY <1>1, <1>2, <2>1, <2>3, <2>4, <2>5 DEF Ending, NoErr
  <2>9. QED
    BY <2>6, <2>7, <2>8 DEF AInv
<1>6. CASE /\ err' \in {"io", "crc", "truncated"} /\ result' = err'
           /\ err' = "truncated" => CutOff
  <2>1. AudioTyped'
    BY <1>1, <1>6 DEF AInv, AudioTyped, Errors
  <2>2. Delivering' /\ Counting'
    BY <1>1, <1>6 DEF AInv, Delivering, Counting, NoErr
  <2>3. Ending'
    BY <1>1, <1>2, <1>6 DEF Ending, NoErr
  <2>4. QED
    BY <2>1, <2>2, <2>3 DEF AInv
<1>7. QED
  BY <1>3, <1>4, <1>5, <1>6

\* A call that moves no audio: one that is refused, or that WriteTo opens.
LEMMA IdleAudio ==
    ASSUME AInv, UNCHANGED <<Kept, br, pending, hashed, decoded, done, err, delivered>>,
           result' = result \/ result' # "eof",
           writing' => writing \/ src # NoSource
    PROVE  AInv'
<1>1. UNCHANGED <<src, info, width, origin, seeked, skipMD5, moved, br, pending, hashed,
                  decoded, done, err, delivered>>
  BY DEF Kept
<1>2. Verdict' = Verdict /\ CutOff' = CutOff
  BY <1>1 DEF Verdict, CutOff
<1>3. AudioTyped'
  BY <1>1 DEF AInv, AudioTyped
<1>4. Delivering' /\ Counting'
  BY <1>1 DEF AInv, Delivering, Counting
<1>5. Ending'
  BY <1>1, <1>2 DEF AInv, Ending
<1>6. QED
  BY <1>3, <1>4, <1>5 DEF AInv

\* Read, into a buffer smaller or larger than what is there.
LEMMA ReadAudio == ASSUME IInv, AInv, NEW n \in ReadSizes, Read(n) PROVE AInv'
<1>1. /\ UNCHANGED Kept /\ writing' = writing /\ src # NoSource
      /\ n \in Nat /\ n > 0
  BY CallAssumption DEF Read, Usable, Kept, stream
<1>2. err # "eof"
  BY DEF AInv, AudioTyped, Errors, NoErr
<1>3. CASE /\ ~ReadGate /\ result' = err
           /\ UNCHANGED <<br, pending, hashed, decoded, done, err, delivered>>
  BY <1>1, <1>2, <1>3, IdleAudio
<1>4. CASE /\ ReadGate /\ pending # <<>>
           /\ pending' = Drop(pending, Least(n, Len(pending)))
           /\ Deliver(pending, Least(n, Len(pending)))
           /\ result' = NoErr
           /\ UNCHANGED <<br, hashed, decoded, done, err>>
  <2>1. Least(n, Len(pending)) \in 0..Len(pending)
    BY <1>1 DEF Least, AInv, AudioTyped
  <2>2. QED
    BY <1>1, <1>4, <2>1, PendingDelivered
<1>5. CASE ReadGate /\ pending = <<>> /\ NoFrame
  BY <1>1, <1>5, NoFrameAudio DEF ReadGate
<1>6. CASE /\ ReadGate /\ pending = <<>>
           /\ \E f \in Range(src.frames) :
                  /\ Frame(f, Drop(Pack(f, width), Least(n, f.block)))
                  /\ Deliver(Pack(f, width), Least(n, f.block))
  <2>1. PICK f \in Range(src.frames) :
            /\ Frame(f, Drop(Pack(f, width), Least(n, f.block)))
            /\ Deliver(Pack(f, width), Least(n, f.block))
    BY <1>6
  <2>2. src \in Sources
    BY <1>1 DEF IInv
  <2>3. f.block \in Nat
    BY <2>2, FramePlaces DEF Range
  <2>4. Least(n, f.block) \in Nat /\ Least(n, f.block) <= f.block
    BY <1>1, <2>3 DEF Least
  <2>5. QED
    BY <1>1, <1>6, <2>1, <2>4, FrameDelivered DEF ReadGate
<1>7. QED
  BY <1>3, <1>4, <1>5, <1>6 DEF Read

\* WriteTo, whose writer may fail with any part of the audio taken.
LEMMA WriteToAudio ==
    ASSUME IInv, AInv, WriteTo \/ WriteToWrite \/ WriteToDecode PROVE AInv'
<1>1. err # "eof" /\ NoErr # "eof"
  BY DEF AInv, AudioTyped, Errors, NoErr
<1>2. CASE WriteTo
  <2>1. /\ UNCHANGED <<Kept, br, pending, hashed, decoded, done, err, delivered>>
        /\ src # NoSource /\ (result' = result \/ result' = err)
    BY <1>2 DEF WriteTo, Usable, Kept, stream
  <2>2. QED
    BY <1>1, <2>1, IdleAudio
<1>3. CASE WriteToWrite
  <2>1. PICK n \in 0 .. Len(pending) :
            /\ pending' = Drop(pending, n) /\ Deliver(pending, n)
            /\ \/ n = Len(pending) /\ UNCHANGED <<writing, result>>
               \/ n < Len(pending) /\ writing' = FALSE /\ result' = "write"
    BY <1>3 DEF WriteToWrite, Unwritten
  <2>2. UNCHANGED <<Kept, br, hashed, decoded, done, err>> /\ pending # <<>>
    BY <1>3 DEF WriteToWrite, Kept, stream
  <2>3. QED
    BY <2>1, <2>2, PendingDelivered
<1>4. CASE WriteToDecode
  <2>1. /\ UNCHANGED Kept /\ pending = <<>> /\ err = NoErr /\ src # NoSource
    BY <1>4 DEF WriteToDecode, Kept, stream, IInv, WritesOnlySound, AInv, AudioTyped
  <2>2. CASE NoFrame /\ writing' = FALSE
    BY <2>1, <2>2, NoFrameAudio
  <2>3. CASE /\ \E f \in Range(src.frames) : Frame(f, Pack(f, width))
             /\ UNCHANGED <<writing, delivered>>
    <3>1. PICK f \in Range(src.frames) : Frame(f, Pack(f, width))
      BY <2>3
    <3>2. src \in Sources
      BY <2>1 DEF IInv
    <3>3. f.block \in Nat /\ f.first \in Nat /\ width \in Widths
      BY <3>2, FramePlaces DEF Range, AInv, AudioTyped
    <3>4. /\ Take(Pack(f, width), 0) = Audio(f.first, 0, width)
          /\ Drop(Pack(f, width), 0) = Audio(f.first + 0, f.block - 0, width)
      BY <3>3, TakeDrop DEF Pack
    <3>5. Take(Pack(f, width), 0) = <<>> /\ Drop(Pack(f, width), 0) = Pack(f, width)
      BY <3>3, <3>4, NoAudio DEF Pack
    <3>6. delivered \o <<>> = delivered
      <4> DEFINE d == Len(delivered)
      <4>1. d \in Nat /\ origin \in Nat /\ delivered = Audio(origin, d, width)
        BY DEF AInv, AudioTyped, Delivering
      <4>2. delivered \in Seq(Nat \X {width})
        <5> HIDE DEF d
        <5>1. QED
          BY <3>3, <4>1, AudioType
      <4>3. QED
        BY <4>2, ConcatEmptySeq
    <3>7. Deliver(Pack(f, width), 0)
      BY <2>3, <3>5, <3>6 DEF Deliver
    <3>8. 0 \in Nat /\ 0 <= f.block
      BY <3>3
    <3>9. QED
      BY <2>1, <2>3, <3>1, <3>5, <3>7, <3>8, FrameDelivered
  <2>4. QED
    BY <1>4, <2>2, <2>3 DEF WriteToDecode
<1>5. QED
  BY <1>2, <1>3, <1>4

\* A seek that fails leaves nothing to deliver (seekFailed).
LEMMA SeekFailedAudio ==
    ASSUME AInv, NEW e \in {"io", "truncated"}, SeekFailed(e), moved' = TRUE,
           e = "truncated" => CutOff, src # NoSource, writing' = writing,
           UNCHANGED <<stream, hashed, decoded>>
    PROVE  AInv'
<1>1. /\ err' = e /\ pending' = <<>> /\ result' = e /\ UNCHANGED <<origin, delivered>>
      /\ seeked' = seeked \/ seeked' = TRUE
      /\ UNCHANGED <<src, info, width, skipMD5, hashed, decoded>>
  BY DEF SeekFailed, stream
<1>2. Len(<<>>) = 0
  BY EmptySeq
<1>3. AudioTyped'
  BY <1>1, <1>2 DEF AInv, AudioTyped, Errors
<1>4. Delivering'
  <2>1. origin + Len(delivered) \in Nat /\ width \in Widths
    BY DEF AInv, AudioTyped
  <2>2. <<>> = Audio(origin + Len(delivered), 0, width)
    BY <2>1, NoAudio
  <2>3. QED
    BY <1>1, <1>2, <2>2 DEF AInv, Delivering, NoErr
<1>5. Counting'
  BY <1>1 DEF AInv, Counting, NoErr
<1>6. Ending'
  <2>1. CutOff' = CutOff
    BY <1>1 DEF CutOff
  <2>2. QED
    BY <1>1, <2>1 DEF Ending, NoErr
<1>7. QED
  BY <1>3, <1>4, <1>5, <1>6 DEF AInv

\* A seek to the end of the audio is told that end, and delivers nothing
\* (SeekToSample, land).
LEMMA SeekToEndAudio ==
    ASSUME AInv, NEW at \in Nat, SeekToEnd(at), moved' = TRUE, src # NoSource,
           writing' = writing, UNCHANGED <<stream, hashed, decoded>>
    PROVE  AInv'
<1>1. /\ seeked' = TRUE /\ done' = TRUE /\ pending' = <<>> /\ err' = NoErr
      /\ result' = NoErr /\ origin' = at /\ delivered' = <<>>
      /\ UNCHANGED <<src, info, width, skipMD5, hashed, decoded>>
  BY DEF SeekToEnd, stream
<1>2. Len(<<>>) = 0
  BY EmptySeq
<1>3. AudioTyped'
  BY <1>1, <1>2 DEF AInv, AudioTyped, Errors
<1>4. Delivering'
  <2>1. width \in Widths /\ at + 0 = at
    BY DEF AInv, AudioTyped
  <2>2. <<>> = Audio(at, 0, width)
    BY <2>1, NoAudio
  <2>3. QED
    BY <1>1, <1>2, <2>1, <2>2 DEF Delivering
<1>5. Counting'
  BY <1>1 DEF Counting
<1>6. Ending'
  BY <1>1 DEF Ending, NoErr
<1>7. QED
  BY <1>3, <1>4, <1>5, <1>6 DEF AInv

\* A seek that lands reports the first sample it then delivers: the target, or the
\* start of the frame when the target was in a frame that is damaged (land).
LEMMA LandAudio ==
    ASSUME IInv, AInv, NEW t \in Nat, NEW i \in Holding(t), LandOn(i, t), moved' = TRUE,
           src # NoSource, info.total > 0 => t < info.total,
           writing' = writing, UNCHANGED <<stream, hashed, decoded>>
    PROVE  AInv'
<1> DEFINE f == src.frames[i]  at == Most(t, f.first)
<1>1. /\ seeked' = TRUE /\ done' = FALSE /\ err' = NoErr /\ result' = NoErr /\ br' = i + 1
      /\ pending' = Drop(Pack(f, width), at - f.first) /\ delivered' = <<>>
      /\ origin' = IF info.total > 0 THEN Least(at, info.total) ELSE at
      /\ UNCHANGED <<src, info, width, skipMD5, hashed, decoded>>
  BY DEF LandOn, stream
<1>2. src \in Sources
  BY DEF IInv
<1>3. i \in 1..Len(src.frames) /\ t < f.first + f.block
  BY <1>2, FramePlaces DEF Holding
<1>4. /\ f.first \in Nat /\ f.block \in Nat \ {0}
      /\ Place(src, i + 1) = f.first + f.block
      /\ src.info.total # 0 => f.first <= src.info.total
  BY <1>2, <1>3, FramePlaces
<1>5. width \in Widths /\ (info = NoInfo \/ info = src.info) /\ src.info.total \in Nat
  BY <1>2, FramePlaces DEF AInv, AudioTyped
<1> DEFINE a == f.first  b == f.block
<1>6. a \in Nat /\ b \in Nat /\ b > 0 /\ t < a + b
  BY <1>3, <1>4
<1>7. at \in Nat /\ at - a \in 0..b /\ (at = t \/ at = a)
  <2>1. at = IF t >= a THEN t ELSE a
    BY DEF Most
  <2> HIDE DEF at, a, b
  <2>2. QED
    BY <1>6, <2>1
<1>8. origin' = at
  <2>1. CASE info.total > 0
    <3>1. info.total \in Nat /\ info.total # 0 /\ info = src.info
      BY <1>5, <2>1 DEF NoInfo
    <3>2. at <= info.total
      BY <1>4, <1>7, <2>1, <3>1
    <3>3. QED
      BY <1>1, <2>1, <3>2 DEF Least
  <2>2. CASE ~(info.total > 0)
    BY <1>1, <2>2
  <2>3. QED
    BY <2>1, <2>2
<1>9. pending' = Audio(at, b - (at - a), width) /\ b - (at - a) \in Nat
  <2>1. Pack(f, width) = Audio(a, b, width)
    BY DEF Pack
  <2>2. pending' = Drop(Audio(a, b, width), at - a)
    BY <1>1, <2>1
  <2> HIDE DEF at, a, b
  <2>3. Drop(Audio(a, b, width), at - a) = Audio(a + (at - a), b - (at - a), width)
    BY <1>5, <1>6, <1>7, TakeDrop
  <2>4. a + (at - a) = at /\ b - (at - a) \in Nat
    BY <1>6, <1>7
  <2>5. QED
    BY <2>2, <2>3, <2>4
<1>10. Len(<<>>) = 0
  BY EmptySeq
<1>11. Len(pending') = b - (at - a)
  <2> HIDE DEF at, a, b
  <2>1. QED
    BY <1>5, <1>7, <1>9, AudioType
<1>12. Place(src', br') = a + b
  BY <1>1, <1>4
<1>13. AudioTyped'
  <2>1. origin' \in Nat /\ Len(pending') \in Nat
    BY <1>7, <1>8, <1>9, <1>11
  <2>2. QED
    BY <1>1, <1>10, <2>1 DEF AInv, AudioTyped, Errors
<1>14. Delivering'
  <2> HIDE DEF at, a, b
  <2>1. <<>> = Audio(at, 0, width)
    BY <1>5, <1>7, NoAudio
  <2>2. at + 0 = at /\ at + 0 + (b - (at - a)) = a + b
    BY <1>6, <1>7
  <2>3. QED
    BY <1>1, <1>8, <1>9, <1>10, <1>11, <1>12, <2>1, <2>2 DEF Delivering
<1>15. Counting'
  BY <1>1 DEF Counting
<1>16. Ending'
  BY <1>1 DEF Ending, NoErr
<1>17. QED
  BY <1>13, <1>14, <1>15, <1>16 DEF AInv

\* Every seek.
LEMMA SeekAudio ==
    ASSUME IInv, AInv, NEW t \in Targets, SeekToSample(t) PROVE AInv'
<1>1. UNCHANGED <<stream, hashed, decoded>> /\ writing' = writing /\ src # NoSource
  BY DEF SeekToSample, Usable
<1>2. info.total \in Nat
  BY FramePlaces DEF AInv, AudioTyped, NoInfo
<1>3. CASE /\ result' = IF ~seekable THEN "noseek" ELSE "invalid"
           /\ UNCHANGED <<err, pending, br, seeked, done, moved, origin, delivered>>
  BY <1>1, <1>3, IdleAudio DEF Kept, stream
<1>4. CASE moved' = TRUE /\ SeekToEnd(info.total)
  BY <1>1, <1>2, <1>4, SeekToEndAudio
<1>5. CASE /\ seekable /\ t >= 0 /\ ~(info.total > 0 /\ t >= info.total)
           /\ moved' = TRUE
           /\ \/ SeekFailed("io")
              \/ \E i \in Holding(t) : LandOn(i, t)
              \/ CutOff /\ SeekFailed("truncated")
              \/ \E at \in EndSamples : SeekToEnd(at)
  <2>1. t \in Nat /\ (info.total > 0 => t < info.total)
    BY <1>2, <1>5, CallAssumption
  <2>2. ASSUME NEW at \in EndSamples PROVE at \in Nat
    <3>1. src \in Sources
      BY <1>1 DEF IInv
    <3>2. ASSUME NEW g \in Range(src.frames) PROVE g.first + g.block \in Nat
      <4>1. PICK i \in 1..Len(src.frames) : g = src.frames[i]
        BY <3>1, <3>2, FramePlaces DEF Range
      <4>2. g.first \in Nat /\ g.block \in Nat
        BY <3>1, <4>1, FramePlaces
      <4>3. QED
        BY <4>2
    <3>3. QED
      BY <2>2, <3>2 DEF EndSamples
  <2>3. CASE SeekFailed("io") \/ (CutOff /\ SeekFailed("truncated"))
    BY <1>1, <1>5, <2>3, SeekFailedAudio
  <2>4. CASE \E i \in Holding(t) : LandOn(i, t)
    BY <1>1, <1>5, <2>1, <2>4, LandAudio
  <2>5. CASE \E at \in EndSamples : SeekToEnd(at)
    BY <1>1, <1>5, <2>2, <2>5, SeekToEndAudio
  <2>6. QED
    BY <1>5, <2>3, <2>4, <2>5
<1>6. QED
  BY <1>3, <1>4, <1>5 DEF SeekToSample

LEMMA AudioInductive == IInv /\ AInv /\ [Next]_vars => AInv'
<1> SUFFICES ASSUME IInv, AInv, [Next]_vars PROVE AInv'
  OBVIOUS
<1>1. CASE \E s \in Sources : Reset(s)
  BY <1>1, ResetAudio
<1>2. CASE \E n \in ReadSizes : Read(n)
  BY <1>2, ReadAudio
<1>3. CASE WriteTo \/ WriteToWrite \/ WriteToDecode
  BY <1>3, WriteToAudio
<1>4. CASE \E t \in Targets : SeekToSample(t)
  BY <1>4, SeekAudio
<1>5. CASE UNCHANGED vars
  BY <1>5, IdleAudio DEF vars, stream, history, Kept
<1>6. QED
  BY <1>1, <1>2, <1>3, <1>4, <1>5 DEF Next

LEMMA AudioInvariant == Spec => []AInv
BY Initially, Inductive, AudioInitially, AudioInductive, PTL DEF Spec

(***************************************************************************)
(* Whatever is read, written part-way, sought and reset, and wherever it    *)
(* fails: the caller gets the audio from the position last reported to it,  *)
(* in order, without a gap, at the width it asked for (Read, WriteTo, land).*)
(***************************************************************************)
THEOREM AudioIsInPlace == Spec => []DeliversFromReportedPosition
<1>1. AInv => DeliversFromReportedPosition
  BY DEF AInv, Delivering, DeliversFromReportedPosition
<1>2. QED
  BY <1>1, AudioInvariant, PTL

(***************************************************************************)
(* The end-of-stream checks accuse no intact stream (finish).               *)
(***************************************************************************)
THEOREM VerdictsHold == Spec => []VerdictsAreJust
<1>1. IInv /\ AInv => VerdictsAreJust
  <2> SUFFICES ASSUME IInv, AInv PROVE VerdictsAreJust
    OBVIOUS
  <2>1. EndOf(src) \in Nat
    <3>1. CASE src = NoSource
      BY <3>1, EmptySeq DEF NoSource, EndOf
    <3>2. CASE src \in Sources
      BY <3>2, FramePlaces
    <3>3. QED
      BY <3>1, <3>2 DEF IInv
  <2>2. Len(Held(src)) = EndOf(src)
    BY <2>1, AudioType DEF Held, Widths
  <2>3. QED
    BY <2>2 DEF AInv, Ending, VerdictsAreJust
<1>2. QED
  BY <1>1, AudioInvariant, Initially, Inductive, PTL DEF Spec

(***************************************************************************)
(* A stream read from its start to a clean io.EOF was delivered whole, when *)
(* its STREAMINFO allows to tell (finish, decodeNextFrame).                 *)
(***************************************************************************)
THEOREM CleanEndIsWhole == Spec => []CleanEOFMeansWhole
<1>1. AInv => CleanEOFMeansWhole
  <2> SUFFICES ASSUME AInv, result = "eof", ~moved
               PROVE  /\ info.total # 0 /\ (skipMD5 \/ info.md5 = <<>>) =>
                             Len(delivered) >= info.total
                      /\ ~skipMD5 /\ info.md5 # <<>> =>
                             delivered = Audio(0, Len(info.md5), width)
                      /\ pending = <<>>
    BY DEF CleanEOFMeansWhole
  <2>1. done /\ err = NoErr /\ pending = <<>> /\ Verdict = NoErr
    BY DEF AInv, Ending
  <2>2. ~seeked /\ origin = 0 /\ decoded = Len(delivered) + Len(pending)
    BY DEF AInv, Counting
  <2>3. decoded = Len(delivered) /\ decoded \in Nat
    BY <2>1, <2>2, EmptySeq DEF AInv, AudioTyped
  <2>4. delivered = Audio(0, decoded, width)
    BY <2>2, <2>3 DEF AInv, Delivering
  <2>5. ASSUME info.total # 0, skipMD5 \/ info.md5 = <<>>
        PROVE  Len(delivered) >= info.total
    <3>1. ~(decoded < info.total)
      BY <2>1, <2>2, <2>5 DEF Verdict, NoErr
    <3>2. info.total \in Nat
      BY FramePlaces DEF AInv, AudioTyped, NoInfo
    <3>3. QED
      BY <2>3, <3>1, <3>2
  <2>6. ASSUME ~skipMD5, info.md5 # <<>>
        PROVE  delivered = Audio(0, Len(info.md5), width)
    <3>1. hashed = info.md5
      BY <2>1, <2>2, <2>6 DEF Verdict, NoErr
    <3>2. hashed = Audio(0, decoded, Native)
      BY <2>2, <2>6 DEF AInv, Counting
    <3>3. Len(info.md5) = decoded
      BY <2>3, <3>1, <3>2, AudioType DEF Widths
    <3>4. QED
      BY <2>4, <3>3
  <2>7. QED
    BY <2>1, <2>5, <2>6
<1>2. QED
  BY <1>1, AudioInvariant, PTL

=============================================================================
