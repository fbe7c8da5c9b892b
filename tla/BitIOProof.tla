------------------------------ MODULE BitIOProof ------------------------------
(***************************************************************************)
(* Proofs about the bit reader and the bit writer, for every width of a     *)
(* byte and of a word, every set of sources, every size of the reader's     *)
(* buffer and every set of fields.                                          *)
(*                                                                          *)
(* The reader.  A position in the buffer is one in the source, less what    *)
(* compactions dropped, which is loaded - r.  In those terms the buffer,    *)
(* the accumulator, what was consumed and what the tap received are all     *)
(* runs of numbers, and each step moves a place where one of them ends and  *)
(* another starts.  A compaction may drop the consumed bytes because the    *)
(* accumulator never holds more bits than the bytes before the load cursor  *)
(* have.                                                                    *)
(*                                                                          *)
(* The writer.  A writer holds a run of bits when the bits of its bytes     *)
(* followed by the digits at the top of its accumulator are that run, and   *)
(* the rest of the accumulator is zero.  Every call on it appends digits to *)
(* the run it holds, and so what it holds is the encoding of the fields.    *)
(*                                                                          *)
(* Both.  The source the reader is bound to has the encoding's bits, and    *)
(* between two calls the bits it has consumed are those of the fields asked *)
(* for.  A field's bits lie within the source, so a call for it cannot meet *)
(* the end, and a call for zeros and a one meets no other one before its    *)
(* own.                                                                     *)
(***************************************************************************)
EXTENDS BitIO, SequenceFacts, FunctionTheorems, FiniteSetTheorems

\* The longest read that fill makes room for.
Whole == (AccBytes - 1) * ByteBits + 1

\* The types that the argument needs.
Typed ==
    /\ SourceOK(src)
    /\ given \in Nat /\ r \in Nat /\ loaded \in Nat
    /\ from \in Nat /\ asked \in Nat /\ tapCur \in Nat /\ tapFrom \in Nat
    /\ buf \in Seq(Nat) /\ acc \in Seq(Nat) /\ taken \in Seq(Nat) /\ tapped \in Seq(Nat)
    /\ pc \in {"idle", "word", "loop"}
    /\ err \in {"none", "eof", "io", "noprogress"}
    /\ tap \in {"none", "byte", "range", "deferred"}
    /\ call.n \in Nat

\* Where the source's bytes and bits are.
Placed ==
    /\ r <= loaded /\ r <= Len(buf) /\ given = loaded - r + Len(buf)
    /\ buf = Run(loaded - r, Len(buf))
    /\ taken = Run(0, Len(taken)) /\ acc = Run(Len(taken), Len(acc))
    /\ Len(taken) + Len(acc) = loaded * ByteBits
    /\ Len(acc) <= r * ByteBits

\* What the tap has received.
Tapping ==
    tap # "none" =>
        /\ tapCur <= Consumed /\ tapFrom <= loaded - r + tapCur
        /\ tapped = Run(tapFrom, loaded - r + tapCur - tapFrom)
        /\ tap # "deferred" => tapCur = Consumed

\* What a running call relies on.
Fetching ==
    /\ given <= src.bytes
    /\ err # "none" => err = src.end /\ given = src.bytes
    /\ pc = "word" => acc = <<>> /\ Len(buf) - r >= AccBytes
    /\ pc # "idle" /\ call.op = "bits" /\ asked <= Whole =>
           call.n = asked /\ from = Len(taken)
    /\ pc # "idle" /\ call.op # "bits" => asked = 0

\* What the last call returned.
Answered ==
    pc = "idle" /\ asked \in 1..Whole =>
        /\ result # "ok" => asked > BitsLeft
        /\ result = "eof" <=> (result # "ok" /\ src.end = "eof" /\ BitsLeft = 0)

IInv == Typed /\ Placed /\ Tapping /\ Fetching /\ Answered

-----------------------------------------------------------------------------
(* Widths, bytes and bits.                                                  *)

\* A byte has bits, and the accumulator a byte.
LEMMA Widths ==
    /\ ByteBits \in Nat /\ ByteBits > 0 /\ AccBytes \in Nat /\ AccBytes > 0
    /\ Whole \in Nat /\ Whole > 0
    /\ \A n \in ReadLengths : n \in Nat
<1>1. /\ ByteBits \in Nat /\ ByteBits > 0 /\ AccBytes \in Nat /\ AccBytes > 0
      /\ \A n \in ReadLengths : n \in Nat
  BY WidthAssumption
<1>2. AccBytes - 1 \in Nat
  BY <1>1
<1>3. (AccBytes - 1) * ByteBits \in Nat
  BY <1>1, <1>2
<1>4. QED
  BY <1>1, <1>3 DEF Whole

\* Positions are runs.
LEMMA PositionsAreRun == ASSUME NEW a, NEW b PROVE Positions(a, b) = Run(a, b - a)
BY DEF Positions, Run

\* The bits of a run of bytes are a run of bits.
LEMMA BitsOfRun ==
    ASSUME NEW a \in Nat, NEW n \in Nat
    PROVE  BitsOf(Run(a, n)) = Run(a * ByteBits, n * ByteBits)
<1>1. PICK d \in Nat : d = ByteBits /\ d > 0
  BY Widths
<1>2. PICK s, t : s = Run(a, n) /\ t = BitsOf(s)
  OBVIOUS
<1>3. Len(s) = n /\ \A i \in 1..n : s[i] = a + i
  BY <1>2, RunType
<1>4. t = [i \in 1..(n * d) |-> (s[(i - 1) \div d + 1] - 1) * d + ((i - 1) % d) + 1]
  BY <1>1, <1>2, <1>3 DEF BitsOf
<1>5. ASSUME NEW i \in 1..(n * d)
      PROVE  t[i] = a * d + i
  <2>1. PICK x \in Nat : x = i - 1 /\ x < n * d
    BY <1>1
  <2>2. PICK q \in Nat, m \in Nat : q = x \div d /\ m = x % d /\ x = q * d + m /\ q * d <= x
    BY <1>1, Division
  <2>3. q < n
    <3>1. SUFFICES ASSUME q >= n PROVE FALSE
      BY <2>2
    <3>2. PICK e \in Nat : q = n + e
      BY <3>1
    <3>3. q * d = n * d + e * d /\ e * d \in Nat /\ n * d \in Nat
      BY <3>2, <1>1
    <3>4. QED
      BY <3>3, <2>1, <2>2
  <2>4. s[q + 1] = a + (q + 1)
    BY <2>3, <1>3
  <2>5. t[i] = (s[q + 1] - 1) * d + m + 1
    BY <2>1, <2>2, <1>4
  <2>6. (a + (q + 1) - 1) * d = a * d + q * d
    BY <1>1
  <2>7. QED
    BY <2>1, <2>2, <2>4, <2>5, <2>6, <1>1
<1>6. t = [i \in 1..(n * d) |-> a * d + i]
  BY <1>4, <1>5
<1>7. QED
  BY <1>1, <1>2, <1>6 DEF Run

\* The bytes consumed when the accumulator holds n bits: whole ones, and all of them.
LEMMA ConsumedLaw ==
    ASSUME r \in Nat, NEW n \in Nat, n <= r * ByteBits
    PROVE  /\ ConsumedAt(n) \in 0..r
           /\ ConsumedAt(n) * ByteBits <= r * ByteBits - n
           /\ \A m \in Nat : m <= n => ConsumedAt(n) <= ConsumedAt(m)
<1>1. PICK d \in Nat : d = ByteBits /\ d > 0
  BY Widths
<1>2. PICK x \in Nat : x = r * d - n
  BY <1>1
<1>3. PICK c \in Nat : c = x \div d /\ c * d <= x
  BY <1>1, Division
<1>4. c <= r
  <2>1. SUFFICES ASSUME c > r PROVE FALSE
    BY <1>3
  <2>2. PICK e \in Nat : c = r + 1 + e
    BY <2>1
  <2>3. c * d = r * d + d + e * d /\ e * d \in Nat
    BY <2>2, <1>1
  <2>4. QED
    BY <2>3, <1>1, <1>2, <1>3
<1>5. ASSUME NEW m \in Nat, m <= n
      PROVE  c <= ConsumedAt(m)
  <2>1. PICK y \in Nat : y = r * d - m /\ x <= y
    BY <1>2, <1>5
  <2>2. c <= y \div d
    BY <2>1, <1>1, <1>3, DivisionGrows
  <2>3. QED
    BY <2>1, <2>2, <1>1 DEF ConsumedAt
<1>6. ConsumedAt(n) = c
  BY <1>1, <1>2, <1>3 DEF ConsumedAt
<1>7. QED
  BY <1>1, <1>2, <1>3, <1>4, <1>5, <1>6

\* The invariant's numbers: b bytes were dropped, w are in the buffer, t bits were
\* consumed, n are in the accumulator, c bytes of the buffer are consumed.
LEMMA Places ==
    ASSUME Typed, Placed
    PROVE  \E b, w, t, n, c \in Nat :
               /\ b = loaded - r /\ loaded = b + r /\ given = b + w
               /\ w = Len(buf) /\ r <= w /\ buf = Run(b, w)
               /\ t = Len(taken) /\ taken = Run(0, t)
               /\ n = Len(acc) /\ acc = Run(t, n)
               /\ t + n = loaded * ByteBits /\ n <= r * ByteBits
               /\ c = Consumed /\ c <= r
<1>1. Len(buf) \in Nat /\ Len(taken) \in Nat /\ Len(acc) \in Nat
  BY LenProperties DEF Typed
<1>2. PICK b, w, t, n \in Nat :
          b = loaded - r /\ w = Len(buf) /\ t = Len(taken) /\ n = Len(acc)
  <2>1. loaded - r \in Nat
    BY DEF Typed, Placed
  <2>2. QED
    BY <2>1, <1>1
<1>3. PICK c \in Nat : c = Consumed /\ c <= r
  BY <1>2, ConsumedLaw DEF Typed, Placed, Consumed
<1>4. /\ b = loaded - r /\ loaded = b + r /\ given = b + w
      /\ w = Len(buf) /\ r <= w /\ buf = Run(b, w)
      /\ t = Len(taken) /\ taken = Run(0, t)
      /\ n = Len(acc) /\ acc = Run(t, n)
      /\ t + n = loaded * ByteBits /\ n <= r * ByteBits
      /\ c = Consumed /\ c <= r
  BY <1>2, <1>3 DEF Typed, Placed
<1>5. QED
  BY <1>4

-----------------------------------------------------------------------------
(* Consuming bits.                                                          *)

\* A per-byte tap is handed the bytes completed, which are those that follow what it
\* has (emitTaps).
LEMMA Handed ==
    ASSUME Typed, Placed, Tapping, tap # "none",
           NEW e \in Nat, tapCur <= e, e <= r, Hand(e)
    PROVE  /\ tapped' \in Seq(Nat) /\ tapFrom <= loaded - r + e
           /\ tapped' = Run(tapFrom, loaded - r + e - tapFrom)
<1>1. PICK b, w \in Nat : /\ b = loaded - r /\ r <= w /\ buf = Run(b, w)
  BY Places
<1>2. PICK k \in Nat, m \in Nat :
          /\ k = b + tapCur - tapFrom /\ m = e - tapCur
          /\ tapped = Run(tapFrom, k)
  BY <1>1 DEF Typed, Tapping
<1>3. r \in Nat /\ tapCur \in Nat /\ tapFrom \in Nat
  BY DEF Typed
<1>4. SubSeq(buf, tapCur + 1, e) = Run(b + tapCur, m)
  <2>1. tapCur \in 0..w /\ e \in tapCur..w
    BY <1>1, <1>3
  <2>2. SubSeq(Run(b, w), tapCur + 1, e) = Run(b + tapCur, e - tapCur)
    BY <2>1, RunCut
  <2>3. QED
    BY <2>2, <1>1, <1>2
<1>5. tapped' = Run(tapFrom, k) \o Run(tapFrom + k, m)
  <2>1. tapFrom + k = b + tapCur
    BY <1>2, <1>3
  <2>2. tapped' = tapped \o SubSeq(buf, tapCur + 1, e)
    BY DEF Hand
  <2>3. tapped = Run(tapFrom, k)
    BY <1>2
  <2>4. QED
    BY <2>1, <2>2, <2>3, <1>4, Zenon
<1>6. tapped' = Run(tapFrom, k + m)
  <2>1. Run(tapFrom, k) \o Run(tapFrom + k, m) = Run(tapFrom, k + m)
    <3>1. RunsJoin(tapFrom, k, m)
      BY <1>3, RunsMeet
    <3>2. QED
      BY <3>1 DEF RunsJoin
  <2>2. QED
    BY <2>1, <1>5, Zenon
<1>7. k + m = loaded - r + e - tapFrom /\ k + m \in Nat /\ tapFrom <= loaded - r + e
  BY <1>1, <1>2, <1>3
<1>8. QED
  BY <1>3, <1>6, <1>7, RunType

\* Consuming n bits moves them from the accumulator to those consumed, and the bytes
\* they complete to the tap (ReadBits, ReadUnary, SkipToByteBoundary).
LEMMA Consumes ==
    ASSUME Typed, Placed, Tapping, NEW n \in 0..Len(acc), Consume(n),
           UNCHANGED <<buf, r, loaded, given>>
    PROVE  /\ Placed' /\ Tapping'
           /\ acc' \in Seq(Nat) /\ taken' \in Seq(Nat) /\ tapped' \in Seq(Nat)
           /\ tapCur' \in Nat /\ tapFrom' \in Nat
           /\ tap' \in {"none", "byte", "range", "deferred"}
           /\ Len(taken') = Len(taken) + n /\ Len(acc') = Len(acc) - n
<1>1. /\ buf' = buf /\ r' = r /\ loaded' = loaded /\ given' = given
      /\ taken' = taken \o SubSeq(acc, 1, n) /\ acc' = SubSeq(acc, n + 1, Len(acc))
      /\ EmitTaps(Len(acc) - n)
  BY DEF Consume, Take, From
<1>2. PICK b, w, t, a, c \in Nat :
          /\ b = loaded - r /\ loaded = b + r /\ given = b + w
          /\ w = Len(buf) /\ r <= w /\ buf = Run(b, w)
          /\ t = Len(taken) /\ taken = Run(0, t)
          /\ a = Len(acc) /\ acc = Run(t, a)
          /\ t + a = loaded * ByteBits /\ a <= r * ByteBits
          /\ c = Consumed /\ c <= r
  BY Places
<1>3. PICK m, s, x \in Nat :
          m = a - n /\ s = t + n /\ n \in Nat /\ n \in 0..a /\ x = r * ByteBits
  <2>1. n \in Nat /\ n \in 0..a
    BY <1>2
  <2>2. a - n \in Nat /\ t + n \in Nat
    BY <2>1
  <2>3. r * ByteBits \in Nat
    BY Widths DEF Typed
  <2>4. QED
    BY <2>1, <2>2, <2>3
<1>4. SubSeq(acc, 1, n) = Run(t, n) /\ acc' = Run(s, m)
  <2>1. 0 \in 0..a /\ n \in 0..a /\ a \in n..a /\ 0 + 1 = 1 /\ t + 0 = t /\ n - 0 = n
    BY <1>3
  <2>2. SubSeq(Run(t, a), 0 + 1, n) = Run(t + 0, n - 0)
    BY <2>1, RunCut
  <2>3. SubSeq(Run(t, a), n + 1, a) = Run(t + n, a - n)
    BY <2>1, RunCut
  <2>4. QED
    BY <2>1, <2>2, <2>3, <1>1, <1>2, <1>3
<1>5. taken' = Run(0, s)
  <2>1. taken' = Run(0, t) \o Run(t, n)
    <3>1. taken' = taken \o SubSeq(acc, 1, n)
      BY <1>1
    <3>2. taken = Run(0, t)
      BY <1>2
    <3>3. QED
      BY <3>1, <3>2, <1>4, Zenon
  <2>2. RunsJoin(0, t, n)
    BY <1>3, RunsMeet
  <2>3. 0 + t = t
    OBVIOUS
  <2>4. Run(0, t) \o Run(0 + t, n) = Run(0, t + n)
    BY <2>2 DEF RunsJoin
  <2>5. QED
    BY <2>1, <2>3, <2>4, <1>3, Zenon
<1>6. /\ acc' \in Seq(Nat) /\ Len(acc') = m /\ taken' \in Seq(Nat) /\ Len(taken') = s
  BY <1>4, <1>5, RunType
<1>7. Placed'
  <2>1. s + m = loaded * ByteBits /\ m <= r * ByteBits
    <3>1. s + m = t + a /\ m <= a
      BY <1>3
    <3>2. a <= x
      BY <1>2, <1>3
    <3>3. m <= x
      BY <3>1, <3>2
    <3>4. QED
      BY <3>1, <3>3, <1>2, <1>3
  <2>2. QED
    BY <2>1, <1>1, <1>2, <1>4, <1>5, <1>6 DEF Placed
<1>8. PICK e \in Nat : e = ConsumedAt(m) /\ c <= e /\ e <= r /\ Consumed' = e
  <2>1. r \in Nat /\ m <= a
    BY <1>3 DEF Typed
  <2>2. m <= r * ByteBits
    BY <2>1, <1>2, <1>3
  <2>3. ConsumedAt(m) \in 0..r /\ ConsumedAt(a) <= ConsumedAt(m)
    BY <2>1, <2>2, <1>2, ConsumedLaw
  <2>4. Consumed' = ConsumedAt(m)
    BY <1>1, <1>6 DEF Consumed, ConsumedAt
  <2>5. Consumed = ConsumedAt(a)
    BY <1>2 DEF Consumed
  <2>6. ConsumedAt(m) \in Nat /\ ConsumedAt(m) <= r
    BY <2>1, <2>3
  <2>7. QED
    BY <2>3, <2>4, <2>5, <2>6, <1>2
<1>9. /\ Tapping' /\ tapped' \in Seq(Nat) /\ tapCur' \in Nat /\ tapFrom' \in Nat
      /\ tap' \in {"none", "byte", "range", "deferred"}
  <2>1. CASE tap \in {"byte", "range"} /\ e > tapCur
    <3>1. Hand(e) /\ tapCur' = e /\ tap' = tap /\ tapFrom' = tapFrom
      BY <2>1, <1>1, <1>2, <1>3, <1>8 DEF EmitTaps
    <3>2. /\ tapped' \in Seq(Nat) /\ tapFrom <= loaded - r + e
          /\ tapped' = Run(tapFrom, loaded - r + e - tapFrom)
      BY <2>1, <3>1, <1>8, Handed DEF Typed
    <3>3. Tapping'
      BY <3>1, <3>2, <1>1, <1>8 DEF Tapping
    <3>4. QED
      BY <3>1, <3>2, <3>3, <1>8 DEF Typed
  <2>2. CASE ~(tap \in {"byte", "range"} /\ e > tapCur)
    <3>1. /\ tapped' = tapped /\ tapCur' = tapCur /\ tap' = tap /\ tapFrom' = tapFrom
      BY <2>2, <1>1, <1>2, <1>3, <1>8 DEF EmitTaps, taps
    <3>2. tap # "none" => tapCur <= e /\ (tap # "deferred" => tapCur = e)
      <4>1. SUFFICES ASSUME tap # "none" PROVE tapCur <= e /\ (tap # "deferred" => tapCur = e)
        OBVIOUS
      <4>2. tapCur \in Nat /\ tapCur <= c /\ (tap # "deferred" => tapCur = c)
        BY <4>1, <1>2 DEF Typed, Tapping
      <4>3. tapCur <= e
        BY <4>2, <1>8
      <4>4. tap # "deferred" => tap \in {"byte", "range"}
        BY <4>1 DEF Typed
      <4>5. QED
        BY <2>2, <4>2, <4>3, <4>4, <1>8
    <3>3. Tapping'
      BY <3>1, <3>2, <1>1, <1>8 DEF Tapping
    <3>4. QED
      BY <3>1, <3>3 DEF Typed
  <2>3. QED
    BY <2>1, <2>2
<1>10. QED
  BY <1>2, <1>3, <1>6, <1>7, <1>9

-----------------------------------------------------------------------------
(* Loading bytes.                                                           *)

\* The k bytes of a buffer that follow place q, and their bits.
LEMMA Loading ==
    ASSUME NEW b \in Nat, NEW w \in Nat, NEW q \in Nat, NEW k \in Nat, q + k <= w
    PROVE  /\ SubSeq(Run(b, w), q + 1, q + k) = Run(b + q, k)
           /\ BitsOf(SubSeq(Run(b, w), q + 1, q + k)) = Run((b + q) * ByteBits, k * ByteBits)
           /\ BitsOf(SubSeq(Run(b, w), q + 1, q + k)) \in Seq(Nat)
<1>1. PICK l \in Nat : l = q + k /\ l \in q..w /\ q \in 0..w /\ l - q = k
  OBVIOUS
<1>2. SubSeq(Run(b, w), q + 1, l) = Run(b + q, l - q)
  BY <1>1, RunCut
<1>3. PICK a \in Nat : a = b + q
  OBVIOUS
<1>4. BitsOf(Run(a, k)) = Run(a * ByteBits, k * ByteBits)
  BY BitsOfRun
<1>5. a * ByteBits \in Nat /\ k * ByteBits \in Nat
  BY Widths
<1>6. Run(a * ByteBits, k * ByteBits) \in Seq(Nat)
  BY <1>5, RunType
<1>7. QED
  BY <1>1, <1>2, <1>3, <1>4, <1>6

\* Loading k bytes appends their bits to the accumulator; what is consumed, and so
\* what the tap is due, stays (fill).
LEMMA Loads ==
    ASSUME Typed, Placed, Tapping, NEW k \in Nat, k <= Len(buf) - r,
           r' = r + k, loaded' = loaded + k,
           acc' = acc \o BitsOf(SubSeq(buf, r + 1, r + k)),
           UNCHANGED <<buf, given, taken, tap, tapCur, tapFrom, tapped>>
    PROVE  Placed' /\ Tapping' /\ r' \in Nat /\ loaded' \in Nat /\ acc' \in Seq(Nat)
<1>0. /\ r \in Nat /\ loaded \in Nat
      /\ buf' = buf /\ given' = given /\ taken' = taken /\ tap' = tap
      /\ tapCur' = tapCur /\ tapFrom' = tapFrom /\ tapped' = tapped
  BY DEF Typed
<1>1. PICK b, w, t, n, c \in Nat :
          /\ b = loaded - r /\ loaded = b + r /\ given = b + w
          /\ w = Len(buf) /\ r <= w /\ buf = Run(b, w)
          /\ t = Len(taken) /\ taken = Run(0, t)
          /\ n = Len(acc) /\ acc = Run(t, n)
          /\ t + n = loaded * ByteBits /\ n <= r * ByteBits
          /\ c = Consumed /\ c <= r
  BY Places
<1>2. PICK d \in Nat : d = ByteBits /\ d > 0
  BY Widths
<1>3. PICK x, y, z \in Nat : x = loaded * d /\ y = r * d /\ z = k * d
  <2>1. loaded * d \in Nat /\ r * d \in Nat /\ k * d \in Nat
    BY <1>0, <1>2
  <2>2. QED
    BY <2>1
<1>4. (loaded + k) * d = x + z /\ (r + k) * d = y + z
  BY <1>0, <1>2, <1>3
<1>5. BitsOf(SubSeq(buf, r + 1, r + k)) = Run(x, z)
  <2>1. r + k <= w
    BY <1>0, <1>1
  <2>2. BitsOf(SubSeq(Run(b, w), r + 1, r + k)) = Run((b + r) * ByteBits, k * ByteBits)
    BY <2>1, <1>0, Loading
  <2>3. QED
    BY <2>2, <1>1, <1>2, <1>3
<1>6. acc' = Run(t, n + z)
  <2>1. x = t + n
    BY <1>1, <1>2, <1>3
  <2>2. acc' = Run(t, n) \o Run(t + n, z)
    <3>1. acc = Run(t, n)
      BY <1>1
    <3>2. QED
      BY <2>1, <3>1, <1>5, Zenon
  <2>3. Run(t, n) \o Run(t + n, z) = Run(t, n + z)
    <3>1. RunsJoin(t, n, z)
      BY RunsMeet
    <3>2. QED
      BY <3>1 DEF RunsJoin
  <2>4. QED
    BY <2>2, <2>3, Zenon
<1>7. acc' \in Seq(Nat) /\ Len(acc') = n + z
  <2>1. PICK e \in Nat : e = n + z
    OBVIOUS
  <2>2. acc' = Run(t, e)
    BY <2>1, <1>6
  <2>3. Run(t, e) \in Seq(Nat) /\ Len(Run(t, e)) = e
    BY RunType
  <2>4. QED
    BY <2>1, <2>2, <2>3
<1>8. Placed'
  <2>0. t + n = x /\ n <= y
    BY <1>1, <1>2, <1>3
  <2>1. t + (n + z) = x + z /\ n + z <= y + z
    BY <2>0
  <2>2. t + (n + z) = loaded' * ByteBits /\ n + z <= r' * ByteBits
    BY <2>1, <1>2, <1>4
  <2>3. loaded' - r' = b /\ r' <= loaded' /\ r' <= w
    BY <1>0, <1>1
  <2>4. QED
    BY <2>2, <2>3, <1>0, <1>1, <1>6, <1>7 DEF Placed
<1>9. Consumed' = Consumed
  <2>1. (y + z) - (n + z) = y - n
    OBVIOUS
  <2>2. Consumed = (y - n) \div d
    BY <1>1, <1>2, <1>3 DEF Consumed, ConsumedAt
  <2>3. Consumed' = (r' * ByteBits - Len(acc')) \div ByteBits
    BY DEF Consumed, ConsumedAt
  <2>4. r' * ByteBits = y + z
    BY <1>2, <1>4
  <2>5. QED
    BY <2>1, <2>2, <2>3, <2>4, <1>2, <1>7
<1>10. Tapping'
  <2>1. loaded' - r' = loaded - r
    BY <1>0
  <2>2. QED
    BY <2>1, <1>0, <1>9 DEF Tapping
<1>11. r' \in Nat /\ loaded' \in Nat
  BY <1>0
<1>12. QED
  BY <1>7, <1>8, <1>10, <1>11

\* A whole word, and a byte.
LEMMA LoadWordKeeps == ASSUME IInv, LoadWord PROVE IInv'
<1>1. /\ pc = "word" /\ acc = <<>> /\ Len(buf) - r >= AccBytes
      /\ acc' = BitsOf(SubSeq(buf, r + 1, r + AccBytes))
      /\ r' = r + AccBytes /\ loaded' = loaded + AccBytes /\ pc' = "loop"
      /\ UNCHANGED <<src, given, buf, err, tap, tapCur, tapFrom, tapped,
                     call, from, asked, result, taken>>
  BY DEF IInv, Fetching, LoadWord, source, taps
<1>2. PICK u \in Seq(Nat) : u = BitsOf(SubSeq(buf, r + 1, r + AccBytes))
  <2>1. PICK b \in Nat, w \in Nat, q \in Nat, k \in Nat :
            b = loaded - r /\ w = Len(buf) /\ q = r /\ k = AccBytes /\ buf = Run(b, w)
    <3>1. loaded - r \in Nat /\ Len(buf) \in Nat /\ r \in Nat /\ AccBytes \in Nat
      BY Widths, LenProperties DEF IInv, Typed, Placed
    <3>2. buf = Run(loaded - r, Len(buf))
      BY DEF IInv, Placed
    <3>3. QED
      BY <3>1, <3>2
  <2>2. q + k <= w
    BY <1>1, <2>1
  <2>3. BitsOf(SubSeq(Run(b, w), q + 1, q + k)) \in Seq(Nat)
    BY <2>2, Loading
  <2>4. QED
    BY <2>1, <2>3
<1>3. acc' = acc \o BitsOf(SubSeq(buf, r + 1, r + AccBytes))
  <2>1. <<>> \o u = u
    BY <1>2
  <2>2. QED
    BY <2>1, <1>1, <1>2
<1>4. Placed' /\ Tapping' /\ r' \in Nat /\ loaded' \in Nat /\ acc' \in Seq(Nat)
  BY <1>1, <1>3, Widths, Loads DEF IInv
<1>5. Typed'
  BY <1>1, <1>4 DEF IInv, Typed
<1>6. Fetching' /\ Answered'
  BY <1>1 DEF IInv, Fetching, Answered
<1>7. QED
  BY <1>4, <1>5, <1>6 DEF IInv

LEMMA LoadByteKeeps == ASSUME IInv, LoadByte PROVE IInv'
<1>1. /\ pc = "loop" /\ r < Len(buf)
      /\ acc' = acc \o BitsOf(<<buf[r + 1]>>)
      /\ r' = r + 1 /\ loaded' = loaded + 1
      /\ UNCHANGED <<src, given, buf, err, tap, tapCur, tapFrom, tapped, pc,
                     call, from, asked, result, taken>>
  BY DEF LoadByte, source, taps
<1>2. 1 \in Nat /\ 1 <= Len(buf) - r /\ r \in Nat /\ buf \in Seq(Nat) /\ Len(buf) \in Nat
  BY <1>1, LenProperties DEF IInv, Typed
<1>3. SubSeq(buf, r + 1, r + 1) = <<buf[r + 1]>>
  <2>1. PICK s \in Seq(Nat), q \in Nat : s = buf /\ q = r + 1 /\ q \in 1..Len(s)
    BY <1>1, <1>2
  <2>2. SubSeq(s, q, q) = <<s[q]>> \o SubSeq(s, q + 1, q)
    <3>1. s \in Seq(Nat) /\ q \in 1..Len(s) /\ q \in q..Len(s)
      BY <2>1
    <3>2. QED
      BY <3>1, SubSeqRecursiveFirst, Zenon
  <2>3. SubSeq(s, q + 1, q) = <<>>
    BY <2>1, SubSeqEmpty
  <2>4. <<s[q]>> \o <<>> = <<s[q]>>
    OBVIOUS
  <2>5. QED
    BY <2>1, <2>2, <2>3, <2>4
<1>4. Placed' /\ Tapping' /\ r' \in Nat /\ loaded' \in Nat /\ acc' \in Seq(Nat)
  BY <1>1, <1>2, <1>3, Loads DEF IInv
<1>5. Typed'
  BY <1>1, <1>4 DEF IInv, Typed
<1>6. Fetching' /\ Answered'
  BY <1>1 DEF IInv, Fetching, Answered, BitsLeft
<1>7. QED
  BY <1>4, <1>5, <1>6 DEF IInv

\* A compaction drops the c bytes consumed, and a read appends k of the source's.
LEMMA Compacting ==
    ASSUME NEW b \in Nat, NEW w \in Nat, NEW c \in 0..w
    PROVE  From(Run(b, w), c + 1) = Run(b + c, w - c)
<1>1. Len(Run(b, w)) = w
  BY RunType
<1>2. w \in c..w
  OBVIOUS
<1>3. SubSeq(Run(b, w), c + 1, w) = Run(b + c, w - c)
  BY <1>2, RunCut
<1>4. QED
  BY <1>1, <1>3 DEF From

LEMMA Appending ==
    ASSUME NEW g \in Nat, NEW k \in Nat
    PROVE  Positions(g, g + k) = Run(g, k)
<1>1. Positions(g, g + k) = Run(g, g + k - g)
  BY PositionsAreRun
<1>2. g + k - g = k
  OBVIOUS
<1>3. QED
  BY <1>1, <1>2

\* readMore: the tap is given what it is due before the bytes are dropped, and then
\* nothing that is consumed is left in the buffer.
LEMMA ReadMoreKeeps == ASSUME IInv, ReadMore PROVE IInv'
<1>1. PICK b, w, t, n, c \in Nat :
          /\ b = loaded - r /\ loaded = b + r /\ given = b + w
          /\ w = Len(buf) /\ r <= w /\ buf = Run(b, w)
          /\ t = Len(taken) /\ taken = Run(0, t)
          /\ n = Len(acc) /\ acc = Run(t, n)
          /\ t + n = loaded * ByteBits /\ n <= r * ByteBits
          /\ c = Consumed /\ c <= r
  BY Places DEF IInv
<1>2. /\ r = w /\ err = "none" /\ pc = "loop"
      /\ IF Ranged /\ c > tapCur THEN Hand(c) ELSE tapped' = tapped
      /\ tapCur' = IF Ranged \/ tapCur <= c THEN 0 ELSE tapCur - c
      /\ r' = r - c
      /\ src' = src /\ acc' = acc /\ loaded' = loaded /\ tap' = tap /\ tapFrom' = tapFrom
      /\ pc' = pc /\ call' = call /\ from' = from /\ asked' = asked
      /\ result' = result /\ taken' = taken
  BY <1>1 DEF ReadMore
<1>3. PICK k \in Nat :
          /\ k <= src.bytes - given /\ given' = given + k
          /\ \/ err' = err
             \/ given + k = src.bytes /\ err' = src.end
          /\ buf' = From(buf, c + 1) \o Positions(given, given + k)
  <2>1. PICK k \in 0..(Block - (Len(buf) - Consumed)) :
            Read(k) /\ buf' = From(buf, Consumed + 1) \o Positions(given, given + k)
    BY DEF ReadMore
  <2>2. k \in Nat
    BY <1>1, <2>1, WidthAssumption
  <2>3. QED
    BY <2>1, <2>2, <1>1 DEF Read
<1>4. PICK e, m \in Nat : e = b + c /\ m = w - c + k /\ c <= w
  <2>1. c <= w
    BY <1>1, <1>2
  <2>2. b + c \in Nat /\ w - c + k \in Nat
    BY <2>1
  <2>3. QED
    BY <2>1, <2>2
<1>5. buf' = Run(e, m)
  <2>1. PICK g, l \in Nat : g = given /\ g = e + l /\ l = w - c /\ m = l + k
    <3>1. w - c \in Nat /\ b + w \in Nat /\ b + w = e + (w - c)
      BY <1>4
    <3>2. QED
      BY <3>1, <1>1, <1>4
  <2>2. From(buf, c + 1) = Run(e, l)
    <3>1. c \in 0..w
      BY <1>4
    <3>2. From(Run(b, w), c + 1) = Run(b + c, w - c)
      BY <3>1, Compacting
    <3>3. QED
      BY <3>2, <2>1, <1>1, <1>4
  <2>3. Positions(g, g + k) = Run(g, k)
    BY Appending
  <2>4. buf' = Run(e, l) \o Run(g, k)
    <3>1. buf' = From(buf, c + 1) \o Positions(given, given + k)
      BY <1>3
    <3>2. g = given
      BY <2>1
    <3>3. QED
      BY <3>1, <3>2, <2>2, <2>3, Zenon
  <2>5. Run(e, l) \o Run(e + l, k) = Run(e, l + k)
    <3>1. RunsJoin(e, l, k)
      BY RunsMeet
    <3>2. QED
      BY <3>1 DEF RunsJoin
  <2>6. g = e + l /\ m = l + k
    BY <2>1
  <2>7. QED
    BY <2>4, <2>5, <2>6, Zenon
<1>6. buf' \in Seq(Nat) /\ Len(buf') = m
  <2>1. Run(e, m) \in Seq(Nat) /\ Len(Run(e, m)) = m
    BY RunType
  <2>2. QED
    BY <2>1, <1>5
<1>7. PICK d \in Nat : d = ByteBits /\ d > 0
  BY Widths
<1>8. PICK y, z \in Nat :
          y = r * d /\ z = c * d /\ (r - c) * d = y - z /\ n <= y - z /\ y - z - n < d
  <2>1. r \in Nat
    BY DEF IInv, Typed
  <2>2. r * d \in Nat /\ c * d \in Nat /\ (r - c) * d = r * d - c * d
    BY <2>1, <1>7
  <2>3. PICK y, z \in Nat : y = r * d /\ z = c * d /\ (r - c) * d = y - z
    BY <2>2
  <2>4. n <= y
    BY <2>3, <1>1, <1>7
  <2>5. PICK x \in Nat : x = y - n
    BY <2>4
  <2>6. c = x \div d
    BY <2>3, <2>5, <1>1, <1>7 DEF Consumed, ConsumedAt
  <2>7. z <= x /\ x < z + d
    BY <2>3, <2>6, <1>7, Division
  <2>8. QED
    BY <2>3, <2>5, <2>7
<1>9. Placed'
  <2>1. /\ r' <= loaded' /\ r' <= m /\ loaded' - r' = e /\ given' = e + m
    <3>1. loaded = b + w /\ r' = w - c /\ loaded' = loaded /\ given' = b + w + k
      BY <1>1, <1>2, <1>3
    <3>2. QED
      BY <3>1, <1>4
  <2>2. n <= r' * ByteBits
    BY <1>2, <1>7, <1>8
  <2>3. QED
    BY <2>1, <2>2, <1>1, <1>2, <1>5, <1>6 DEF Placed
<1>10. Consumed' = 0
  <2>1. PICK x \in Nat : x = y - z - n /\ x < d
    BY <1>8
  <2>2. 0 * d <= x /\ x < 0 * d + d
    BY <2>1
  <2>3. 0 \in Nat
    OBVIOUS
  <2>4. x \div d = 0
    BY <2>2, <2>3, <1>7, Quotient
  <2>5. Consumed' = (r' * ByteBits - Len(acc')) \div ByteBits
    BY DEF Consumed, ConsumedAt
  <2>6. r' * ByteBits = y - z /\ Len(acc') = n
    BY <1>1, <1>2, <1>7, <1>8
  <2>7. QED
    BY <2>1, <2>4, <2>5, <2>6, <1>7
<1>11. Tapping' /\ tapped' \in Seq(Nat) /\ tapCur' \in Nat
  <2>0. tapCur \in Nat /\ r \in Nat
    BY DEF IInv, Typed
  <2>1. CASE tap = "none"
    <3>1. tapped' = tapped
      BY <2>1, <1>2 DEF Ranged
    <3>2. tapCur' \in Nat
      BY <2>0, <1>2
    <3>3. Tapping'
      BY <2>1, <1>2 DEF Tapping
    <3>4. QED
      BY <3>1, <3>2, <3>3 DEF IInv, Typed
  <2>2. CASE tap # "none"
    <3>1. tapCur <= c /\ (tap # "deferred" => tapCur = c)
      BY <2>2, <1>1 DEF IInv, Tapping
    <3>2. tapCur' = 0
      BY <3>1, <1>2
    <3>3. /\ tapped' \in Seq(Nat) /\ tapFrom <= loaded - r + c
          /\ tapped' = Run(tapFrom, loaded - r + c - tapFrom)
      <4>1. CASE Ranged /\ c > tapCur
        <5>1. Hand(c) /\ tapCur <= c /\ c <= r
          BY <4>1, <1>1, <1>2, <3>1
        <5>2. QED
          BY <5>1, <2>2, Handed DEF IInv
      <4>2. CASE ~(Ranged /\ c > tapCur)
        <5>1. tapped' = tapped
          BY <4>2, <1>2
        <5>2. tap = "deferred" => Ranged
          BY DEF Ranged
        <5>3. tapCur = c
          BY <4>2, <5>2, <3>1, <2>0
        <5>4. QED
          BY <5>1, <5>3, <2>2 DEF IInv, Typed, Tapping
      <4>3. QED
        BY <4>1, <4>2
    <3>4. PICK f, x, h \in Nat :
              f = tapFrom /\ f <= e /\ tapped' = Run(f, e - f) /\ x = loaded' /\ h = r' /\ x - h = e
      <4>1. tapFrom \in Nat /\ loaded \in Nat /\ loaded' = loaded /\ r' = r - c
        BY <1>2 DEF IInv, Typed
      <4>2. loaded = b + r /\ loaded - r = b
        BY <1>1
      <4>3. /\ loaded - r + c = e /\ loaded - r + c - tapFrom = e - tapFrom
        BY <4>1, <4>2, <1>4
      <4>4. loaded' - r' = e
        BY <4>1, <4>2, <2>0, <1>4
      <4>5. r' \in Nat /\ loaded' \in Nat
        BY <4>1, <2>0, <1>1
      <4>6. QED
        BY <4>1, <4>3, <4>4, <4>5, <3>3
    <3>5. Tapping'
      <4>1. tap' = tap /\ tapFrom' = tapFrom
        BY <1>2
      <4>2. x - h + 0 = e /\ x - h + 0 - f = e - f
        <5>1. x - h = e
          BY <3>4
        <5>2. QED
          BY <5>1
      <4>3. /\ tapFrom' <= loaded' - r' + 0
            /\ tapped' = Run(tapFrom', loaded' - r' + 0 - tapFrom')
        BY <4>1, <4>2, <3>4
      <4>4. 0 <= Consumed'
        BY <1>10
      <4>5. QED
        BY <4>3, <4>4, <3>2, <1>10 DEF Tapping
    <3>6. QED
      BY <3>2, <3>3, <3>5
  <2>3. QED
    BY <2>1, <2>2
<1>12. /\ r' \in Nat /\ given' \in Nat /\ err' \in {"none", "eof", "io", "noprogress"}
       /\ given' <= src.bytes /\ (err' # "none" => err' = src.end /\ given' = src.bytes)
  <2>1. PICK s, g \in Nat : s = src.bytes /\ g = given
    BY DEF IInv, Typed, SourceOK
  <2>2. src.end \in {"eof", "io", "noprogress"}
    BY DEF IInv, Typed, SourceOK
  <2>3. g + k <= s /\ given' = g + k
    BY <2>1, <1>3
  <2>4. err' = "none" \/ (g + k = s /\ err' = src.end)
    BY <2>1, <1>2, <1>3
  <2>5. r' \in Nat
    BY <1>2, <1>4
  <2>6. QED
    BY <2>1, <2>2, <2>3, <2>4, <2>5
<1>13. Typed'
  BY <1>2, <1>6, <1>11, <1>12 DEF IInv, Typed
<1>14. Fetching'
  <2>1. given' <= src'.bytes /\ (err' # "none" => err' = src'.end /\ given' = src'.bytes)
    BY <1>2, <1>12
  <2>2. QED
    BY <2>1, <1>2 DEF IInv, Fetching
<1>15. Answered'
  BY <1>2 DEF Answered
<1>16. QED
  BY <1>9, <1>11, <1>13, <1>14, <1>15 DEF IInv

-----------------------------------------------------------------------------
(* A new source, and the calls on the tap.                                  *)

\* A reader bound to a source has read and consumed nothing.
LEMMA Fresh ==
    ASSUME NEW s, SourceOK(s),
           src' = s, given' = 0, buf' = <<>>, r' = 0, acc' = <<>>, loaded' = 0,
           err' = "none", tap' = "none", tapCur' = 0, tapFrom' = 0, tapped' = <<>>,
           pc' = "idle", call'.n \in Nat, from' = 0, asked' = 0, result' = "ok", taken' = <<>>
    PROVE  IInv'
<1>1. Run(0, 0) = <<>> /\ <<>> \in Seq(Nat) /\ Len(<<>>) = 0 /\ 0 \in Nat
  BY RunNone
<1>2. 0 * ByteBits = 0 /\ 0 - 0 = 0 /\ 0 - 0 + 0 = 0
  BY Widths
<1>3. s.bytes \in Nat
  BY DEF SourceOK
<1>4. Typed'
  BY <1>1 DEF Typed
<1>5. Placed'
  BY <1>1, <1>2 DEF Placed
<1>6. Tapping'
  BY DEF Tapping
<1>7. Fetching'
  BY <1>3 DEF Fetching
<1>8. Answered'
  BY DEF Answered
<1>9. QED
  BY <1>4, <1>5, <1>6, <1>7, <1>8 DEF IInv

LEMMA ResetKeeps == ASSUME IInv, NEW s, SourceOK(s), Reset(s) PROVE IInv'
<1>1. SourceOK(s)
  OBVIOUS
<1>2. /\ src' = s /\ given' = 0 /\ buf' = <<>> /\ r' = 0 /\ acc' = <<>> /\ loaded' = 0
      /\ err' = "none" /\ tap' = "none" /\ tapCur' = 0 /\ tapFrom' = 0 /\ tapped' = <<>>
      /\ pc' = "idle" /\ call' = call /\ from' = 0 /\ asked' = 0 /\ result' = "ok"
      /\ taken' = <<>>
  BY DEF Reset
<1>3. call'.n \in Nat
  BY <1>2 DEF IInv, Typed
<1>4. QED
  BY <1>1, <1>2, <1>3, Fresh

\* What the calls on the tap leave alone.
LEMMA OnlyTheTap ==
    ASSUME IInv,
           UNCHANGED <<source, buffer, pc, call, from, asked, result, taken>>,
           tap' \in {"none", "byte", "range", "deferred"}, tapCur' \in Nat, tapFrom' \in Nat,
           tapped' \in Seq(Nat), Tapping'
    PROVE  IInv'
<1>1. /\ src' = src /\ given' = given /\ buf' = buf /\ r' = r /\ acc' = acc
      /\ loaded' = loaded /\ err' = err /\ pc' = pc /\ call' = call /\ from' = from
      /\ asked' = asked /\ result' = result /\ taken' = taken
  BY DEF source, buffer
<1>2. Typed'
  BY <1>1 DEF IInv, Typed
<1>3. Placed' /\ Fetching' /\ Answered'
  BY <1>1 DEF IInv, Placed, Fetching, Answered, BitsLeft
<1>4. QED
  BY <1>2, <1>3 DEF IInv

LEMMA SetTapperKeeps ==
    ASSUME IInv, NEW t \in {"none", "byte", "range"}, SetTapper(t) PROVE IInv'
<1>1. PICK b, c \in Nat : b = loaded - r /\ c = Consumed
  BY Places DEF IInv
<1>2. /\ tap' = t
      /\ t = "none" => tapCur' = tapCur /\ tapFrom' = tapFrom /\ tapped' = tapped
      /\ t # "none" => tapCur' = c /\ tapped' = <<>> /\ tapFrom' = b + c
      /\ UNCHANGED <<source, buffer, pc, call, from, asked, result, taken>>
  BY <1>1 DEF SetTapper
<1>3. Consumed' = c /\ loaded' - r' = b
  BY <1>1, <1>2 DEF Consumed, ConsumedAt, buffer
<1>4. CASE t = "none"
  <2>1. Tapping'
    BY <1>2, <1>4 DEF Tapping
  <2>2. QED
    BY <2>1, <1>2, <1>4, OnlyTheTap DEF IInv, Typed
<1>5. CASE t # "none"
  <2>1. PICK e \in Nat : e = b + c
    OBVIOUS
  <2>2. Run(e, 0) = <<>> /\ <<>> \in Seq(Nat)
    BY RunNone
  <2>3. b + c <= b + c /\ b + (c - e) = 0 /\ b + c - e = 0 /\ c <= c
    BY <2>1
  <2>4. tapCur' = c /\ tapFrom' = e /\ tapped' = Run(e, 0)
    BY <1>2, <1>5, <2>1, <2>2
  <2>5. tapped' = Run(tapFrom', loaded' - r' + tapCur' - tapFrom')
    BY <2>3, <2>4, <1>3
  <2>6. tapFrom' <= loaded' - r' + tapCur' /\ tapCur' = Consumed' /\ tapCur' <= Consumed'
    BY <2>1, <2>3, <2>4, <1>3
  <2>7. Tapping'
    BY <2>5, <2>6 DEF Tapping
  <2>8. tapped' \in Seq(Nat)
    BY <2>2, <2>4
  <2>9. QED
    BY <2>4, <2>7, <2>8, <1>2, OnlyTheTap
<1>6. QED
  BY <1>4, <1>5

LEMMA SwitchKeeps == ASSUME IInv, SwitchTapToDeferred PROVE IInv'
<1>1. /\ tap = "range" /\ tap' = "deferred"
      /\ tapCur' = tapCur /\ tapFrom' = tapFrom /\ tapped' = tapped
      /\ UNCHANGED <<source, buffer, pc, call, from, asked, result, taken>>
  BY DEF SwitchTapToDeferred, buffer
<1>2. Consumed' = Consumed /\ loaded' = loaded /\ r' = r
  BY <1>1 DEF Consumed, ConsumedAt, buffer
<1>3. Tapping'
  BY <1>1, <1>2 DEF IInv, Tapping
<1>4. QED
  BY <1>1, <1>3, OnlyTheTap DEF IInv, Typed

LEMMA FlushTapKeeps == ASSUME IInv, FlushTap PROVE IInv'
<1>1. PICK b, c \in Nat : b = loaded - r /\ c = Consumed /\ c <= r
  BY Places DEF IInv
<1>2. /\ Ranged /\ c > tapCur /\ Hand(c) /\ tapCur' = c
      /\ tap' = tap /\ tapFrom' = tapFrom
      /\ UNCHANGED <<source, buffer, pc, call, from, asked, result, taken>>
  BY <1>1 DEF FlushTap
<1>3. tap # "none" /\ tapCur \in Nat
  BY <1>2 DEF Ranged, IInv, Typed
<1>4. tapCur <= c
  BY <1>2, <1>3
<1>5. /\ tapped' \in Seq(Nat) /\ tapFrom <= loaded - r + c
      /\ tapped' = Run(tapFrom, loaded - r + c - tapFrom)
  BY <1>1, <1>2, <1>3, <1>4, Handed DEF IInv
<1>6. Consumed' = c /\ loaded' = loaded /\ r' = r
  BY <1>1, <1>2 DEF Consumed, ConsumedAt, buffer
<1>7. c <= c
  OBVIOUS
<1>8. Tapping'
  BY <1>2, <1>5, <1>6, <1>7 DEF Tapping
<1>9. QED
  BY <1>2, <1>5, <1>8, OnlyTheTap DEF IInv, Typed

-----------------------------------------------------------------------------
(* The reads.                                                               *)

\* A read's step that consumes m bits keeps what is known of places and tap.
LEMMA Serving ==
    ASSUME IInv, NEW m \in 0..Len(acc), Consume(m),
           UNCHANGED <<source, buf, r, loaded, err>>,
           from' \in Nat, asked' \in Nat, pc' \in {"idle", "word", "loop"}, call'.n \in Nat
    PROVE  /\ Typed' /\ Placed' /\ Tapping'
           /\ Len(acc') = Len(acc) - m /\ Len(taken') = Len(taken) + m
           /\ src' = src /\ given' = given /\ buf' = buf /\ r' = r /\ err' = err
<1>1. /\ src' = src /\ given' = given /\ buf' = buf /\ r' = r /\ loaded' = loaded
      /\ err' = err
  BY DEF source
<1>2. /\ Placed' /\ Tapping'
      /\ acc' \in Seq(Nat) /\ taken' \in Seq(Nat) /\ tapped' \in Seq(Nat)
      /\ tapCur' \in Nat /\ tapFrom' \in Nat
      /\ tap' \in {"none", "byte", "range", "deferred"}
      /\ Len(taken') = Len(taken) + m /\ Len(acc') = Len(acc) - m
  BY <1>1, Consumes DEF IInv
<1>3. Typed'
  BY <1>1, <1>2 DEF IInv, Typed
<1>4. QED
  BY <1>1, <1>2, <1>3

\* One that consumes none does too.
LEMMA Waiting ==
    ASSUME IInv, UNCHANGED <<source, buf, r, loaded, err, acc, taps, taken>>,
           from' \in Nat, asked' \in Nat, pc' \in {"idle", "word", "loop"}, call'.n \in Nat
    PROVE  /\ Typed' /\ Placed' /\ Tapping'
           /\ src' = src /\ given' = given /\ buf' = buf /\ r' = r /\ err' = err
<1>1. /\ src' = src /\ given' = given /\ buf' = buf /\ r' = r /\ loaded' = loaded
      /\ err' = err /\ acc' = acc /\ taken' = taken /\ tap' = tap /\ tapCur' = tapCur
      /\ tapFrom' = tapFrom /\ tapped' = tapped
  BY DEF source, taps
<1>2. Typed'
  BY <1>1 DEF IInv, Typed
<1>3. Placed' /\ Tapping'
  BY <1>1 DEF IInv, Placed, Tapping, Consumed, ConsumedAt
<1>4. QED
  BY <1>1, <1>2, <1>3

\* A step to fill's word path finds the accumulator empty and a word in the buffer.
LEMMA EntersFill ==
    ASSUME IInv, NEW bits, StartFill(bits)
    PROVE  /\ pc' \in {"word", "loop"}
           /\ pc' = "word" => bits = 0 /\ Len(buf) - r >= AccBytes
BY DEF StartFill

\* ReadBits: the fast path, or the start of a fetch.
LEMMA ReadBitsKeeps == ASSUME IInv, NEW n \in Nat, ReadBits(n) PROVE IInv'
<1>1. /\ n \in Nat /\ from' = Len(taken) /\ asked' = n
      /\ UNCHANGED <<source, buf, r, loaded, err>>
  BY DEF ReadBits, Called
<1>2. from' \in Nat /\ asked' \in Nat /\ Len(acc) \in Nat /\ acc \in Seq(Nat)
  BY <1>1, LenProperties DEF IInv, Typed
<1>3. CASE n <= Len(acc)
  <2>1. Consume(n) /\ pc' = "idle" /\ call' = NoCall /\ result' = "ok"
    BY <1>3 DEF ReadBits, Return
  <2>2. n \in 0..Len(acc) /\ call'.n \in Nat
    BY <2>1, <1>1, <1>2, <1>3 DEF NoCall
  <2>3. /\ Typed' /\ Placed' /\ Tapping'
        /\ src' = src /\ given' = given /\ buf' = buf /\ r' = r /\ err' = err
    BY <2>1, <2>2, <1>1, <1>2, Serving
  <2>4. Fetching' /\ Answered'
    BY <2>1, <2>3 DEF IInv, Fetching, Answered
  <2>5. QED
    BY <2>3, <2>4 DEF IInv
<1>4. CASE ~(n <= Len(acc))
  <2>1. /\ StartFill(Len(acc)) /\ call' = [op |-> "bits", n |-> n]
        /\ UNCHANGED <<acc, taps, taken, result>>
    BY <1>4 DEF ReadBits
  <2>2. /\ pc' \in {"word", "loop"}
        /\ pc' = "word" => Len(acc) = 0 /\ Len(buf) - r >= AccBytes
    BY <2>1, EntersFill
  <2>3. call'.op = "bits" /\ call'.n = n
    BY <2>1
  <2>4. /\ Typed' /\ Placed' /\ Tapping'
        /\ src' = src /\ given' = given /\ buf' = buf /\ r' = r /\ err' = err
    BY <2>1, <2>2, <2>3, <1>1, <1>2, Waiting
  <2>5. pc' = "word" => acc' = <<>>
    BY <2>1, <2>2, <1>2, EmptySeq
  <2>6. acc' = acc /\ taken' = taken
    BY <2>1
  <2>7. Fetching'
    BY <2>2, <2>3, <2>4, <2>5, <2>6, <1>1 DEF IInv, Fetching
  <2>8. Answered'
    BY <2>2 DEF Answered
  <2>9. QED
    BY <2>4, <2>7, <2>8 DEF IInv
<1>5. QED
  BY <1>3, <1>4

\* readBitsSlow after fill.  If the bits asked for would have fitted, they are there
\* or the source has ended before them, with all its bytes loaded.
LEMMA ReadBitsFilledKeeps == ASSUME IInv, ReadBitsFilled PROVE IInv'
<1>1. /\ pc = "loop" /\ (~Room \/ (r = Len(buf) /\ err # "none")) /\ call.op = "bits"
      /\ UNCHANGED <<source, buf, r, loaded, err>> /\ from' = from /\ asked' = asked
  BY DEF ReadBitsFilled, Filled
<1>2. /\ from' \in Nat /\ asked' \in Nat /\ from \in Nat /\ asked \in Nat
      /\ Len(acc) \in Nat /\ acc \in Seq(Nat) /\ call.n \in Nat
  BY <1>1, LenProperties DEF IInv, Typed
<1>3. ~Room => Len(acc) >= Whole
  <2>1. PICK x \in Nat : x = (AccBytes - 1) * ByteBits
    <3>1. AccBytes - 1 \in Nat /\ ByteBits \in Nat
      BY Widths
    <3>2. (AccBytes - 1) * ByteBits \in Nat
      BY <3>1
    <3>3. QED
      BY <3>2
  <2>2. Whole = x + 1 /\ (Room <=> Len(acc) <= x)
    BY <2>1 DEF Whole, Room
  <2>3. QED
    BY <2>2, <1>2
<1>4. asked <= Whole => call.n = asked /\ from = Len(taken)
  BY <1>1 DEF IInv, Fetching
<1>5. CASE call.n <= Len(acc) /\ Consume(call.n) /\ Return("ok")
  <2>1. pc' = "idle" /\ call' = NoCall /\ result' = "ok"
    BY <1>5 DEF Return
  <2>2. call.n \in 0..Len(acc) /\ call'.n \in Nat /\ Consume(call.n)
    BY <2>1, <1>2, <1>5 DEF NoCall
  <2>3. /\ Typed' /\ Placed' /\ Tapping'
        /\ src' = src /\ given' = given /\ buf' = buf /\ r' = r /\ err' = err
    BY <2>1, <2>2, <1>1, <1>2, Serving
  <2>4. Fetching' /\ Answered'
    BY <2>1, <2>3 DEF IInv, Fetching, Answered
  <2>5. QED
    BY <2>3, <2>4 DEF IInv
<1>6. CASE /\ call.n > Len(acc) /\ err = "none"
           /\ Consume(Len(acc))
           /\ call' = [call EXCEPT !.n = @ - Len(acc)]
           /\ StartFill(0)
           /\ UNCHANGED result
  <2>1. /\ pc' \in {"word", "loop"}
        /\ pc' = "word" => Len(buf) - r >= AccBytes
    BY <1>6, EntersFill
  <2>2. call.n > Whole
    BY <1>1, <1>2, <1>3, <1>6, Widths
  <2>3. ~(asked <= Whole)
    BY <2>2, <1>2, <1>4, Widths
  <2>4. PICK m \in Nat : m = Len(acc) /\ m \in 0..Len(acc)
    BY <1>2
  <2>5. call'.n \in Nat
    <3>1. PICK q \in Nat : q = call.n - m
      BY <2>4, <1>2, <1>6
    <3>2. QED
      BY <3>1, <2>4, <1>2, <1>6
  <2>6. /\ Typed' /\ Placed' /\ Tapping'
        /\ Len(acc') = Len(acc) - m
        /\ src' = src /\ given' = given /\ buf' = buf /\ r' = r /\ err' = err
    BY <2>1, <2>4, <2>5, <1>1, <1>2, <1>6, Serving
  <2>7. acc' = <<>>
    <3>1. Len(acc') = 0
      BY <2>4, <2>6
    <3>2. acc' \in Seq(Nat)
      BY <2>6 DEF Typed
    <3>3. QED
      BY <3>1, <3>2, EmptySeq
  <2>8. call'.op = "bits"
    BY <1>1, <1>6 DEF IInv, Typed
  <2>9. Fetching' /\ Answered'
    BY <2>1, <2>3, <2>6, <2>7, <2>8, <1>1 DEF IInv, Fetching, Answered
  <2>10. QED
    BY <2>6, <2>9 DEF IInv
<1>7. CASE /\ call.n > Len(acc) /\ err # "none"
           /\ Return(EndError)
           /\ UNCHANGED <<acc, taps, taken>>
  <2>1. pc' = "idle" /\ call' = NoCall /\ result' = EndError
    BY <1>7 DEF Return
  <2>2. call'.n \in Nat
    BY <2>1 DEF NoCall
  <2>3. /\ Typed' /\ Placed' /\ Tapping'
        /\ src' = src /\ given' = given /\ buf' = buf /\ r' = r /\ err' = err
    BY <2>1, <2>2, <1>1, <1>2, <1>7, Waiting
  <2>4. Fetching'
    BY <2>1, <2>3 DEF IInv, Fetching
  <2>5. Answered'
    <3>1. SUFFICES ASSUME asked \in 1..Whole
                   PROVE  /\ asked > BitsLeft
                          /\ EndError = "eof" <=> (src.end = "eof" /\ BitsLeft = 0)
                          /\ EndError # "ok"
      BY <2>1, <2>3, <1>1 DEF Answered, BitsLeft
    <3>2. call.n = asked /\ from = Len(taken) /\ asked <= Whole
      BY <3>1, <1>2, <1>4, Widths
    <3>3. r = Len(buf) /\ err = src.end /\ given = src.bytes
      <4>1. Room
        BY <3>2, <1>2, <1>3, <1>7, Widths
      <4>2. QED
        BY <4>1, <1>1, <1>7 DEF IInv, Fetching
    <3>4. BitsLeft = Len(acc)
      <4>1. PICK b, w, t, n, c \in Nat :
                /\ b = loaded - r /\ loaded = b + r /\ given = b + w
                /\ w = Len(buf) /\ r <= w /\ buf = Run(b, w)
                /\ t = Len(taken) /\ taken = Run(0, t)
                /\ n = Len(acc) /\ acc = Run(t, n)
                /\ t + n = loaded * ByteBits /\ n <= r * ByteBits
                /\ c = Consumed /\ c <= r
        BY Places DEF IInv
      <4>2. loaded = src.bytes
        BY <4>1, <3>3
      <4>3. BitsLeft = loaded * ByteBits - t
        BY <4>1, <4>2, <3>2 DEF BitsLeft
      <4>4. PICK x \in Nat : x = loaded * ByteBits /\ t + n = x
        BY <4>1
      <4>5. x - t = n
        BY <4>4
      <4>6. QED
        BY <4>1, <4>3, <4>4, <4>5
    <3>5. asked > BitsLeft
      BY <3>2, <3>4, <1>7
    <3>6. acc = <<>> <=> Len(acc) = 0
      BY <1>2, EmptySeq
    <3>7. err \in {"eof", "io", "noprogress"} /\ ~(call.n < asked)
      BY <3>2, <1>2, <1>7 DEF IInv, Typed
    <3>8. /\ EndError = "eof" <=> (err = "eof" /\ acc = <<>>)
          /\ EndError # "ok"
      BY <3>7 DEF EndError
    <3>9. QED
      BY <3>3, <3>4, <3>5, <3>6, <3>8
  <2>6. QED
    BY <2>3, <2>4, <2>5 DEF IInv
<1>8. QED
  BY <1>5, <1>6, <1>7 DEF ReadBitsFilled

\* The zeros that the accumulator starts with are no more than it holds.
LEMMA ZerosFit ==
    ASSUME Typed
    PROVE  /\ Len(acc) \in Nat /\ LeadingZeros \in 0..Len(acc)
           /\ LeadingZeros # Len(acc) => LeadingZeros + 1 \in 0..Len(acc)
<1>1. Len(acc) \in Nat /\ DOMAIN acc = 1..Len(acc)
  BY LenProperties DEF Typed
<1>2. PICK ones : ones = {i \in DOMAIN acc : acc[i] \in src.ones}
  OBVIOUS
<1>3. ones \subseteq 1..Len(acc)
  BY <1>1, <1>2
<1>4. CASE ones = {}
  BY <1>1, <1>2, <1>4 DEF LeadingZeros
<1>5. CASE ones # {}
  <2>1. PICK m \in ones : \A y \in ones : m <= y
    <3>1. ones \in SUBSET Nat
      BY <1>3
    <3>2. PICK o \in ones : TRUE
      BY <1>5
    <3>3. QED
      BY <3>1, <3>2, NatMin
  <2>2. Min(ones) \in ones
    <3>1. \E x \in ones : \A y \in ones : x <= y
      BY <2>1
    <3>2. QED
      BY <3>1 DEF Min
  <2>3. PICK f \in 1..Len(acc) : f = Min(ones)
    BY <2>2, <1>3
  <2>4. LeadingZeros = f - 1
    BY <2>3, <1>2, <1>5 DEF LeadingZeros
  <2>5. QED
    BY <2>3, <2>4, <1>1
<1>6. QED
  BY <1>4, <1>5

\* ReadUnary's loop takes the zeros, and the one that ends them if it is there.
LEMMA Scans ==
    ASSUME IInv, Scan, UNCHANGED <<source, buf, r, loaded, err>>,
           from' \in Nat, asked' = 0
    PROVE  IInv'
<1>1. /\ Len(acc) \in Nat /\ LeadingZeros \in 0..Len(acc) /\ asked' \in Nat
      /\ LeadingZeros # Len(acc) => LeadingZeros + 1 \in 0..Len(acc)
  BY ZerosFit DEF IInv
<1>2. Answered'
  BY DEF Answered
<1>3. CASE LeadingZeros = Len(acc)
  <2>1. /\ Consume(Len(acc)) /\ StartFill(0) /\ call' = [op |-> "unary", n |-> 0]
    BY <1>3 DEF Scan
  <2>2. /\ pc' \in {"word", "loop"}
        /\ pc' = "word" => Len(buf) - r >= AccBytes
    BY <2>1, EntersFill
  <2>3. call'.n \in Nat /\ call'.op = "unary"
    BY <2>1
  <2>4. PICK m \in Nat : m = Len(acc) /\ m \in 0..Len(acc) /\ Consume(m)
    BY <2>1, <1>1
  <2>5. /\ Typed' /\ Placed' /\ Tapping'
        /\ Len(acc') = Len(acc) - m
        /\ src' = src /\ given' = given /\ buf' = buf /\ r' = r /\ err' = err
    BY <2>2, <2>3, <2>4, <1>1, Serving
  <2>6. acc' = <<>>
    <3>1. Len(acc') = 0
      BY <2>4, <2>5
    <3>2. acc' \in Seq(Nat)
      BY <2>5 DEF Typed
    <3>3. QED
      BY <3>1, <3>2, EmptySeq
  <2>7. Fetching'
    BY <2>2, <2>3, <2>5, <2>6 DEF IInv, Fetching
  <2>8. QED
    BY <2>5, <2>7, <1>2 DEF IInv
<1>4. CASE LeadingZeros # Len(acc)
  <2>1. Consume(LeadingZeros + 1) /\ pc' = "idle" /\ call' = NoCall
    BY <1>4 DEF Scan, Return
  <2>2. LeadingZeros + 1 \in 0..Len(acc) /\ call'.n \in Nat
    BY <2>1, <1>1, <1>4 DEF NoCall
  <2>3. /\ Typed' /\ Placed' /\ Tapping'
        /\ src' = src /\ given' = given /\ buf' = buf /\ r' = r /\ err' = err
    BY <2>1, <2>2, <1>1, Serving
  <2>4. Fetching'
    BY <2>1, <2>3 DEF IInv, Fetching
  <2>5. QED
    BY <2>3, <2>4, <1>2 DEF IInv
<1>5. QED
  BY <1>3, <1>4

LEMMA ReadUnaryKeeps == ASSUME IInv, ReadUnary PROVE IInv'
<1>1. /\ from' = Len(taken) /\ asked' = 0
      /\ UNCHANGED <<source, buf, r, loaded, err>>
  BY DEF ReadUnary, Called
<1>2. from' \in Nat /\ asked' \in Nat
  BY <1>1, LenProperties DEF IInv, Typed
<1>3. CASE acc = <<>>
  <2>1. /\ StartFill(0) /\ call' = [op |-> "unary", n |-> 0]
        /\ UNCHANGED <<acc, taps, taken, result>>
    BY <1>3 DEF ReadUnary
  <2>2. /\ pc' \in {"word", "loop"}
        /\ pc' = "word" => Len(buf) - r >= AccBytes
    BY <2>1, EntersFill
  <2>3. call'.n \in Nat /\ call'.op = "unary"
    BY <2>1
  <2>4. /\ Typed' /\ Placed' /\ Tapping'
        /\ src' = src /\ given' = given /\ buf' = buf /\ r' = r /\ err' = err
    BY <2>1, <2>2, <2>3, <1>1, <1>2, Waiting
  <2>5. acc' = <<>>
    BY <2>1, <1>3
  <2>6. Fetching' /\ Answered'
    BY <2>2, <2>3, <2>4, <2>5, <1>1 DEF IInv, Fetching, Answered
  <2>7. QED
    BY <2>4, <2>6 DEF IInv
<1>4. CASE acc # <<>>
  BY <1>1, <1>2, <1>4, Scans DEF ReadUnary
<1>5. QED
  BY <1>3, <1>4

LEMMA ReadUnaryFilledKeeps == ASSUME IInv, ReadUnaryFilled PROVE IInv'
<1>1. /\ pc = "loop" /\ call.op = "unary" /\ from' = from /\ asked' = asked
      /\ UNCHANGED <<source, buf, r, loaded, err>>
  BY DEF ReadUnaryFilled, Filled
<1>2. from' \in Nat /\ asked' \in Nat /\ asked' = 0
  BY <1>1 DEF IInv, Typed, Fetching
<1>3. CASE acc = <<>>
  <2>1. pc' = "idle" /\ call' = NoCall /\ UNCHANGED <<acc, taps, taken>>
    BY <1>3 DEF ReadUnaryFilled, Return
  <2>2. call'.n \in Nat
    BY <2>1 DEF NoCall
  <2>3. /\ Typed' /\ Placed' /\ Tapping'
        /\ src' = src /\ given' = given /\ buf' = buf /\ r' = r /\ err' = err
    BY <2>1, <2>2, <1>1, <1>2, Waiting
  <2>4. Fetching' /\ Answered'
    BY <2>1, <2>3, <1>2 DEF IInv, Fetching, Answered
  <2>5. QED
    BY <2>3, <2>4 DEF IInv
<1>4. CASE acc # <<>>
  BY <1>1, <1>2, <1>4, Scans DEF ReadUnaryFilled
<1>5. QED
  BY <1>3, <1>4

LEMMA SkipKeeps == ASSUME IInv, SkipToByteBoundary PROVE IInv'
<1>1. /\ Consume(Len(acc) % ByteBits)
      /\ UNCHANGED <<source, buf, r, loaded, err>>
      /\ pc' = pc /\ call' = call /\ from' = from /\ asked' = asked /\ result' = result
  BY DEF SkipToByteBoundary
<1>2. PICK m \in 0..Len(acc) : m = Len(acc) % ByteBits
  <2>1. PICK n, d \in Nat : n = Len(acc) /\ d = ByteBits /\ d > 0
    <3>1. Len(acc) \in Nat /\ ByteBits \in Nat /\ ByteBits > 0
      BY Widths, LenProperties DEF IInv, Typed
    <3>2. QED
      BY <3>1
  <2>2. n % d \in Nat /\ n \div d \in Nat /\ n = (n \div d) * d + (n % d)
    BY <2>1, Division
  <2>3. n % d <= n
    <3>1. PICK x \in Nat : x = (n \div d) * d
      BY <2>1, <2>2
    <3>2. n = x + (n % d)
      BY <2>2, <3>1
    <3>3. QED
      BY <3>1, <3>2, <2>2
  <2>4. QED
    BY <2>1, <2>2, <2>3
<1>3. /\ from' \in Nat /\ asked' \in Nat /\ pc' \in {"idle", "word", "loop"} /\ call'.n \in Nat
      /\ Consume(m)
  BY <1>1, <1>2 DEF IInv, Typed
<1>4. /\ Typed' /\ Placed' /\ Tapping'
      /\ src' = src /\ given' = given /\ buf' = buf /\ r' = r /\ err' = err
  BY <1>1, <1>3, Serving
<1>5. pc = "idle"
  BY DEF SkipToByteBoundary
<1>6. Fetching' /\ Answered'
  BY <1>1, <1>4, <1>5 DEF IInv, Fetching, Answered, BitsLeft
<1>7. QED
  BY <1>4, <1>6 DEF IInv

-----------------------------------------------------------------------------
(* The invariant, and what follows from it.                                 *)

LEMMA Initially == ASSUME Init PROVE IInv
<1>1. SourceOK(src)
  BY SourcesAssumption DEF Init
<1>2. Run(0, 0) = <<>> /\ <<>> \in Seq(Nat) /\ Len(<<>>) = 0 /\ 0 \in Nat
  BY RunNone
<1>3. 0 * ByteBits = 0 /\ 0 - 0 = 0 /\ 0 - 0 + 0 = 0
  BY Widths
<1>4. src.bytes \in Nat
  BY <1>1 DEF SourceOK
<1>5. Typed
  BY <1>1, <1>2 DEF Init, Typed, NoCall
<1>6. Placed
  BY <1>2, <1>3 DEF Init, Placed
<1>7. Tapping /\ Fetching /\ Answered
  BY <1>4 DEF Init, Tapping, Fetching, Answered
<1>8. QED
  BY <1>5, <1>6, <1>7 DEF IInv

\* A running call goes on.
LEMMA StepKeeps == ASSUME IInv, Step PROVE IInv'
<1>1. CASE LoadWord
  BY <1>1, LoadWordKeeps
<1>2. CASE LoadByte
  BY <1>2, LoadByteKeeps
<1>3. CASE ReadMore
  BY <1>3, ReadMoreKeeps
<1>4. CASE ReadBitsFilled
  BY <1>4, ReadBitsFilledKeeps
<1>5. CASE ReadUnaryFilled
  BY <1>5, ReadUnaryFilledKeeps
<1>6. QED
  BY <1>1, <1>2, <1>3, <1>4, <1>5 DEF Step

\* Nothing happens.
LEMMA StillKeeps == ASSUME IInv, UNCHANGED vars PROVE IInv'
<1>1. /\ src' = src /\ given' = given /\ buf' = buf /\ r' = r /\ acc' = acc
      /\ loaded' = loaded /\ err' = err /\ pc' = pc /\ call' = call /\ from' = from
      /\ asked' = asked /\ result' = result /\ taken' = taken /\ tap' = tap
      /\ tapCur' = tapCur /\ tapFrom' = tapFrom /\ tapped' = tapped
  BY DEF vars, source, buffer, taps
<1>2. Typed' /\ Placed'
  BY <1>1 DEF IInv, Typed, Placed
<1>3. Tapping' /\ Fetching' /\ Answered'
  BY <1>1 DEF IInv, Tapping, Consumed, ConsumedAt, Fetching, Answered, BitsLeft
<1>4. QED
  BY <1>2, <1>3 DEF IInv

LEMMA Inductive == ASSUME IInv, [Next]_vars PROVE IInv'
<1>1. CASE Step
  BY <1>1, StepKeeps
<1>2. ASSUME NEW s \in Sources, Reset(s) PROVE IInv'
  BY <1>2, ResetKeeps, SourcesAssumption
<1>3. ASSUME NEW n \in ReadLengths, ReadBits(n) PROVE IInv'
  BY <1>3, ReadBitsKeeps, Widths
<1>4. CASE ReadUnary
  BY <1>4, ReadUnaryKeeps
<1>5. CASE SkipToByteBoundary
  BY <1>5, SkipKeeps
<1>6. ASSUME NEW t \in {"none", "byte", "range"}, SetTapper(t) PROVE IInv'
  BY <1>6, SetTapperKeeps
<1>7. CASE SwitchTapToDeferred
  BY <1>7, SwitchKeeps
<1>8. CASE FlushTap
  BY <1>8, FlushTapKeeps
<1>9. CASE UNCHANGED vars
  BY <1>9, StillKeeps
<1>10. QED
  BY <1>1, <1>2, <1>3, <1>4, <1>5, <1>6, <1>7, <1>8, <1>9 DEF Next

LEMMA ReaderHolds == Spec => []IInv
<1>1. Init => IInv
  BY Initially
<1>2. IInv /\ [Next]_vars => IInv'
  BY Inductive
<1>3. QED
  BY <1>1, <1>2, PTL DEF Spec

\* In whatever pieces the source's bytes arrive and whatever mix of reads takes them,
\* the bits come out in order and each once, and a read that fill makes room for
\* fails only where the source ends (fill, readMore's compaction, readBitsSlow).
THEOREM BitsAreInOrder == Spec => []BitsComeInOrder
<1>1. ASSUME IInv PROVE BitsComeInOrder
  <2>1. PICK b, w, t, n, c \in Nat :
            /\ b = loaded - r /\ loaded = b + r /\ given = b + w
            /\ w = Len(buf) /\ r <= w /\ buf = Run(b, w)
            /\ t = Len(taken) /\ taken = Run(0, t)
            /\ n = Len(acc) /\ acc = Run(t, n)
            /\ t + n = loaded * ByteBits /\ n <= r * ByteBits
            /\ c = Consumed /\ c <= r
    BY <1>1, Places DEF IInv
  <2>2. taken \o acc = Positions(0, loaded * ByteBits)
    <3>1. 0 \in Nat /\ t \in Nat /\ n \in Nat
      OBVIOUS
    <3>2. Run(0, t) \o Run(0 + t, n) = Run(0, t + n)
      <4>1. RunsJoin(0, t, n)
        BY <3>1, RunsMeet
      <4>2. QED
        BY <4>1 DEF RunsJoin
    <3>3. 0 + t = t /\ t + n - 0 = t + n
      OBVIOUS
    <3>4. Positions(0, t + n) = Run(0, t + n - 0)
      BY PositionsAreRun
    <3>5. taken \o acc = Run(0, t) \o Run(0 + t, n)
      BY <3>3, <2>1, Zenon
    <3>6. QED
      BY <3>2, <3>3, <3>4, <3>5, <2>1, Zenon
  <2>3. From(buf, r + 1) = Positions(loaded, given)
    <3>1. PICK q \in Nat : q = r /\ q <= w /\ loaded = b + q /\ given = b + w
      BY <1>1, <2>1 DEF IInv, Typed
    <3>2. From(Run(b, w), q + 1) = Run(b + q, w - q)
      <4>1. q \in 0..w
        BY <3>1
      <4>2. QED
        BY <4>1, Compacting
    <3>3. Positions(b + q, b + w) = Run(b + q, (b + w) - (b + q))
      BY PositionsAreRun
    <3>4. (b + w) - (b + q) = w - q
      OBVIOUS
    <3>5. QED
      BY <3>1, <3>2, <3>3, <3>4, <2>1
  <2>4. (AccBytes - 1) * ByteBits + 1 = Whole
    BY DEF Whole
  <2>5. QED
    BY <1>1, <2>2, <2>3, <2>4 DEF IInv, Answered, BitsComeInOrder
<1>2. QED
  BY <1>1, ReaderHolds, PTL

\* The tap gets every byte consumed since it was installed, once and in order, per
\* byte or in deferred runs, over the switch and over a compaction (emitTaps,
\* readMore, FlushTap).
THEOREM TapIsComplete == Spec => []TapSeesEveryByte
<1>1. ASSUME IInv PROVE TapSeesEveryByte
  <2>1. PICK b, w, c \in Nat :
            b = loaded - r /\ r <= w /\ buf = Run(b, w) /\ c = Consumed /\ c <= r
    BY <1>1, Places DEF IInv
  <2>2. SUFFICES ASSUME tap # "none"
                 PROVE  /\ tapped \o SubSeq(buf, tapCur + 1, c) = Positions(tapFrom, b + c)
                        /\ tap # "deferred" /\ pc = "idle" => tapped = Positions(tapFrom, b + c)
    BY <2>1 DEF TapSeesEveryByte
  <2>3. PICK f, p \in Nat : f = tapFrom /\ p = tapCur
    BY <1>1 DEF IInv, Typed
  <2>4. /\ p <= c /\ f <= b + p /\ tapped = Run(f, b + p - f) /\ (tap # "deferred" => p = c)
    <3>1. b + (p - f) = b + p - f
      OBVIOUS
    <3>2. QED
      BY <3>1, <2>1, <2>2, <2>3, <1>1 DEF IInv, Tapping
  <2>5. PICK k, m \in Nat : k = b + p - f /\ m = c - p
    BY <2>4
  <2>6. tapped = Run(f, k) /\ f + k = b + p /\ k + m = (b + c) - f
    BY <2>4, <2>5
  <2>7. SubSeq(buf, p + 1, c) = Run(f + k, m)
    <3>1. p \in 0..w /\ c \in p..w
      <4>1. r \in Nat
        BY <1>1 DEF IInv, Typed
      <4>2. QED
        BY <4>1, <2>1, <2>4
    <3>2. SubSeq(Run(b, w), p + 1, c) = Run(b + p, c - p)
      BY <3>1, RunCut
    <3>3. QED
      BY <3>2, <2>1, <2>5, <2>6
  <2>8. Run(f, k) \o Run(f + k, m) = Run(f, k + m)
    <3>1. RunsJoin(f, k, m)
      BY RunsMeet
    <3>2. QED
      BY <3>1 DEF RunsJoin
  <2>9. Positions(f, b + c) = Run(f, (b + c) - f)
    BY PositionsAreRun
  <2>10. tapped \o SubSeq(buf, p + 1, c) = Positions(f, b + c)
    BY <2>6, <2>7, <2>8, <2>9, Zenon
  <2>11. tap # "deferred" => tapped = Positions(f, b + c)
    BY <2>4, <2>9
  <2>12. QED
    BY <2>3, <2>10, <2>11
<1>2. QED
  BY <1>1, ReaderHolds, PTL

-----------------------------------------------------------------------------
(* Powers of two.                                                           *)

\* The subsets of a finite set are a power of two in number; that is how a power is known
\* to be a number at all.
LEMMA PowType == ASSUME NEW k \in Nat PROVE W!Pow(k) \in Nat /\ W!Pow(k) > 0
<1>1. PICK S : S = 1..k
  OBVIOUS
<1>2. IsFiniteSet(S) /\ Cardinality(S) = k
  BY <1>1, FS_Interval
<1>3. IsFiniteSet(SUBSET S) /\ Cardinality(SUBSET S) = W!Pow(k)
  <2>1. IsFiniteSet(SUBSET S) /\ Cardinality(SUBSET S) = 2 ^ Cardinality(S)
    BY <1>2, FS_SUBSET
  <2>2. QED
    BY <1>2, <2>1, Zenon DEF W!Pow
<1>4. Cardinality(SUBSET S) \in Nat
  BY <1>3, FS_CardinalityType
<1>5. Cardinality(SUBSET S) # 0
  <2>1. SUBSET S # {}
    OBVIOUS
  <2>2. QED
    BY <1>3, <2>1, FS_EmptySet
<1>6. QED
  BY <1>3, <1>4, <1>5

\* One more bit doubles it.
LEMMA PowNext == ASSUME NEW k \in Nat PROVE W!Pow(k + 1) = 2 * W!Pow(k)
<1>1. PICK m \in Nat : m = k + 1
  OBVIOUS
<1>2. PICK S, T : S = 1..k /\ T = 1..m
  OBVIOUS
<1>3. /\ IsFiniteSet(S) /\ Cardinality(S) = k /\ IsFiniteSet(T) /\ Cardinality(T) = m
  BY <1>1, <1>2, FS_Interval
<1>4. /\ IsFiniteSet(SUBSET S) /\ Cardinality(SUBSET S) = W!Pow(k)
      /\ IsFiniteSet(SUBSET T) /\ Cardinality(SUBSET T) = W!Pow(m)
  <2>1. /\ IsFiniteSet(SUBSET S) /\ Cardinality(SUBSET S) = 2 ^ Cardinality(S)
        /\ IsFiniteSet(SUBSET T) /\ Cardinality(SUBSET T) = 2 ^ Cardinality(T)
    BY <1>3, FS_SUBSET
  <2>2. QED
    BY <1>3, <2>1, Zenon DEF W!Pow
<1>5. T = S \cup {m} /\ m \notin S
  BY <1>1, <1>2
<1>6. PICK f : f = [X \in SUBSET S |-> X \cup {m}]
  OBVIOUS
<1>7. PICK U : U = {f[X] : X \in SUBSET S}
  OBVIOUS
<1>8. \A X \in SUBSET S : f[X] = X \cup {m}
  BY <1>6
<1>9. f \in Bijection(SUBSET S, U)
  <2>1. f \in [SUBSET S -> U]
    BY <1>6, <1>7
  <2>2. ASSUME NEW X \in SUBSET S, NEW Y \in SUBSET S, f[X] = f[Y] PROVE X = Y
    <3>1. X \cup {m} = Y \cup {m} /\ m \notin X /\ m \notin Y
      BY <1>5, <1>8, <2>2
    <3>2. QED
      BY <3>1
  <2>3. \A y \in U : \E X \in SUBSET S : f[X] = y
    BY <1>7
  <2>4. QED
    BY <2>1, <2>2, <2>3, Fun_IsBij
<1>10. IsFiniteSet(U) /\ Cardinality(U) = Cardinality(SUBSET S)
  BY <1>4, <1>9, FS_Bijection DEF ExistsBijection
<1>11. SUBSET T = (SUBSET S) \cup U
  <2>1. ASSUME NEW X \in SUBSET T PROVE X \in (SUBSET S) \cup U
    <3>1. CASE m \in X
      <4>1. PICK Y : Y = X \ {m}
        OBVIOUS
      <4>2. Y \in SUBSET S
        BY <1>5, <4>1
      <4>3. f[Y] = Y \cup {m}
        BY <1>8, <4>2
      <4>4. Y \cup {m} = X
        BY <3>1, <4>1
      <4>5. QED
        BY <1>7, <4>2, <4>3, <4>4
    <3>2. CASE m \notin X
      BY <1>5, <3>2
    <3>3. QED
      BY <3>1, <3>2
  <2>2. U \subseteq SUBSET T
    BY <1>5, <1>7, <1>8
  <2>3. SUBSET S \subseteq SUBSET T
    BY <1>5
  <2>4. QED
    BY <2>1, <2>2, <2>3
<1>12. (SUBSET S) \cap U = {}
  BY <1>5, <1>7, <1>8
<1>13. Cardinality(SUBSET T) = Cardinality(SUBSET S) + Cardinality(U) - Cardinality({})
  BY <1>4, <1>10, <1>11, <1>12, FS_Union
<1>14. Cardinality({}) = 0
  BY FS_EmptySet
<1>15. W!Pow(k) \in Nat
  BY PowType
<1>16. QED
  BY <1>1, <1>4, <1>10, <1>13, <1>14, <1>15

LEMMA PowZero == W!Pow(0) = 1
BY DEF W!Pow

\* Shifts add up.
LEMMA PowSum ==
    ASSUME NEW a \in Nat, NEW b \in Nat
    PROVE  W!Pow(a + b) = W!Pow(a) * W!Pow(b)
<1> DEFINE T == {k \in Nat : W!Pow(a + k) = W!Pow(a) * W!Pow(k)}
<1>1. 0 \in T
  <2>1. a + 0 = a /\ W!Pow(a) \in Nat
    BY PowType
  <2>2. W!Pow(a) = W!Pow(a) * 1
    BY <2>1
  <2>3. QED
    BY <2>1, <2>2, PowZero
<1>2. ASSUME NEW k \in Nat, k \in T PROVE k + 1 \in T
  <2>1. W!Pow(a + k) = W!Pow(a) * W!Pow(k)
    BY <1>2
  <2>2. a + k \in Nat /\ a + (k + 1) = (a + k) + 1
    OBVIOUS
  <2>3. W!Pow((a + k) + 1) = 2 * W!Pow(a + k) /\ W!Pow(k + 1) = 2 * W!Pow(k)
    BY <2>2, PowNext
  <2>4. PICK x \in Nat, y \in Nat : x = W!Pow(a) /\ y = W!Pow(k)
    BY PowType
  <2>5. 2 * (x * y) = x * (2 * y)
    OBVIOUS
  <2>6. W!Pow(a + (k + 1)) = W!Pow(a) * W!Pow(k + 1)
    BY <2>1, <2>2, <2>3, <2>4, <2>5
  <2>7. QED
    BY <2>6
<1> HIDE DEF T
<1>3. Nat \subseteq T
  BY <1>1, <1>2, NatInd
<1>4. QED
  BY <1>3 DEF T

-----------------------------------------------------------------------------
(* Digits.                                                                  *)

\* The digits of a number are bits, as many as were asked for.
LEMMA DigitsType ==
    ASSUME NEW v \in Int, NEW n \in Nat
    PROVE  /\ Digits(v, n) \in Seq(Nat) /\ Len(Digits(v, n)) = n
           /\ \A i \in 1..n : Digits(v, n)[i] = (v \div W!Pow(n - i)) % 2
<1>1. \A i \in 1..n : (v \div W!Pow(n - i)) % 2 \in Nat
  <2>1. TAKE i \in 1..n
  <2>2. PICK k \in Nat : k = n - i
    OBVIOUS
  <2>3. PICK p \in Nat : p = W!Pow(k) /\ p > 0
    BY PowType
  <2>4. (v \div p) % 2 \in Nat
    BY <2>3
  <2>5. QED
    BY <2>2, <2>3, <2>4
<1>2. PICK d : d = Digits(v, n)
  OBVIOUS
<1>3. d = [i \in 1..n |-> (v \div W!Pow(n - i)) % 2]
  BY <1>2 DEF Digits
<1>4. d \in [1..n -> Nat]
  BY <1>1, <1>3
<1>5. QED
  BY <1>2, <1>3, <1>4

\* The high digits and the low ones.
LEMMA DigitsSplit ==
    ASSUME NEW v \in Int, NEW a \in Nat, NEW b \in Nat
    PROVE  Digits(v, a + b) = Digits(v \div W!Pow(b), a) \o Digits(v, b)
<1>1. PICK p \in Nat : p = W!Pow(b) /\ p > 0
  BY PowType
<1>2. PICK h \in Int : h = v \div p
  BY <1>1
<1>3. PICK n \in Nat : n = a + b
  OBVIOUS
<1>4. PICK x, y, z : x = Digits(v, n) /\ y = Digits(h, a) /\ z = Digits(v, b)
  OBVIOUS
<1>5. /\ x \in Seq(Nat) /\ Len(x) = n /\ \A i \in 1..n : x[i] = (v \div W!Pow(n - i)) % 2
      /\ y \in Seq(Nat) /\ Len(y) = a /\ \A i \in 1..a : y[i] = (h \div W!Pow(a - i)) % 2
      /\ z \in Seq(Nat) /\ Len(z) = b /\ \A i \in 1..b : z[i] = (v \div W!Pow(b - i)) % 2
  BY <1>4, DigitsType
<1>6. PICK u : u = y \o z
  OBVIOUS
<1>7. /\ u \in Seq(Nat) /\ Len(u) = n
      /\ \A i \in 1..n : u[i] = IF i <= a THEN y[i] ELSE z[i - a]
  <2>1. y \in Seq(Nat) /\ z \in Seq(Nat) /\ Len(y) = a /\ Len(z) = b
    BY <1>5
  <2>2. /\ y \o z \in Seq(Nat) /\ Len(y \o z) = a + b
        /\ \A i \in 1..(a + b) : (y \o z)[i] = IF i <= a THEN y[i] ELSE z[i - a]
    BY <2>1, ConcatProperties
  <2>3. QED
    BY <1>3, <1>6, <2>2
<1>8. ASSUME NEW i \in 1..n PROVE x[i] = u[i]
  <2>1. CASE i <= a
    <3>1. PICK k \in Nat : k = a - i
      BY <2>1
    <3>2. n - i = b + k
      BY <1>3, <3>1
    <3>3. PICK q \in Nat : q = W!Pow(k) /\ q > 0
      BY PowType
    <3>4. W!Pow(n - i) = p * q
      BY <1>1, <3>2, <3>3, PowSum
    <3>5. (v \div p) \div q = v \div (p * q)
      BY <1>1, <3>3, DivideTwice
    <3>6. i \in 1..a
      BY <2>1
    <3>7. y[i] = (h \div q) % 2
      BY <1>5, <3>1, <3>3, <3>6
    <3>8. x[i] = (v \div (p * q)) % 2
      BY <1>5, <3>4
    <3>9. QED
      BY <1>2, <1>7, <2>1, <3>5, <3>7, <3>8
  <2>2. CASE ~(i <= a)
    <3>1. PICK j \in 1..b : j = i - a
      BY <1>3, <2>2
    <3>2. n - i = b - j
      BY <1>3, <3>1
    <3>3. z[j] = (v \div W!Pow(b - j)) % 2
      BY <1>5
    <3>4. QED
      BY <1>5, <1>7, <2>2, <3>1, <3>2, <3>3
  <2>3. QED
    BY <2>1, <2>2
<1>9. x = u
  BY <1>5, <1>7, <1>8, SeqEqual
<1>10. QED
  BY <1>1, <1>2, <1>3, <1>4, <1>6, <1>9

\* Bits above the digits do not show in them.
LEMMA DigitsCut ==
    ASSUME NEW v \in Int, NEW n \in Nat, NEW w \in Int, v % W!Pow(n) = w % W!Pow(n)
    PROVE  Digits(v, n) = Digits(w, n)
<1>1. PICK e \in Nat : e = W!Pow(n) /\ e > 0
  BY PowType
<1>2. PICK x, y : x = Digits(v, n) /\ y = Digits(w, n)
  OBVIOUS
<1>3. /\ x \in Seq(Nat) /\ Len(x) = n /\ \A i \in 1..n : x[i] = (v \div W!Pow(n - i)) % 2
      /\ y \in Seq(Nat) /\ Len(y) = n /\ \A i \in 1..n : y[i] = (w \div W!Pow(n - i)) % 2
  BY <1>2, DigitsType
<1>4. ASSUME NEW i \in 1..n PROVE x[i] = y[i]
  <2>1. PICK k \in Nat, l \in Nat : k = n - i /\ l = i - 1
    OBVIOUS
  <2>2. PICK p \in Nat, q \in Nat : p = W!Pow(k) /\ p > 0 /\ q = W!Pow(l) /\ q > 0
    BY PowType
  <2>3. e = p * (2 * q)
    <3>1. W!Pow(l + 1) = 2 * q
      BY <2>2, PowNext
    <3>2. l + 1 \in Nat /\ n = k + (l + 1)
      BY <2>1
    <3>3. W!Pow(k + (l + 1)) = W!Pow(k) * W!Pow(l + 1)
      BY <3>2, PowSum
    <3>4. QED
      BY <1>1, <2>2, <3>1, <3>2, <3>3
  <2>4. PICK d \in Nat : d = 2 * q /\ d > 0
    BY <2>2
  <2>5. (v % (p * d)) \div p = (v \div p) % d /\ (w % (p * d)) \div p = (w \div p) % d
    <3>1. p > 0 /\ d > 0
      BY <2>2, <2>4
    <3>2. (v % (p * d)) \div p = (v \div p) % d
      BY <3>1, CutAndShift
    <3>3. (w % (p * d)) \div p = (w \div p) % d
      BY <3>1, CutAndShift
    <3>4. QED
      BY <3>2, <3>3
  <2>6. (v \div p) % d = (w \div p) % d
    BY <1>1, <2>3, <2>4, <2>5
  <2>7. PICK g \in Int, h \in Int : g = v \div p /\ h = w \div p
    BY <2>2
  <2>8. (g % d) % 2 = g % 2 /\ (h % d) % 2 = h % 2
    <3>1. PICK c \in Nat : c = 2
      OBVIOUS
    <3>2. c > 0 /\ d = c * q
      BY <2>4, <3>1
    <3>3. c > 0 /\ q > 0
      BY <2>2, <3>2
    <3>4. (g % (c * q)) % c = g % c
      BY <3>3, CutTwice
    <3>5. (h % (c * q)) % c = h % c
      BY <3>3, CutTwice
    <3>6. QED
      BY <3>1, <3>2, <3>4, <3>5, Zenon
  <2>9. g % 2 = h % 2
    BY <2>6, <2>7, <2>8
  <2>10. QED
    BY <1>3, <2>1, <2>2, <2>7, <2>9
<1>5. x = y
  BY <1>3, <1>4, SeqEqual
<1>6. QED
  BY <1>2, <1>5

\* A number behind another one.
JoinsDigits(x, n, y, m) == Digits(x * W!Pow(m) + y, n + m) = Digits(x, n) \o Digits(y, m)

LEMMA DigitsJoin ==
    ASSUME NEW x \in Int, NEW n \in Nat, NEW m \in Nat, NEW y \in Nat, y < W!Pow(m)
    PROVE  JoinsDigits(x, n, y, m)
<1>1. PICK p \in Nat : p = W!Pow(m) /\ p > 0
  BY PowType
<1>2. PICK v \in Int : v = x * p + y
  BY <1>1
<1>3. v \div p = x /\ v % p = y
  <2>1. v = x * p + y /\ p > 0 /\ y < p
    BY <1>1, <1>2
  <2>2. QED
    BY <2>1, DividedOnce
<1>4. y = 0 * p + y
  BY <1>1
<1>5. y % p = y
  BY <1>1, <1>4, DividedOnce
<1>6. Digits(v, m) = Digits(y, m)
  BY <1>1, <1>3, <1>5, DigitsCut
<1>7. Digits(v, n + m) = Digits(v \div W!Pow(m), n) \o Digits(v, m)
  BY DigitsSplit
<1>8. QED
  BY <1>1, <1>2, <1>3, <1>6, <1>7, Zenon DEF JoinsDigits

\* A number has as many digits after it was cut to them.
LEMMA DigitsOfCut ==
    ASSUME NEW v \in Int, NEW n \in Nat
    PROVE  Digits(v % W!Pow(n), n) = Digits(v, n)
<1>1. PICK e \in Nat : e = W!Pow(n) /\ e > 0
  BY PowType
<1>2. PICK w \in Nat : w = v % e /\ w < e
  BY <1>1, Divided
<1>3. w = 0 * e + w
  BY <1>1
<1>4. w % e = w
  BY <1>1, <1>2, <1>3, DividedOnce
<1>5. QED
  BY <1>1, <1>2, <1>4, DigitsCut

-----------------------------------------------------------------------------
(* Bits of bytes.                                                           *)

\* Bit m of byte q, both from 0.
BitOf(bytes, q, m) == (bytes[q + 1] \div W!Pow(ByteBits - 1 - m)) % 2

\* A position among the bits is one of a byte and one in it.
LEMMA Place ==
    ASSUME NEW n \in Nat, NEW i \in 1..(n * ByteBits)
    PROVE  \E q \in Nat, m \in Nat :
               /\ q < n /\ m < ByteBits /\ i = q * ByteBits + m + 1
               /\ (i - 1) \div ByteBits = q /\ (i - 1) % ByteBits = m
<1>1. ByteBits \in Nat /\ ByteBits > 0
  BY WidthAssumption
<1>2. PICK b \in Nat : b = ByteBits /\ b > 0
  BY <1>1
<1>3. PICK x \in Nat : x = i - 1
  BY <1>2
<1>4. PICK q \in Nat, m \in Nat : q = x \div b /\ m = x % b /\ m < b /\ x = q * b + m
  BY <1>2, Division
<1>5. q < n
  <2>1. PICK e \in Nat, f \in Nat : e = n * b /\ f = q * b
    BY <1>2
  <2>2. f < e
    BY <1>2, <1>3, <1>4, <2>1
  <2>3. ASSUME q >= n PROVE FALSE
    <3>1. q * b >= n * b
      BY <1>2, <2>3
    <3>2. QED
      BY <2>1, <2>2, <3>1
  <2>4. QED
    BY <2>3
<1>6. QED
  BY <1>2, <1>3, <1>4, <1>5

\* The bits of bytes are bits, eight for a byte.
LEMMA BitsInType ==
    ASSUME NEW s \in Seq(Nat)
    PROVE  /\ BitsIn(s) \in Seq(Nat) /\ Len(BitsIn(s)) = Len(s) * ByteBits
           /\ \A q \in Nat, m \in Nat : q < Len(s) /\ m < ByteBits =>
                  /\ q * ByteBits + m + 1 \in 1..(Len(s) * ByteBits)
                  /\ BitsIn(s)[q * ByteBits + m + 1] = BitOf(s, q, m)
<1>1. PICK b \in Nat : b = ByteBits /\ b > 0
  BY WidthAssumption
<1>2. PICK n \in Nat, e \in Nat : n = Len(s) /\ e = n * b
  BY <1>1
<1>3. PICK d : d = BitsIn(s)
  OBVIOUS
<1>4. d = [i \in 1..e |-> (s[(i - 1) \div b + 1] \div W!Pow(b - 1 - ((i - 1) % b))) % 2]
  BY <1>1, <1>2, <1>3 DEF BitsIn
<1>5. ASSUME NEW i \in 1..e, NEW q \in Nat, NEW m \in Nat, q < n, m < b,
             (i - 1) \div b = q, (i - 1) % b = m
      PROVE  d[i] = BitOf(s, q, m) /\ d[i] \in Nat
  <2>1. d[i] = BitOf(s, q, m)
    BY <1>1, <1>4, <1>5 DEF BitOf
  <2>2. s[q + 1] \in Nat
    BY <1>2, <1>5
  <2>3. PICK k \in Nat : k = b - 1 - m
    BY <1>5
  <2>4. PICK p \in Nat, x \in Nat : p = W!Pow(k) /\ p > 0 /\ x = s[q + 1]
    BY <2>2, PowType
  <2>5. (x \div p) % 2 \in Nat
    BY <2>4
  <2>6. BitOf(s, q, m) = (x \div p) % 2
    BY <1>1, <2>3, <2>4 DEF BitOf
  <2>7. QED
    BY <2>1, <2>5, <2>6
<1>6. d \in [1..e -> Nat]
  <2>1. \A i \in 1..e : d[i] \in Nat
    <3>1. TAKE i \in 1..e
    <3>2. i \in 1..(n * ByteBits)
      BY <1>1, <1>2
    <3>3. QED
      BY <1>1, <1>5, <3>2, Place
  <2>2. QED
    BY <1>4, <2>1
<1>7. ASSUME NEW q \in Nat, NEW m \in Nat, q < n, m < b
      PROVE  q * b + m + 1 \in 1..e /\ d[q * b + m + 1] = BitOf(s, q, m)
  <2>1. PICK x \in Nat : x = q * b + m
    BY <1>1
  <2>2. x \div b = q /\ x % b = m
    BY <1>1, <1>7, <2>1, DividedOnce
  <2>3. x < e
    <3>1. q + 1 <= n
      BY <1>7
    <3>2. (q + 1) * b <= n * b
      BY <1>1, <3>1
    <3>3. (q + 1) * b = q * b + b
      BY <1>1
    <3>4. PICK f \in Nat : f = q * b
      BY <1>1
    <3>5. QED
      BY <1>1, <1>2, <1>7, <2>1, <3>2, <3>3, <3>4
  <2>4. PICK i \in 1..e : i = x + 1 /\ i - 1 = x
    BY <2>1, <2>3
  <2>5. d[i] = BitOf(s, q, m)
    BY <1>5, <1>7, <2>2, <2>4
  <2>6. i = q * b + m + 1
    BY <2>1, <2>4
  <2>7. QED
    BY <2>4, <2>5, <2>6
<1>8. d \in Seq(Nat) /\ Len(d) = e
  BY <1>2, <1>6
<1>9. QED
  BY <1>1, <1>2, <1>3, <1>7, <1>8

\* Bits of a sequence are known by byte and place.
LEMMA BitsAre ==
    ASSUME NEW s \in Seq(Nat), NEW d \in Seq(Nat), Len(d) = Len(s) * ByteBits,
           \A q \in Nat, m \in Nat : q < Len(s) /\ m < ByteBits =>
               d[q * ByteBits + m + 1] = BitOf(s, q, m)
    PROVE  BitsIn(s) = d
<1>1. PICK u : u = BitsIn(s)
  OBVIOUS
<1>2. u \in Seq(Nat) /\ Len(u) = Len(s) * ByteBits
  BY <1>1, BitsInType
<1>3. \A q \in Nat, m \in Nat : q < Len(s) /\ m < ByteBits =>
          u[q * ByteBits + m + 1] = BitOf(s, q, m)
  BY <1>1, BitsInType
<1>4. ASSUME NEW i \in 1..Len(u) PROVE u[i] = d[i]
  <2>1. Len(s) \in Nat
    OBVIOUS
  <2>2. PICK q \in Nat, m \in Nat : q < Len(s) /\ m < ByteBits /\ i = q * ByteBits + m + 1
    BY <1>2, <2>1, Place
  <2>3. QED
    BY <1>3, <2>2
<1>5. u = d
  BY <1>2, <1>4, SeqEqual
<1>6. QED
  BY <1>1, <1>5

\* Bytes behind others are bits behind theirs.
LEMMA BitsInJoin ==
    ASSUME NEW s \in Seq(Nat), NEW t \in Seq(Nat)
    PROVE  BitsIn(s \o t) = BitsIn(s) \o BitsIn(t)
<1>1. PICK b \in Nat : b = ByteBits /\ b > 0
  BY WidthAssumption
<1>2. PICK n \in Nat, k \in Nat : n = Len(s) /\ k = Len(t)
  OBVIOUS
<1>3. PICK u : u = s \o t
  OBVIOUS
<1>4. /\ u \in Seq(Nat) /\ Len(u) = n + k
      /\ \A i \in 1..(n + k) : u[i] = IF i <= n THEN s[i] ELSE t[i - n]
  <2>1. /\ s \o t \in Seq(Nat) /\ Len(s \o t) = Len(s) + Len(t)
        /\ \A i \in 1..(Len(s) + Len(t)) : (s \o t)[i] = IF i <= Len(s) THEN s[i] ELSE t[i - Len(s)]
    BY ConcatProperties
  <2>2. QED
    BY <1>2, <1>3, <2>1
<1>5. PICK x, y : x = BitsIn(s) /\ y = BitsIn(t)
  OBVIOUS
<1>6. PICK e \in Nat, f \in Nat : e = n * b /\ f = k * b
  BY <1>1
<1>7. /\ x \in Seq(Nat) /\ Len(x) = e /\ y \in Seq(Nat) /\ Len(y) = f
  BY <1>1, <1>2, <1>5, <1>6, BitsInType
<1>8. PICK d : d = x \o y
  OBVIOUS
<1>9. /\ d \in Seq(Nat) /\ Len(d) = e + f
      /\ \A i \in 1..(e + f) : d[i] = IF i <= e THEN x[i] ELSE y[i - e]
  <2>1. /\ x \o y \in Seq(Nat) /\ Len(x \o y) = Len(x) + Len(y)
        /\ \A i \in 1..(Len(x) + Len(y)) : (x \o y)[i] = IF i <= Len(x) THEN x[i] ELSE y[i - Len(x)]
    BY <1>7, ConcatProperties
  <2>2. QED
    BY <1>7, <1>8, <2>1
<1>10. Len(d) = Len(u) * ByteBits
  <2>1. (n + k) * b = n * b + k * b
    BY <1>1
  <2>2. QED
    BY <1>1, <1>4, <1>6, <1>9, <2>1
<1>11. ASSUME NEW q \in Nat, NEW m \in Nat, q < n + k, m < b
       PROVE  d[q * b + m + 1] = BitOf(u, q, m)
  <2>1. PICK g \in Nat : g = q * b
    BY <1>1
  <2>2. CASE q < n
    <3>1. g + m + 1 \in 1..e /\ x[g + m + 1] = BitOf(s, q, m)
      <4>1. /\ q * ByteBits + m + 1 \in 1..(Len(s) * ByteBits)
            /\ BitsIn(s)[q * ByteBits + m + 1] = BitOf(s, q, m)
        BY <1>1, <1>2, <1>11, <2>2, BitsInType
      <4>2. q * ByteBits = g /\ Len(s) * ByteBits = e /\ BitsIn(s) = x
        BY <1>1, <1>2, <1>5, <1>6, <2>1
      <4>3. QED
        BY <4>1, <4>2, Zenon
    <3>2. u[q + 1] = s[q + 1]
      BY <1>4, <2>2
    <3>3. d[g + m + 1] = x[g + m + 1]
      <4>1. PICK i : i = g + m + 1 /\ i \in 1..e
        BY <3>1
      <4>2. i \in 1..(e + f) /\ i <= e
        BY <1>6, <4>1
      <4>3. d[i] = x[i]
        BY <1>9, <4>2
      <4>4. QED
        BY <4>1, <4>3
    <3>4. QED
      BY <2>1, <3>1, <3>2, <3>3 DEF BitOf
  <2>3. CASE ~(q < n)
    <3>1. PICK j \in Nat : j = q - n /\ j < k
      BY <1>11, <2>3
    <3>2. PICK h \in Nat : h = j * b
      BY <1>1
    <3>3. h + m + 1 \in 1..f /\ y[h + m + 1] = BitOf(t, j, m)
      <4>1. /\ j * ByteBits + m + 1 \in 1..(Len(t) * ByteBits)
            /\ BitsIn(t)[j * ByteBits + m + 1] = BitOf(t, j, m)
        BY <1>1, <1>2, <1>11, <3>1, BitsInType
      <4>2. j * ByteBits = h /\ Len(t) * ByteBits = f /\ BitsIn(t) = y
        BY <1>1, <1>2, <1>5, <1>6, <3>2
      <4>3. QED
        BY <4>1, <4>2, Zenon
    <3>4. u[q + 1] = t[j + 1]
      BY <1>4, <1>11, <2>3, <3>1
    <3>5. g = e + h
      <4>1. q = n + j
        BY <3>1
      <4>2. (n + j) * b = n * b + j * b
        BY <1>1
      <4>3. QED
        BY <1>6, <2>1, <3>2, <4>1, <4>2
    <3>6. d[g + m + 1] = y[h + m + 1]
      <4>1. PICK i \in Nat : i = g + m + 1
        BY <2>1
      <4>2. i \in 1..(e + f) /\ ~(i <= e) /\ i - e = h + m + 1
        BY <1>6, <3>3, <3>5, <4>1
      <4>3. d[i] = y[i - e]
        BY <1>9, <4>2
      <4>4. QED
        BY <4>1, <4>2, <4>3
    <3>7. QED
      BY <2>1, <3>3, <3>4, <3>6 DEF BitOf
  <2>4. QED
    BY <2>2, <2>3
<1>12. BitsIn(u) = d
  BY <1>1, <1>4, <1>9, <1>10, <1>11, BitsAre
<1>13. QED
  BY <1>3, <1>5, <1>8, <1>12

\* The bytes at the top of a word have its top bits.
LEMMA TopBits ==
    ASSUME NEW word \in Nat, NEW k \in 0..AccBytes
    PROVE  /\ W!TopBytes(word, k) \in Seq(Nat) /\ Len(W!TopBytes(word, k)) = k
           /\ k * ByteBits \in Nat /\ W!WordBits - k * ByteBits \in Nat
           /\ BitsIn(W!TopBytes(word, k)) = Digits(word \div W!Pow(W!WordBits - k * ByteBits), k * ByteBits)
<1>1. PICK b \in Nat : b = ByteBits /\ b > 0
  BY WidthAssumption
<1>2. PICK a \in Nat : a = AccBytes /\ k <= a /\ k \in Nat
  BY WidthAssumption
<1>3. PICK w \in Nat, e \in Nat : w = a * b /\ e = k * b
  BY <1>1, <1>2
<1>4. W!WordBits = w
  BY <1>1, <1>2, <1>3 DEF W!WordBits
<1>5. PICK rest \in Nat : rest = w - e
  <2>1. k * b <= a * b
    BY <1>1, <1>2
  <2>2. QED
    BY <1>3, <2>1
<1>6. PICK s : s = W!TopBytes(word, k)
  OBVIOUS
<1>7. s = [i \in 1..k |-> (word \div W!Pow(w - i * b)) % W!Pow(b)]
  BY <1>1, <1>4, <1>6 DEF W!TopBytes
<1>8. ASSUME NEW q \in Nat, q < k
      PROVE  \E l \in Nat, p \in Nat :
                 /\ l = w - (q * b + b) /\ p = W!Pow(l) /\ p > 0
                 /\ s[q + 1] = (word \div p) % W!Pow(b) /\ s[q + 1] \in Nat
  <2>1. (q + 1) * b = q * b + b /\ (q + 1) * b <= a * b
    BY <1>1, <1>2, <1>8
  <2>2. PICK g \in Nat : g = q * b
    BY <1>1
  <2>3. PICK l \in Nat : l = w - (g + b) /\ l = w - (q + 1) * b
    BY <1>1, <1>3, <2>1, <2>2
  <2>4. PICK p \in Nat, c \in Nat : p = W!Pow(l) /\ p > 0 /\ c = W!Pow(b) /\ c > 0
    BY <1>1, PowType
  <2>5. q + 1 \in 1..k
    BY <1>2, <1>8
  <2>6. s[q + 1] = (word \div p) % c
    BY <1>7, <2>3, <2>4, <2>5
  <2>7. (word \div p) % c \in Nat
    BY <2>4
  <2>8. QED
    BY <2>2, <2>3, <2>4, <2>6, <2>7
<1>9. s \in Seq(Nat) /\ Len(s) = k
  <2>1. \A i \in 1..k : s[i] \in Nat
    <3>1. TAKE i \in 1..k
    <3>2. PICK q \in Nat : q < k /\ i = q + 1
      BY <1>2
    <3>3. QED
      BY <1>8, <3>2
  <2>2. s \in [1..k -> Nat]
    BY <1>7, <2>1
  <2>3. QED
    BY <1>2, <2>2
<1>10. PICK r0 \in Nat, top \in Nat : r0 = W!Pow(rest) /\ r0 > 0 /\ top = word \div r0
  <2>1. PICK r0 \in Nat : r0 = W!Pow(rest) /\ r0 > 0
    BY PowType
  <2>2. word \div r0 \in Nat
    BY <2>1
  <2>3. QED
    BY <2>1, <2>2
<1>11. PICK d : d = Digits(top, e)
  OBVIOUS
<1>12. d \in Seq(Nat) /\ Len(d) = e /\ \A i \in 1..e : d[i] = (top \div W!Pow(e - i)) % 2
  <2>1. top \in Int
    BY <1>10
  <2>2. /\ Digits(top, e) \in Seq(Nat) /\ Len(Digits(top, e)) = e
        /\ \A i \in 1..e : Digits(top, e)[i] = (top \div W!Pow(e - i)) % 2
    BY <2>1, DigitsType
  <2>3. QED
    BY <1>11, <2>2
<1>13. ASSUME NEW q \in Nat, NEW m \in Nat, q < k, m < b
       PROVE  d[q * b + m + 1] = BitOf(s, q, m)
  <2>1. PICK g \in Nat : g = q * b
    BY <1>1
  <2>2. g + b <= e
    <3>1. q + 1 <= k
      BY <1>2, <1>13
    <3>2. (q + 1) * b <= k * b /\ (q + 1) * b = q * b + b
      BY <1>1, <1>2, <3>1
    <3>3. QED
      BY <1>3, <2>1, <3>2
  <2>3. PICK l \in Nat, p \in Nat : /\ l = w - (g + b) /\ p = W!Pow(l) /\ p > 0
                                    /\ s[q + 1] = (word \div p) % W!Pow(b)
    BY <1>8, <1>13, <2>1
  <2>4. PICK y \in Nat, z \in Nat : y = b - 1 - m /\ z = m + 1 /\ b = y + z
    BY <1>1, <1>13
  <2>5. PICK py \in Nat, pm \in Nat, pz \in Nat : /\ py = W!Pow(y) /\ py > 0
                                                  /\ pm = W!Pow(m) /\ pm > 0
                                                  /\ pz = 2 * pm /\ pz = W!Pow(z)
    <3>1. W!Pow(m + 1) = 2 * W!Pow(m)
      BY PowNext
    <3>2. W!Pow(y) \in Nat /\ W!Pow(y) > 0 /\ W!Pow(m) \in Nat /\ W!Pow(m) > 0
      BY PowType
    <3>3. QED
      BY <2>4, <3>1, <3>2
  <2>6. W!Pow(b) = py * pz
    BY <2>4, <2>5, PowSum
  <2>7. PICK h \in Nat : h = word \div p
    BY <2>3
  <2>8. (h % (py * pz)) \div py = (h \div py) % pz
    <3>1. h \in Int /\ py \in Nat /\ py > 0 /\ pz \in Nat /\ pz > 0
      BY <2>5
    <3>2. QED
      BY <3>1, CutAndShift
  <2>9. PICK u \in Nat : u = h \div py
    BY <2>5
  <2>10. (u % pz) % 2 = u % 2
    <3>1. PICK c \in Nat : c = 2
      OBVIOUS
    <3>2. c > 0 /\ pz = c * pm
      BY <2>5, <3>1
    <3>3. (u % (c * pm)) % c = u % c
      <4>1. u \in Int /\ c \in Nat /\ c > 0 /\ pm \in Nat /\ pm > 0
        BY <2>5, <3>2
      <4>2. QED
        BY <4>1, CutTwice
    <3>4. QED
      BY <3>1, <3>2, <3>3
  <2>11. BitOf(s, q, m) = u % 2
    <3>1. BitOf(s, q, m) = (s[q + 1] \div py) % 2
      BY <1>1, <2>4, <2>5 DEF BitOf
    <3>2. s[q + 1] = h % (py * pz)
      BY <2>3, <2>6, <2>7
    <3>3. s[q + 1] \div py = u % pz
      BY <2>8, <2>9, <3>2
    <3>4. QED
      BY <2>10, <3>1, <3>3
  <2>12. PICK i \in 1..e : i = g + m + 1
    BY <1>1, <1>3, <1>13, <2>1, <2>2
  <2>13. PICK v \in Nat : v = e - i
    BY <1>3, <2>12
  <2>14. rest + v = l + y
    BY <1>3, <1>5, <2>1, <2>3, <2>4, <2>12, <2>13
  <2>15. PICK pv \in Nat : pv = W!Pow(v) /\ pv > 0
    BY PowType
  <2>16. r0 * pv = p * py
    <3>1. W!Pow(rest + v) = W!Pow(rest) * W!Pow(v)
      BY PowSum
    <3>2. W!Pow(l + y) = W!Pow(l) * W!Pow(y)
      BY PowSum
    <3>3. W!Pow(rest + v) = W!Pow(l + y)
      BY <2>14
    <3>4. QED
      BY <1>10, <2>3, <2>5, <2>15, <3>1, <3>2, <3>3
  <2>17. top \div pv = word \div (r0 * pv)
    BY <1>10, <2>15, DivideTwice
  <2>18. u = word \div (p * py)
    BY <2>3, <2>5, <2>7, <2>9, DivideTwice
  <2>19. d[i] = (top \div pv) % 2
    BY <1>12, <2>13, <2>15
  <2>20. d[i] = BitOf(s, q, m)
    BY <2>11, <2>16, <2>17, <2>18, <2>19, Zenon
  <2>21. i = q * b + m + 1
    BY <2>1, <2>12
  <2>22. QED
    BY <2>20, <2>21
<1>14. BitsIn(s) = d
  <2>1. d \in Seq(Nat) /\ Len(d) = Len(s) * ByteBits
    BY <1>1, <1>3, <1>9, <1>12
  <2>2. \A q \in Nat, m \in Nat : q < Len(s) /\ m < ByteBits =>
            d[q * ByteBits + m + 1] = BitOf(s, q, m)
    BY <1>1, <1>9, <1>13
  <2>3. s \in Seq(Nat)
    BY <1>9
  <2>4. QED
    BY <2>1, <2>2, <2>3, BitsAre, Zenon
<1>15. QED
  BY <1>1, <1>3, <1>4, <1>5, <1>6, <1>9, <1>10, <1>11, <1>14

\* A number below q behind one below p.
LEMMA Behind ==
    ASSUME NEW x \in Nat, NEW p \in Nat, NEW y \in Nat, NEW q \in Nat, x < p, y < q
    PROVE  x * q + y \in Nat /\ p * q \in Nat /\ x * q + y < p * q
<1>1. x + 1 <= p
  OBVIOUS
<1>2. (x + 1) * q <= p * q
  BY <1>1
<1>3. (x + 1) * q = x * q + q
  OBVIOUS
<1>4. PICK c \in Nat, d \in Nat : c = x * q /\ d = p * q
  OBVIOUS
<1>5. c + q <= d
  BY <1>2, <1>3, <1>4
<1>6. QED
  BY <1>4, <1>5

\* The quotient of a number below p * q is below p.
HasParts(x, p, q) ==
    \E h \in Nat, l \in Nat : h = x \div q /\ l = x % q /\ h < p /\ l < q /\ x = h * q + l

LEMMA Below ==
    ASSUME NEW x \in Nat, NEW p \in Nat, NEW q \in Nat, q > 0, x < p * q
    PROVE  HasParts(x, p, q)
<1>1. PICK h \in Nat, l \in Nat : h = x \div q /\ l = x % q /\ l < q /\ x = h * q + l
  BY Division
<1>2. ASSUME h >= p PROVE FALSE
  <2>1. h * q >= p * q
    BY <1>2
  <2>2. PICK c \in Nat, d \in Nat : c = h * q /\ d = p * q
    OBVIOUS
  <2>3. QED
    BY <1>1, <2>1, <2>2
<1>3. QED
  BY <1>1, <1>2 DEF HasParts

\* What is shifted out at the top is gone.
KeepsLow(h, l, p, q) == ((h * p + l) * q) % (p * q) = l * q

LEMMA ShiftedOut ==
    ASSUME NEW h \in Nat, NEW l \in Nat, NEW p \in Nat, NEW q \in Nat, p > 0, q > 0, l < p
    PROVE  KeepsLow(h, l, p, q)
<1>1. PICK d \in Nat, c \in Nat : d = p * q /\ d > 0 /\ c = l * q
  OBVIOUS
<1>2. c < d
  <2>1. l * q + 0 < p * q
    BY Behind
  <2>2. QED
    BY <1>1, <2>1
<1>3. (h * p + l) * q = h * (p * q) + l * q
  OBVIOUS
<1>4. PICK b \in Nat : b = (h * p + l) * q
  OBVIOUS
<1>5. b = h * d + c
  BY <1>1, <1>3, <1>4
<1>6. h \in Int /\ b \in Int
  OBVIOUS
<1>7. b % d = c
  <2>1. d \in Nat /\ d > 0 /\ c \in Nat /\ c < d
    BY <1>1, <1>2
  <2>2. QED
    BY <1>5, <1>6, <2>1, DividedOnce, Zenon
<1>8. QED
  BY <1>1, <1>4, <1>7 DEF KeepsLow

\* A number behind another, both with their digits.
ComesBehind(x, n, y, m) ==
    /\ x * W!Pow(m) + y \in Nat /\ x * W!Pow(m) + y < W!Pow(n + m)
    /\ Digits(x * W!Pow(m) + y, n + m) = Digits(x, n) \o Digits(y, m)

LEMMA DigitsBehind ==
    ASSUME NEW n \in Nat, NEW x \in Nat, NEW m \in Nat, NEW y \in Nat, x < W!Pow(n), y < W!Pow(m)
    PROVE  ComesBehind(x, n, y, m)
<1>1. W!Pow(n) \in Nat /\ W!Pow(m) \in Nat
  BY PowType
<1>2. x * W!Pow(m) + y \in Nat /\ x * W!Pow(m) + y < W!Pow(n) * W!Pow(m)
  BY <1>1, Behind
<1>3. W!Pow(n + m) = W!Pow(n) * W!Pow(m)
  BY PowSum
<1>4. x \in Int
  OBVIOUS
<1>5. JoinsDigits(x, n, y, m)
  BY <1>4, DigitsJoin
<1>6. QED
  BY <1>2, <1>3, <1>5, Zenon DEF ComesBehind, JoinsDigits

\* Digits of naturals are sequences.
LEMMA DigitsSeq == ASSUME NEW x \in Nat, NEW n \in Nat PROVE Digits(x, n) \in Seq(Nat) /\ Len(Digits(x, n)) = n
<1>1. x \in Int
  OBVIOUS
<1>2. QED
  BY <1>1, DigitsType

-----------------------------------------------------------------------------
(* What a writer holds.                                                     *)

\* A writer with these bits in it: whole bytes in its buffer, the rest at the top of its
\* accumulator, zeros below.
Holds(w, bits) ==
    \E s \in Seq(Nat), m \in Nat, f \in Nat, top \in Nat :
        /\ f > 0 /\ m + f = W!WordBits /\ top < W!Pow(m)
        /\ w = [buf |-> s, acc |-> top * W!Pow(f), nbit |-> m]
        /\ bits = BitsIn(s) \o Digits(top, m)

Bits(x) == x \in Seq(Nat)

LEMMA BitsTyped ==
    /\ \A s \in Seq(Nat) : Bits(BitsIn(s))
    /\ \A v \in Int, n \in Nat : Bits(Digits(v, n))
    /\ \A v \in Nat, n \in Nat : Bits(Digits(v, n))
BY BitsInType, DigitsType, DigitsSeq DEF Bits

Regroups(x, y, z) == (x \o y) \o z = x \o (y \o z)

LEMMA Regroup ==
    ASSUME NEW x, NEW y, NEW z, Bits(x), Bits(y), Bits(z)
    PROVE  Regroups(x, y, z)
<1>1. PICK S : S = Nat
  OBVIOUS
<1>2. x \in Seq(S) /\ y \in Seq(S) /\ z \in Seq(S)
  BY <1>1, Zenon DEF Bits
<1>3. (x \o y) \o z = x \o (y \o z)
  BY <1>2, ConcatAssociative
<1>4. QED
  BY <1>3, Zenon DEF Regroups

LEMMA BitsJoined == ASSUME NEW x, NEW y, Bits(x), Bits(y) PROVE Bits(x \o y)
BY ConcatProperties DEF Bits

\* A word has bits, and a byte of it has some.
LEMMA WordType ==
    /\ ByteBits \in Nat /\ ByteBits > 0 /\ AccBytes \in Nat /\ AccBytes > 0
    /\ W!WordBits \in Nat /\ W!WordBits > 0 /\ W!WordBits = AccBytes * ByteBits
<1>1. ByteBits \in Nat /\ ByteBits > 0 /\ AccBytes \in Nat /\ AccBytes > 0
  BY WidthAssumption
<1>2. PICK a \in Nat, b \in Nat : a = AccBytes /\ b = ByteBits
  BY <1>1
<1>3. a * b \in Nat /\ a * b > 0
  BY <1>1, <1>2
<1>4. QED
  BY <1>1, <1>2, <1>3 DEF W!WordBits

\* All the bytes of a word are all its bits.
LEMMA WordOut ==
    ASSUME NEW word \in Nat
    PROVE  /\ W!TopBytes(word, AccBytes) \in Seq(Nat)
           /\ BitsIn(W!TopBytes(word, AccBytes)) = Digits(word, W!WordBits)
<1>1. PICK k : k = AccBytes /\ k \in 0..AccBytes
  BY WordType
<1>2. /\ W!TopBytes(word, k) \in Seq(Nat)
      /\ BitsIn(W!TopBytes(word, k)) = Digits(word \div W!Pow(W!WordBits - k * ByteBits), k * ByteBits)
  BY <1>1, TopBits
<1>3. PICK a \in Nat : a = W!WordBits
  BY WordType
<1>4. k * ByteBits = a
  BY <1>1, <1>3, WordType
<1>5. W!WordBits - k * ByteBits = 0
  BY <1>3, <1>4
<1>6. word \div W!Pow(0) = word
  BY PowZero
<1>7. QED
  BY <1>1, <1>2, <1>3, <1>4, <1>5, <1>6

SetTo(w, s, c, k) == [w EXCEPT !.acc = c, !.nbit = k] = [buf |-> s, acc |-> c, nbit |-> k]

LEMMA RecordBecomes ==
    ASSUME NEW s, NEW t, NEW m, NEW c, NEW k, NEW w, w = [buf |-> s, acc |-> t, nbit |-> m]
    PROVE  SetTo(w, s, c, k)
<1>1. PICK x : x = [w EXCEPT !.acc = c, !.nbit = k]
  OBVIOUS
<1>2. x.buf = s /\ x.acc = c /\ x.nbit = k
  BY <1>1
<1>3. x = [i \in {"buf", "acc", "nbit"} |-> x[i]]
  BY <1>1
<1>4. x = [buf |-> s, acc |-> c, nbit |-> k]
  BY <1>2, <1>3
<1>5. QED
  BY <1>1, <1>4, Zenon DEF SetTo

\* Written where there is room to spare.
LEMMA WriteFits ==
    ASSUME NEW s \in Seq(Nat), NEW m \in Nat, NEW f \in Nat, NEW top \in Nat,
           f > 0, m + f = W!WordBits, top < W!Pow(m),
           NEW v \in Int, NEW n \in Nat, n < f
    PROVE  Holds(W!Written([buf |-> s, acc |-> top * W!Pow(f), nbit |-> m], v, n),
                 (BitsIn(s) \o Digits(top, m)) \o Digits(v, n))
<1>1. PICK g : g \in Nat /\ g = f - n /\ g > 0 /\ f = n + g
  OBVIOUS
<1>2. PICK pn, pg : /\ pn \in Nat /\ pn = W!Pow(n) /\ pn > 0
                    /\ pg \in Nat /\ pg = W!Pow(g) /\ pg > 0
  BY <1>1, PowType
<1>3. PICK low : low \in Nat /\ low = v % W!Pow(n) /\ low < W!Pow(n)
  BY <1>2, Divided
<1>4. PICK new : new = top * W!Pow(n) + low
  OBVIOUS
<1>5. /\ new \in Nat /\ new < W!Pow(m + n)
      /\ Digits(new, m + n) = Digits(top, m) \o Digits(low, n)
  <2>1. ComesBehind(top, m, low, n)
    BY <1>3, DigitsBehind
  <2>2. QED
    BY <1>4, <2>1, Zenon DEF ComesBehind
<1>6. Digits(low, n) = Digits(v, n)
  BY <1>3, DigitsOfCut
<1>7. (BitsIn(s) \o Digits(top, m)) \o Digits(v, n) = BitsIn(s) \o Digits(new, m + n)
  <2>1. PICK x, y, z : x = BitsIn(s) /\ y = Digits(top, m) /\ z = Digits(v, n)
    OBVIOUS
  <2>2. Bits(x) /\ Bits(y) /\ Bits(z)
    BY <2>1, BitsTyped
  <2>3. Regroups(x, y, z)
    BY <2>2, Regroup
  <2>4. QED
    BY <1>5, <1>6, <2>1, <2>3, Zenon DEF Regroups
<1>8. top * W!Pow(f) + low * W!Pow(g) = new * W!Pow(g)
  <2>1. W!Pow(n + g) = W!Pow(n) * W!Pow(g)
    BY <1>1, PowSum
  <2>2. top * (pn * pg) + low * pg = (top * pn + low) * pg
    BY <1>2, <1>3
  <2>3. QED
    BY <1>1, <1>2, <1>4, <2>1, <2>2
<1>9. PICK t, w : t = top * W!Pow(f) /\ w = [buf |-> s, acc |-> t, nbit |-> m]
  OBVIOUS
<1>10. W!Written(w, v, n) = [buf |-> s, acc |-> new * W!Pow(g), nbit |-> m + n]
  <2>1. W!WordBits - w.nbit = f /\ n - f < 0 /\ f - n = g
    BY <1>1, <1>9
  <2>2. W!Written(w, v, n) = [w EXCEPT !.acc = @ + low * W!Pow(g), !.nbit = @ + n]
    BY <1>3, <2>1, Zenon DEF W!Written
  <2>3. [w EXCEPT !.acc = @ + low * W!Pow(g), !.nbit = @ + n]
            = [buf |-> s, acc |-> t + low * W!Pow(g), nbit |-> m + n]
    <3>1. PICK y : y = low * W!Pow(g)
      OBVIOUS
    <3>2. [w EXCEPT !.acc = @ + y, !.nbit = @ + n] = [buf |-> s, acc |-> t + y, nbit |-> m + n]
      <4>1. PICK c, k : c = t + y /\ k = m + n
        OBVIOUS
      <4>2. w.acc + y = c /\ w.nbit + n = k
        BY <1>9, <4>1
      <4>3. SetTo(w, s, c, k)
        BY <1>9, RecordBecomes
      <4>4. QED
        BY <4>1, <4>2, <4>3, Zenon DEF SetTo
    <3>3. QED
      BY <3>1, <3>2
  <2>4. QED
    BY <1>8, <1>9, <2>2, <2>3
<1>11. m + n \in Nat /\ (m + n) + g = W!WordBits
  BY <1>1
<1>12. QED
  BY <1>1, <1>5, <1>7, <1>9, <1>10, <1>11 DEF Holds

\* Written where it completes a word.
LEMMA WriteSpills ==
    ASSUME NEW s \in Seq(Nat), NEW m \in Nat, NEW f \in Nat, NEW top \in Nat,
           f > 0, m + f = W!WordBits, top < W!Pow(m),
           NEW v \in Int, NEW n \in Nat, n <= W!WordBits, n >= f
    PROVE  Holds(W!Written([buf |-> s, acc |-> top * W!Pow(f), nbit |-> m], v, n),
                 (BitsIn(s) \o Digits(top, m)) \o Digits(v, n))
<1>1. PICK a, e, g : /\ a \in Nat /\ e \in Nat /\ g \in Nat
                     /\ a = W!WordBits /\ e = n - f /\ n = f + e /\ g = a - e /\ g > 0 /\ a = e + g
  <2>1. PICK a : a \in Nat /\ a = W!WordBits
    BY WordType
  <2>2. /\ n - f \in Nat /\ n = f + (n - f) /\ a - (n - f) \in Nat /\ a - (n - f) > 0
        /\ a = (n - f) + (a - (n - f))
    BY <2>1
  <2>3. QED
    BY <2>1, <2>2
<1>2. PICK pe, pf, pg, pn : /\ pe \in Nat /\ pe = W!Pow(e) /\ pe > 0
                            /\ pf \in Nat /\ pf = W!Pow(f) /\ pf > 0
                            /\ pg \in Nat /\ pg = W!Pow(g) /\ pg > 0
                            /\ pn \in Nat /\ pn = W!Pow(n) /\ pn > 0
  BY <1>1, PowType
<1>3. pn = pf * pe /\ W!Pow(a) = pe * pg
  <2>1. W!Pow(f + e) = W!Pow(f) * W!Pow(e) /\ W!Pow(e + g) = W!Pow(e) * W!Pow(g)
    BY <1>1, PowSum
  <2>2. QED
    BY <1>1, <1>2, <2>1
<1>4. PICK low : low \in Nat /\ low = v % W!Pow(n) /\ low < W!Pow(n)
  BY <1>2, Divided
<1>5. PICK high, rest : /\ high \in Nat /\ rest \in Nat /\ high = low \div pe /\ rest = low % pe
                        /\ high < pf /\ rest < pe /\ low = high * pe + rest
  <2>1. low < pf * pe
    BY <1>2, <1>3, <1>4
  <2>2. pe \in Nat /\ pe > 0 /\ pf \in Nat /\ low \in Nat
    BY <1>2, <1>4
  <2>3. HasParts(low, pf, pe)
    BY <2>1, <2>2, Below
  <2>4. QED
    BY <2>3, Zenon DEF HasParts
<1>6. PICK word : word = top * W!Pow(f) + high
  OBVIOUS
<1>7. word \in Nat /\ Digits(word, a) = Digits(top, m) \o Digits(high, f)
  <2>1. high \in Nat /\ high < W!Pow(f)
    BY <1>2, <1>5
  <2>2. ComesBehind(top, m, high, f)
    BY <2>1, DigitsBehind
  <2>3. m + f = a
    BY <1>1
  <2>4. QED
    BY <1>6, <2>2, <2>3, Zenon DEF ComesBehind
<1>8. Digits(v, n) = Digits(high, f) \o Digits(rest, e)
  <2>1. low \in Int /\ e \in Nat
    BY <1>1, <1>4
  <2>2. Digits(low, f + e) = Digits(low \div W!Pow(e), f) \o Digits(low, e)
    BY <2>1, DigitsSplit
  <2>3. Digits(low % W!Pow(e), e) = Digits(low, e)
    BY <2>1, DigitsOfCut
  <2>4. Digits(v % W!Pow(n), n) = Digits(v, n)
    BY DigitsOfCut
  <2>5. QED
    BY <1>1, <1>2, <1>4, <1>5, <2>2, <2>3, <2>4
<1>9. PICK t, u : t = W!TopBytes(word, AccBytes) /\ u = s \o t
  OBVIOUS
<1>10. t \in Seq(Nat) /\ BitsIn(t) = Digits(word, a)
  BY <1>1, <1>7, <1>9, WordOut
<1>11. u \in Seq(Nat) /\ BitsIn(u) = BitsIn(s) \o BitsIn(t)
  <2>1. s \o t \in Seq(Nat)
    BY <1>10, ConcatProperties
  <2>2. BitsIn(s \o t) = BitsIn(s) \o BitsIn(t)
    BY <1>10, BitsInJoin
  <2>3. QED
    BY <1>9, <2>1, <2>2
<1>12. (BitsIn(s) \o Digits(top, m)) \o Digits(v, n) = BitsIn(u) \o Digits(rest, e)
  <2>1. PICK x, y, h, l : x = BitsIn(s) /\ y = Digits(top, m) /\ h = Digits(high, f) /\ l = Digits(rest, e)
    OBVIOUS
  <2>2. Bits(x) /\ Bits(y) /\ Bits(h) /\ Bits(l)
    BY <1>1, <1>5, <2>1, BitsTyped
  <2>3. Bits(x \o y) /\ Regroups(x, y, h)
    BY <2>2, BitsJoined, Regroup
  <2>4. Regroups(x \o y, h, l)
    BY <2>2, <2>3, Regroup
  <2>5. BitsIn(u) = x \o (y \o h)
    BY <1>7, <1>10, <1>11, <2>1
  <2>6. Digits(v, n) = h \o l
    BY <1>8, <2>1
  <2>7. QED
    BY <2>1, <2>3, <2>4, <2>5, <2>6, Zenon DEF Regroups
<1>13. PICK c, w : c = top * W!Pow(f) /\ w = [buf |-> s, acc |-> c, nbit |-> m]
  OBVIOUS
<1>14. W!Written(w, v, n) = [buf |-> u, acc |-> rest * W!Pow(g), nbit |-> e]
  <2>1. W!WordBits - w.nbit = f /\ n - f = e /\ ~(e < 0) /\ W!WordBits - e = g
    BY <1>1, <1>13
  <2>2. w.acc = c /\ w.buf = s
    BY <1>13
  <2>3. W!Written(w, v, n) = [buf |-> s \o W!TopBytes(c + low \div W!Pow(e), AccBytes),
                              acc |-> (low * W!Pow(g)) % W!Pow(W!WordBits), nbit |-> e]
    BY <1>4, <2>1, <2>2, Zenon DEF W!Written
  <2>4. s \o W!TopBytes(c + low \div W!Pow(e), AccBytes) = u
    <3>1. c + low \div W!Pow(e) = word
      BY <1>2, <1>5, <1>6, <1>13
    <3>2. QED
      BY <1>9, <3>1
  <2>5. (low * W!Pow(g)) % W!Pow(W!WordBits) = rest * W!Pow(g)
    <3>1. KeepsLow(high, rest, pe, pg)
      <4>1. /\ pe \in Nat /\ pe > 0 /\ pg \in Nat /\ pg > 0
            /\ high \in Nat /\ rest \in Nat /\ rest < pe
        BY <1>2, <1>5
      <4>2. QED
        BY <4>1, ShiftedOut
    <3>2. QED
      BY <1>1, <1>2, <1>3, <1>5, <3>1, Zenon DEF KeepsLow
  <2>6. QED
    BY <2>3, <2>4, <2>5
<1>15. /\ e \in Nat /\ g \in Nat /\ rest \in Nat /\ e + g = W!WordBits /\ g > 0 /\ rest < W!Pow(e)
  BY <1>1, <1>2, <1>5
<1>16. QED
  BY <1>11, <1>12, <1>13, <1>14, <1>15 DEF Holds

\* What is written comes behind what was there.
LEMMA WriteHolds ==
    ASSUME NEW w, NEW bits, Holds(w, bits), NEW v \in Int, NEW n \in Nat, n <= W!WordBits
    PROVE  Holds(W!Written(w, v, n), bits \o Digits(v, n))
<1>1. PICK s \in Seq(Nat), m \in Nat, f \in Nat, top \in Nat :
        /\ f > 0 /\ m + f = W!WordBits /\ top < W!Pow(m)
        /\ w = [buf |-> s, acc |-> top * W!Pow(f), nbit |-> m]
        /\ bits = BitsIn(s) \o Digits(top, m)
  BY DEF Holds
<1>2. CASE n < f
  BY <1>1, <1>2, WriteFits
<1>3. CASE n >= f
  BY <1>1, <1>3, WriteSpills
<1>4. QED
  BY <1>2, <1>3

\* A multiple shifted back, and further.
GoesBack(x, p, q) == (x * p) \div p = x /\ (x * p) \div (p * q) = x \div q

LEMMA ShiftedBack ==
    ASSUME NEW x, NEW p, NEW q, x \in Nat, p \in Nat, q \in Nat, p > 0, q > 0
    PROVE  GoesBack(x, p, q)
<1>1. PICK c \in Nat : c = x * p
  OBVIOUS
<1>2. c \div p = x
  <2>1. 0 \in Nat /\ 0 < p /\ x \in Int /\ c \in Int /\ c = x * p + 0
    BY <1>1
  <2>2. QED
    BY <2>1, DividedOnce
<1>3. (c \div p) \div q = c \div (p * q)
  BY DivideTwice
<1>4. QED
  BY <1>1, <1>2, <1>3 DEF GoesBack

\* Bytes put behind others come between their bits and what follows.
MoveOut(s, t, x, y) == BitsIn(s \o t) \o y = BitsIn(s) \o (x \o y)

LEMMA BytesOut ==
    ASSUME NEW s, NEW t, NEW x, NEW y, s \in Seq(Nat), t \in Seq(Nat), BitsIn(t) = x, Bits(y)
    PROVE  s \o t \in Seq(Nat) /\ MoveOut(s, t, x, y)
<1>1. s \o t \in Seq(Nat)
  BY ConcatProperties
<1>2. BitsIn(s \o t) = BitsIn(s) \o BitsIn(t)
  BY BitsInJoin
<1>3. PICK z : z = BitsIn(s)
  OBVIOUS
<1>4. Bits(z) /\ Bits(x)
  BY <1>3, BitsTyped
<1>5. Regroups(z, x, y)
  BY <1>4, Regroup
<1>6. QED
  BY <1>1, <1>2, <1>3, <1>5, Zenon DEF Regroups, MoveOut

\* Whole bytes taken out leave the bits as they were.
LEMMA FlushHolds ==
    ASSUME NEW w, NEW bits, Holds(w, bits)
    PROVE  Holds(W!Flushed(w), bits) /\ W!Flushed(w).nbit < ByteBits
<1>1. PICK s, m, f, top :
        /\ s \in Seq(Nat) /\ m \in Nat /\ f \in Nat /\ top \in Nat
        /\ f > 0 /\ m + f = W!WordBits /\ top < W!Pow(m)
        /\ w = [buf |-> s, acc |-> top * W!Pow(f), nbit |-> m]
        /\ bits = BitsIn(s) \o Digits(top, m)
  BY DEF Holds
<1>2. PICK a, b, k : /\ a \in Nat /\ a = W!WordBits /\ a > 0 /\ b \in Nat /\ b = ByteBits /\ b > 0
                     /\ k \in Nat /\ k = AccBytes /\ a = k * b
  BY WordType
<1>3. PICK whole, left : /\ whole \in Nat /\ left \in Nat /\ whole = m \div b /\ left = m % b
                         /\ whole < k /\ left < b /\ m = whole * b + left
  <2>1. m \in Nat /\ k \in Nat /\ b \in Nat /\ b > 0 /\ m < k * b
    BY <1>1, <1>2
  <2>2. HasParts(m, k, b)
    BY <2>1, Below
  <2>3. QED
    BY <2>2, Zenon DEF HasParts
<1>4. PICK e, g, wr : /\ e \in Nat /\ e = whole * b /\ m = e + left
                     /\ g \in Nat /\ g = f + e /\ left + g = a
                     /\ wr \in Nat /\ wr = f + left /\ wr = a - e
  <2>1. PICK e : e \in Nat /\ e = whole * b
    BY <1>2, <1>3
  <2>2. m = e + left /\ f + e \in Nat /\ left + (f + e) = a /\ f + left \in Nat /\ f + left = a - e
    BY <1>1, <1>2, <1>3, <2>1
  <2>3. QED
    BY <2>1, <2>2
<1>5. PICK pf, pe, pl : /\ pf \in Nat /\ pf = W!Pow(f) /\ pf > 0
                        /\ pe \in Nat /\ pe = W!Pow(e) /\ pe > 0
                        /\ pl \in Nat /\ pl = W!Pow(left) /\ pl > 0
  BY <1>1, <1>3, <1>4, PowType
<1>6. PICK pg : pg = W!Pow(g) /\ pg = pf * pe /\ pg \in Nat /\ pg > 0
  <2>1. W!Pow(f + e) = W!Pow(f) * W!Pow(e)
    BY <1>1, <1>4, PowSum
  <2>2. W!Pow(g) \in Nat /\ W!Pow(g) > 0
    BY <1>4, PowType
  <2>3. QED
    BY <1>4, <1>5, <2>1, <2>2
<1>7. W!Pow(m) = pe * pl /\ W!Pow(a) = pl * pg /\ W!Pow(wr) = pf * pl
  <2>1. W!Pow(e + left) = W!Pow(e) * W!Pow(left) /\ W!Pow(left + g) = W!Pow(left) * W!Pow(g)
        /\ W!Pow(f + left) = W!Pow(f) * W!Pow(left)
    BY <1>1, <1>3, <1>4, PowSum
  <2>2. QED
    BY <1>4, <1>5, <1>6, <2>1
<1>8. PICK h, l : /\ h \in Nat /\ l \in Nat /\ h = top \div pl /\ l = top % pl
                  /\ h < pe /\ l < pl /\ top = h * pl + l
  <2>1. top < pe * pl /\ top \in Nat /\ pe \in Nat /\ pl \in Nat /\ pl > 0
    BY <1>1, <1>5, <1>7
  <2>2. HasParts(top, pe, pl)
    BY <2>1, Below
  <2>3. QED
    BY <2>2, Zenon DEF HasParts
<1>9. Digits(top, m) = Digits(h, e) \o Digits(l, left)
  <2>1. top \in Int /\ e \in Nat /\ left \in Nat
    BY <1>1, <1>3, <1>4
  <2>2. Digits(top, e + left) = Digits(top \div W!Pow(left), e) \o Digits(top, left)
    BY <2>1, DigitsSplit
  <2>3. Digits(top % W!Pow(left), left) = Digits(top, left)
    BY <2>1, DigitsOfCut
  <2>4. QED
    BY <1>4, <1>5, <1>8, <2>2, <2>3
<1>10. PICK c : c = top * pf /\ c \in Nat
  BY <1>1, <1>5
<1>11. c \div W!Pow(wr) = h
  <2>1. GoesBack(top, pf, pl)
    BY <1>1, <1>5, ShiftedBack
  <2>2. QED
    BY <1>7, <1>8, <1>10, <2>1, Zenon DEF GoesBack
<1>12. PICK t : t = W!TopBytes(c, whole)
  OBVIOUS
<1>13. t \in Seq(Nat) /\ BitsIn(t) = Digits(h, e)
  <2>1. whole \in 0..AccBytes
    BY <1>2, <1>3
  <2>2. /\ W!TopBytes(c, whole) \in Seq(Nat)
        /\ BitsIn(W!TopBytes(c, whole)) = Digits(c \div W!Pow(W!WordBits - whole * ByteBits), whole * ByteBits)
    BY <1>10, <2>1, TopBits
  <2>3. whole * ByteBits = e /\ W!WordBits - whole * ByteBits = wr
    BY <1>2, <1>4
  <2>4. QED
    BY <1>11, <1>12, <2>2, <2>3
<1>14. PICK u : u = s \o t
  OBVIOUS
<1>15. u \in Seq(Nat) /\ bits = BitsIn(u) \o Digits(l, left)
  <2>1. PICK x, y : x = Digits(h, e) /\ y = Digits(l, left)
    OBVIOUS
  <2>2. Bits(y)
    BY <1>3, <1>8, <2>1, BitsTyped
  <2>3. BitsIn(t) = x /\ t \in Seq(Nat) /\ s \in Seq(Nat)
    BY <1>1, <1>13, <2>1
  <2>4. s \o t \in Seq(Nat) /\ MoveOut(s, t, x, y)
    BY <2>2, <2>3, BytesOut
  <2>5. bits = BitsIn(s) \o (x \o y)
    BY <1>1, <1>9, <2>1
  <2>6. QED
    BY <1>14, <2>1, <2>4, <2>5, Zenon DEF MoveOut
<1>16. (c * W!Pow(e)) % W!Pow(a) = l * W!Pow(g)
  <2>1. KeepsLow(h, l, pl, pg)
    BY <1>5, <1>6, <1>8, ShiftedOut
  <2>2. (top * pf) * pe = top * (pf * pe)
    BY <1>1, <1>5
  <2>3. c * W!Pow(e) = (h * pl + l) * pg
    BY <1>5, <1>6, <1>8, <1>10, <2>2
  <2>4. QED
    BY <1>6, <1>7, <2>1, <2>3, Zenon DEF KeepsLow
<1>17. W!Flushed(w) = [buf |-> u, acc |-> l * W!Pow(g), nbit |-> left]
  <2>1. w.buf = s /\ w.acc = c /\ w.nbit = m
    BY <1>1, <1>5, <1>10
  <2>2. W!Flushed(w) = [buf |-> s \o W!TopBytes(c, m \div ByteBits),
                        acc |-> (c * W!Pow((m \div ByteBits) * ByteBits)) % W!Pow(W!WordBits),
                        nbit |-> m % ByteBits]
    BY <2>1, Zenon DEF W!Flushed
  <2>3. m \div ByteBits = whole /\ m % ByteBits = left /\ whole * ByteBits = e /\ W!WordBits = a
    BY <1>2, <1>3, <1>4
  <2>4. QED
    BY <1>12, <1>14, <1>16, <2>2, <2>3, Zenon
<1>18. g > 0 /\ left + g = W!WordBits /\ l < W!Pow(left) /\ left < ByteBits
  <2>1. g > 0 /\ left + g = W!WordBits
    <3>1. f > 0
      BY <1>1
    <3>2. f \in Nat
      BY <1>1
    <3>3. QED
      BY <1>2, <1>4, <3>1, <3>2
  <2>2. QED
    BY <1>2, <1>3, <1>5, <1>8, <2>1, Zenon
<1>19. Holds(W!Flushed(w), bits)
  BY <1>3, <1>4, <1>8, <1>15, <1>17, <1>18 DEF Holds
<1>20. QED
  BY <1>17, <1>18, <1>19

\* What an aligned writer is: the padded byte leaves it too.
Aligned(w) ==
    IF W!Flushed(w).nbit = 0 THEN W!Flushed(w)
    ELSE [buf |-> W!Flushed(w).buf \o W!TopBytes(W!Flushed(w).acc, 1), acc |-> 0, nbit |-> 0]

Padding(bits) == (-Len(bits)) % ByteBits

\* The padding of bytes and m bits.
LEMMA PaddingIs ==
    ASSUME NEW s \in Seq(Nat), NEW m \in Nat, m < ByteBits, NEW top \in Nat
    PROVE  Padding(BitsIn(s) \o Digits(top, m)) = IF m = 0 THEN 0 ELSE ByteBits - m
<1>1. PICK b \in Nat : b = ByteBits /\ b > 0
  BY WordType
<1>2. PICK k \in Nat : k = Len(s)
  OBVIOUS
<1>3. PICK x, y : x = BitsIn(s) /\ y = Digits(top, m)
  OBVIOUS
<1>4. x \in Seq(Nat) /\ Len(x) = k * b /\ y \in Seq(Nat) /\ Len(y) = m
  BY <1>1, <1>2, <1>3, BitsInType, DigitsSeq
<1>5. Len(x \o y) = k * b + m
  BY <1>4, ConcatProperties
<1>6. PICK n \in Nat : n = k * b + m
  BY <1>1
<1>7. (-n) % b = IF m = 0 THEN 0 ELSE b - m
  <2>1. CASE m = 0
    <3>1. -n = (-k) * b + 0 /\ -n \in Int /\ -k \in Int /\ 0 \in Nat /\ 0 < b
      BY <1>1, <1>6, <2>1
    <3>2. PICK v \in Int, q \in Int, z \in Nat :
              v = -n /\ q = -k /\ z = 0 /\ v = q * b + z /\ z < b
      BY <3>1
    <3>3. v = q * b + z /\ z < b /\ b > 0
      BY <1>1, <3>2
    <3>4. v % b = z
      BY <3>3, DividedOnce
    <3>5. QED
      BY <2>1, <3>2, <3>4, Zenon
  <2>2. CASE m # 0
    <3>1. PICK q \in Int, d \in Nat, v \in Int : q = (-k) - 1 /\ d = b - m /\ v = -n
      BY <1>1
    <3>2. ((-k) - 1) * b = (-k) * b - b /\ (-k) * b = -(k * b)
      BY <1>1
    <3>3. v = q * b + d /\ d < b
      BY <1>1, <1>6, <2>2, <3>1, <3>2
    <3>4. v % b = d
      BY <1>1, <3>3, DividedOnce
    <3>5. QED
      BY <1>1, <2>2, <3>1, <3>4
  <2>3. QED
    BY <2>1, <2>2
<1>8. QED
  BY <1>1, <1>3, <1>5, <1>6, <1>7 DEF Padding

\* Aligning puts zeros behind what was there, up to a whole byte.
LEMMA AlignHolds ==
    ASSUME NEW w, NEW bits, Holds(w, bits)
    PROVE  Holds(Aligned(w), bits \o Digits(0, Padding(bits))) /\ Aligned(w).nbit = 0
<1>1. PICK x : x = W!Flushed(w)
  OBVIOUS
<1>2. Holds(x, bits) /\ x.nbit < ByteBits
  BY <1>1, FlushHolds
<1>3. PICK s, m, f, top :
        /\ s \in Seq(Nat) /\ m \in Nat /\ f \in Nat /\ top \in Nat
        /\ f > 0 /\ m + f = W!WordBits /\ top < W!Pow(m)
        /\ x = [buf |-> s, acc |-> top * W!Pow(f), nbit |-> m]
        /\ bits = BitsIn(s) \o Digits(top, m)
  BY <1>2 DEF Holds
<1>4. x.nbit = m /\ x.buf = s /\ m < ByteBits
  BY <1>2, <1>3
<1>5. Padding(bits) = IF m = 0 THEN 0 ELSE ByteBits - m
  <2>1. s \in Seq(Nat) /\ m \in Nat /\ top \in Nat
    BY <1>3
  <2>2. Padding(BitsIn(s) \o Digits(top, m)) = IF m = 0 THEN 0 ELSE ByteBits - m
    BY <1>4, <2>1, PaddingIs
  <2>3. QED
    BY <1>3, <2>2
<1>6. Digits(0, 0) = <<>>
  <2>1. Digits(0, 0) \in Seq(Nat) /\ Len(Digits(0, 0)) = 0
    BY DigitsSeq
  <2>2. QED
    BY <2>1, EmptySeq
<1>7. CASE m = 0
  <2>1. Aligned(w) = x
    BY <1>1, <1>4, <1>7 DEF Aligned
  <2>2. bits \in Seq(Nat)
    <3>1. Bits(BitsIn(s)) /\ Bits(Digits(top, m))
      BY <1>3, BitsTyped
    <3>2. QED
      BY <1>3, <3>1, BitsJoined DEF Bits
  <2>3. bits \o <<>> = bits
    BY <2>2, ConcatEmptySeq
  <2>4. bits \o Digits(0, Padding(bits)) = bits
    BY <1>5, <1>6, <1>7, <2>3
  <2>5. QED
    BY <1>2, <1>4, <1>7, <2>1, <2>4
<1>8. CASE m # 0
  <2>1. PICK a, b, k : /\ a \in Nat /\ a = W!WordBits /\ a > 0 /\ b \in Nat /\ b = ByteBits /\ b > 0
                       /\ k \in Nat /\ k = AccBytes /\ k > 0 /\ a = k * b
    BY WordType
  <2>2. PICK g, wr : /\ g \in Nat /\ g = b - m /\ m + g = b
                    /\ wr \in Nat /\ wr = a - b /\ f = g + wr
    <3>1. k * b >= 1 * b
      BY <2>1
    <3>2. b - m \in Nat /\ a - b \in Nat /\ f = (b - m) + (a - b)
      BY <1>3, <1>4, <2>1, <3>1
    <3>3. QED
      BY <1>3, <2>1, <3>2
  <2>3. PICK pf, pg, pr : /\ pf = W!Pow(f) /\ pg = W!Pow(g) /\ pr = W!Pow(wr)
                          /\ pg \in Nat /\ pg > 0 /\ pr \in Nat /\ pr > 0 /\ pf = pg * pr /\ pf \in Nat
    <3>1. W!Pow(g + wr) = W!Pow(g) * W!Pow(wr)
      BY <2>2, PowSum
    <3>2. W!Pow(g) \in Nat /\ W!Pow(g) > 0 /\ W!Pow(wr) \in Nat /\ W!Pow(wr) > 0 /\ W!Pow(f) \in Nat
      BY <1>3, <2>2, PowType
    <3>3. QED
      BY <2>2, <3>1, <3>2
  <2>4. PICK c : c = top * pf /\ c \in Nat
    <3>1. top \in Nat /\ pf \in Nat
      BY <1>3, <2>3, Zenon
    <3>2. top * pf \in Nat
      BY <3>1
    <3>3. QED
      BY <3>2, Zenon
  <2>5. PICK v : v = top * pg /\ v \in Nat
    <3>1. top \in Nat /\ pg \in Nat
      BY <1>3, <2>3, Zenon
    <3>2. top * pg \in Nat
      BY <3>1
    <3>3. QED
      BY <3>2, Zenon
  <2>6. c \div pr = v
    <3>1. top * (pg * pr) = (top * pg) * pr
      BY <1>3, <2>3
    <3>2. c = v * pr
      BY <2>3, <2>4, <2>5, <3>1
    <3>3. GoesBack(v, pr, pr)
      BY <2>3, <2>5, ShiftedBack
    <3>4. QED
      BY <3>2, <3>3, Zenon DEF GoesBack
  <2>7. Digits(v, b) = Digits(top, m) \o Digits(0, g)
    <3>1. 0 \in Nat /\ 0 < W!Pow(g) /\ m \in Nat /\ g \in Nat /\ top \in Nat /\ top < W!Pow(m)
      BY <1>3, <2>2, <2>3
    <3>2. ComesBehind(top, m, 0, g)
      BY <3>1, DigitsBehind
    <3>3. top * W!Pow(g) + 0 = v /\ m + g = b
      BY <2>2, <2>3, <2>5
    <3>4. QED
      BY <3>2, <3>3, Zenon DEF ComesBehind
  <2>8. PICK t, u : t = W!TopBytes(c, 1) /\ u = s \o t
    OBVIOUS
  <2>9. t \in Seq(Nat) /\ BitsIn(t) = Digits(v, b)
    <3>1. PICK one : one = 1 /\ one \in 0..AccBytes
      BY <2>1
    <3>2. /\ W!TopBytes(c, one) \in Seq(Nat)
          /\ BitsIn(W!TopBytes(c, one)) = Digits(c \div W!Pow(W!WordBits - one * ByteBits), one * ByteBits)
      BY <2>4, <3>1, TopBits
    <3>3. one * ByteBits = b /\ W!WordBits - one * ByteBits = wr
      BY <2>1, <2>2, <3>1
    <3>4. QED
      BY <2>3, <2>6, <2>8, <3>1, <3>2, <3>3
  <2>10. PICK x1, y1, z1 : x1 = BitsIn(s) /\ y1 = Digits(top, m) /\ z1 = Digits(0, g)
    OBVIOUS
  <2>11. Regroups(x1, y1, z1)
    <3>1. Bits(x1) /\ Bits(y1) /\ Bits(z1)
      BY <1>3, <2>2, <2>10, BitsTyped
    <3>2. QED
      BY <3>1, Regroup
  <2>12. u \in Seq(Nat) /\ BitsIn(u) = BitsIn(s) \o BitsIn(t)
    <3>1. s \in Seq(Nat) /\ t \in Seq(Nat)
      BY <1>3, <2>9
    <3>2. s \o t \in Seq(Nat)
      BY <3>1, ConcatProperties
    <3>3. BitsIn(s \o t) = BitsIn(s) \o BitsIn(t)
      BY <3>1, BitsInJoin
    <3>4. QED
      BY <2>8, <3>2, <3>3
  <2>13. Padding(bits) = g
    BY <1>5, <1>8, <2>1, <2>2
  <2>14. bits \o Digits(0, Padding(bits)) = BitsIn(u)
    BY <1>3, <2>7, <2>9, <2>10, <2>11, <2>12, <2>13, Zenon DEF Regroups
  <2>15. BitsIn(u) = BitsIn(u) \o Digits(0, 0)
    <3>1. BitsIn(u) \in Seq(Nat)
      BY <2>12, BitsInType
    <3>2. BitsIn(u) \o <<>> = BitsIn(u)
      BY <3>1, ConcatEmptySeq
    <3>3. QED
      BY <1>6, <3>2, Zenon
  <2>16. Aligned(w) = [buf |-> u, acc |-> 0, nbit |-> 0]
    <3>1. x.acc = c
      BY <1>3, <2>3, <2>4
    <3>2. W!Flushed(w).nbit # 0 /\ W!Flushed(w).buf = s /\ W!Flushed(w).acc = c
      BY <1>1, <1>4, <1>8, <3>1
    <3>3. QED
      BY <2>8, <3>2 DEF Aligned
  <2>17. Holds(Aligned(w), bits \o Digits(0, Padding(bits)))
    <3>1. PICK z0 : z0 = 0 /\ z0 \in Nat /\ z0 + a = W!WordBits /\ z0 < W!Pow(z0) /\ z0 = z0 * W!Pow(a)
      <4>1. W!Pow(a) \in Nat
        BY <2>1, PowType
      <4>2. 0 + a = W!WordBits /\ 0 < W!Pow(0) /\ 0 = 0 * W!Pow(a)
        BY <2>1, <4>1, PowZero
      <4>3. QED
        BY <4>2
    <3>2. Aligned(w) = [buf |-> u, acc |-> z0 * W!Pow(a), nbit |-> z0]
      BY <2>16, <3>1
    <3>3. bits \o Digits(0, Padding(bits)) = BitsIn(u) \o Digits(z0, z0)
      BY <2>14, <2>15, <3>1, Zenon
    <3>4. QED
      BY <2>1, <2>12, <3>1, <3>2, <3>3, Zenon DEF Holds
  <2>18. Aligned(w).nbit = 0
    BY <2>16
  <2>19. QED
    BY <2>17, <2>18
<1>9. QED
  BY <1>7, <1>8

-----------------------------------------------------------------------------
(* Runs of zeros.                                                           *)

\* g is what WriteUnary's recursive function defines up to n.
IsRun(g, w, n) ==
    g = [k \in 0..n |-> IF k = 0 THEN w ELSE W!Written(g[k - 1], 0, W!ZeroRun)]

LEMMA RunExists ==
    ASSUME NEW w, NEW n \in Nat
    PROVE  \E g : IsRun(g, w, n)
<1> DEFINE T == {j \in Nat : \E g : IsRun(g, w, j)}
<1>1. 0 \in T
  <2> DEFINE g == [k \in 0..0 |-> w]
  <2>1. g = [k \in 0..0 |-> IF k = 0 THEN w ELSE W!Written(g[k - 1], 0, W!ZeroRun)]
    OBVIOUS
  <2>2. IsRun(g, w, 0)
    BY <2>1 DEF IsRun
  <2>3. QED
    BY <2>2
<1>2. ASSUME NEW j \in Nat, j \in T PROVE j + 1 \in T
  <2>1. PICK g : IsRun(g, w, j)
    BY <1>2
  <2>2. \A k \in 0..j : g[k] = IF k = 0 THEN w ELSE W!Written(g[k - 1], 0, W!ZeroRun)
    BY <2>1, Zenon DEF IsRun
  <2>3. PICK new : new = W!Written(g[j], 0, W!ZeroRun)
    OBVIOUS
  <2>4. PICK i \in Nat : i = j + 1 /\ i - 1 = j /\ i # 0
    OBVIOUS
  <2>5. PICK h : h = [k \in 0..i |-> IF k = i THEN new ELSE g[k]]
    OBVIOUS
  <2>6. DOMAIN h = 0..i /\ h = [k \in 0..i |-> h[k]]
    BY <2>5
  <2>7. \A k \in 0..j : h[k] = g[k]
    BY <2>4, <2>5
  <2>8. h[i] = new
    BY <2>4, <2>5
  <2>9. \A k \in 0..i : h[k] = IF k = 0 THEN w ELSE W!Written(h[k - 1], 0, W!ZeroRun)
    <3>1. TAKE k \in 0..i
    <3>2. CASE k = i
      <4>1. k - 1 = j /\ k # 0 /\ j \in 0..j
        BY <2>4, <3>2
      <4>2. h[k - 1] = g[j]
        BY <2>7, <4>1
      <4>3. QED
        BY <2>3, <2>8, <3>2, <4>1, <4>2
    <3>3. CASE k = 0
      <4>1. k \in 0..j
        BY <3>3
      <4>2. h[k] = w
        BY <2>2, <2>7, <3>3, <4>1
      <4>3. QED
        BY <3>3, <4>2
    <3>4. CASE k # i /\ k # 0
      <4>1. k \in 0..j /\ k - 1 \in 0..j
        BY <2>4, <3>4
      <4>2. h[k] = g[k] /\ h[k - 1] = g[k - 1]
        BY <2>7, <4>1
      <4>3. g[k] = W!Written(g[k - 1], 0, W!ZeroRun)
        BY <2>2, <3>4, <4>1, Zenon
      <4>4. QED
        BY <3>4, <4>2, <4>3
    <3>5. QED
      BY <3>2, <3>3, <3>4
  <2>10. h = [k \in 0..i |-> IF k = 0 THEN w ELSE W!Written(h[k - 1], 0, W!ZeroRun)]
    BY <2>6, <2>9, Zenon
  <2>11. IsRun(h, w, i)
    BY <2>10, Zenon DEF IsRun
  <2>12. QED
    BY <2>4, <2>11
<1>3. Nat \subseteq T
  BY <1>1, <1>2, NatInd
<1>4. QED
  BY <1>3

\* Half a word is at least a bit and at most a word.
LEMMA ZeroRunType == W!ZeroRun \in Nat /\ W!ZeroRun > 0 /\ W!ZeroRun <= W!WordBits
<1>1. PICK a \in Nat : a = W!WordBits /\ a > 1
  BY WordType, WordAssumption
<1>2. a \div 2 \in Nat /\ a \div 2 > 0 /\ a \div 2 <= a
  BY <1>1
<1>3. QED
  BY <1>1, <1>2 DEF W!ZeroRun

\* Zeros behind zeros.
JoinsZeros(m, v, n) == Digits(0, m) \o Digits(v, n) = Digits(v, m + n)

LEMMA ZerosJoined ==
    ASSUME NEW m, NEW v, NEW n, m \in Nat, v \in Nat, n \in Nat, v < W!Pow(n)
    PROVE  JoinsZeros(m, v, n)
<1>1. 0 \in Nat /\ 0 < W!Pow(m) /\ W!Pow(n) \in Nat
  BY PowType
<1>2. ComesBehind(0, m, v, n)
  BY <1>1, DigitsBehind
<1>3. 0 * W!Pow(n) + v = v
  BY <1>1
<1>4. QED
  BY <1>2, <1>3, Zenon DEF ComesBehind, JoinsZeros

\* Any bits a writer holds are bits.
LEMMA HeldBits == ASSUME NEW w, NEW bits, Holds(w, bits) PROVE Bits(bits)
<1>1. PICK s, m, top : s \in Seq(Nat) /\ m \in Nat /\ top \in Nat /\ bits = BitsIn(s) \o Digits(top, m)
  BY DEF Holds
<1>2. Bits(BitsIn(s)) /\ Bits(Digits(top, m))
  BY <1>1, BitsTyped
<1>3. QED
  BY <1>1, <1>2, BitsJoined

\* Half words of zeros one after the other.
LEMMA RunHolds ==
    ASSUME NEW w, NEW bits, Holds(w, bits), NEW n \in Nat, NEW g, IsRun(g, w, n)
    PROVE  \A k \in 0..n : Holds(g[k], bits \o Digits(0, k * W!ZeroRun))
<1>1. PICK z : z = W!ZeroRun /\ z \in Nat /\ z > 0 /\ z <= W!WordBits
  BY ZeroRunType
<1>2. Bits(bits)
  BY HeldBits
<1>3. \A k \in 0..n : g[k] = IF k = 0 THEN w ELSE W!Written(g[k - 1], 0, W!ZeroRun)
  BY Zenon DEF IsRun
<1> DEFINE T == {j \in Nat : j <= n => Holds(g[j], bits \o Digits(0, j * z))}
<1>4. 0 \in T
  <2>1. 0 \in 0..n
    OBVIOUS
  <2>2. g[0] = w
    BY <1>3, <2>1
  <2>3. Digits(0, 0) = <<>> /\ 0 * z = 0
    <3>1. Digits(0, 0) \in Seq(Nat) /\ Len(Digits(0, 0)) = 0
      BY DigitsSeq
    <3>2. QED
      BY <1>1, <3>1, EmptySeq
  <2>4. bits \o <<>> = bits
    BY <1>2, ConcatEmptySeq DEF Bits
  <2>5. bits \o Digits(0, 0 * z) = bits
    BY <2>3, <2>4, Zenon
  <2>6. Holds(g[0], bits \o Digits(0, 0 * z))
    BY <2>2, <2>5, Zenon
  <2>7. QED
    BY <2>6
<1>5. ASSUME NEW j \in Nat, j \in T PROVE j + 1 \in T
  <2> SUFFICES ASSUME j + 1 <= n PROVE Holds(g[j + 1], bits \o Digits(0, (j + 1) * z))
    OBVIOUS
  <2>1. Holds(g[j], bits \o Digits(0, j * z))
    BY <1>5
  <2>2. j + 1 \in 0..n /\ j + 1 # 0 /\ (j + 1) - 1 = j
    OBVIOUS
  <2>3. g[j + 1] = W!Written(g[j], 0, z)
    BY <1>1, <1>3, <2>2
  <2>4. PICK y : y = bits \o Digits(0, j * z)
    OBVIOUS
  <2>5. Holds(g[j + 1], y \o Digits(0, z))
    <3>1. Holds(g[j], y) /\ 0 \in Int
      BY <2>1, <2>4
    <3>2. Holds(W!Written(g[j], 0, z), y \o Digits(0, z))
      BY <1>1, <3>1, WriteHolds
    <3>3. QED
      BY <2>3, <3>2
  <2>6. PICK m : m = j * z /\ m \in Nat /\ m + z = (j + 1) * z
    BY <1>1
  <2>7. JoinsZeros(m, 0, z)
    <3>1. W!Pow(z) \in Nat /\ 0 < W!Pow(z)
      BY <1>1, PowType
    <3>2. 0 \in Nat
      OBVIOUS
    <3>3. QED
      BY <1>1, <2>6, <3>1, <3>2, ZerosJoined
  <2>8. Regroups(bits, Digits(0, m), Digits(0, z))
    <3>1. Bits(Digits(0, m)) /\ Bits(Digits(0, z))
      BY <1>1, <2>6, BitsTyped
    <3>2. QED
      BY <1>2, <3>1, Regroup
  <2>9. y \o Digits(0, z) = bits \o Digits(0, (j + 1) * z)
    BY <2>4, <2>6, <2>7, <2>8, Zenon DEF JoinsZeros, Regroups
  <2>10. QED
    BY <2>5, <2>9, Zenon
<1> HIDE DEF T
<1>6. Nat \subseteq T
  BY <1>4, <1>5, NatInd
<1>7. ASSUME NEW k \in 0..n PROVE Holds(g[k], bits \o Digits(0, k * W!ZeroRun))
  <2>1. k \in T /\ k <= n
    BY <1>6
  <2>2. QED
    BY <1>1, <2>1 DEF T
<1>8. QED
  BY <1>7

\* A writer with q zeros and a one behind what w holds.
UnaryWritten(w, q) ==
    LET after[k \in 0..(q \div W!ZeroRun)] ==
            IF k = 0 THEN w ELSE W!Written(after[k - 1], 0, W!ZeroRun)
    IN  W!Written(after[q \div W!ZeroRun], 1, (q % W!ZeroRun) + 1)

LEMMA UnaryHolds ==
    ASSUME NEW w, NEW bits, Holds(w, bits), NEW q \in Nat
    PROVE  Holds(UnaryWritten(w, q), bits \o Digits(1, q + 1))
<1>1. PICK z : z = W!ZeroRun /\ z \in Nat /\ z > 0 /\ z <= W!WordBits
  BY ZeroRunType
<1>2. PICK n, l : n \in Nat /\ l \in Nat /\ n = q \div z /\ l = q % z /\ l < z /\ q = n * z + l
  <2>1. z \in Nat /\ z > 0 /\ q \in Int
    BY <1>1
  <2>2. q \div z \in Nat
    BY <1>1
  <2>3. q % z \in Nat /\ q % z < z /\ q = (q \div z) * z + (q % z)
    BY <2>1, Divided
  <2>4. QED
    BY <2>2, <2>3
<1>3. PICK g : g = CHOOSE h : IsRun(h, w, n)
  OBVIOUS
<1>4. IsRun(g, w, n)
  <2>1. \E h : IsRun(h, w, n)
    BY <1>2, RunExists
  <2>2. QED
    BY <1>3, <2>1, Zenon
<1>5. UnaryWritten(w, q) = W!Written(g[n], 1, l + 1)
  BY <1>1, <1>2, <1>3, Zenon DEF UnaryWritten, IsRun
<1>6. PICK y, m : m = n * z /\ m \in Nat /\ y = bits \o Digits(0, m)
  <2>1. PICK m : m = n * z /\ m \in Nat
    BY <1>1, <1>2
  <2>2. QED
    BY <2>1
<1>7. Holds(g[n], y)
  <2>1. \A k \in 0..n : Holds(g[k], bits \o Digits(0, k * W!ZeroRun))
    BY <1>2, <1>4, RunHolds
  <2>2. n \in 0..n
    BY <1>2
  <2>3. QED
    BY <1>1, <1>6, <2>1, <2>2
<1>8. PICK i : i = l + 1 /\ i \in Nat /\ i <= W!WordBits /\ m + i = q + 1
  <2>1. W!WordBits \in Nat
    BY WordType
  <2>2. l + 1 \in Nat /\ l + 1 <= W!WordBits
    BY <1>1, <1>2, <2>1
  <2>3. m + (l + 1) = q + 1
    <3>1. q = m + l
      BY <1>2, <1>6
    <3>2. m \in Nat /\ l \in Nat
      BY <1>2, <1>6
    <3>3. QED
      BY <3>1, <3>2
  <2>4. QED
    BY <2>2, <2>3
<1>9. Holds(W!Written(g[n], 1, i), y \o Digits(1, i))
  <2>1. 1 \in Int
    OBVIOUS
  <2>2. QED
    BY <1>7, <1>8, <2>1, WriteHolds
<1>10. JoinsZeros(m, 1, i)
  <2>1. 1 < W!Pow(i)
    <3>1. W!Pow(l + 1) = 2 * W!Pow(l) /\ W!Pow(l) \in Nat /\ W!Pow(l) > 0
      BY <1>2, PowNext, PowType
    <3>2. QED
      BY <1>8, <3>1
  <2>2. 1 \in Nat
    OBVIOUS
  <2>3. QED
    BY <1>6, <1>8, <2>1, <2>2, ZerosJoined
<1>11. Regroups(bits, Digits(0, m), Digits(1, i))
  <2>1. Bits(bits) /\ Bits(Digits(0, m)) /\ Bits(Digits(1, i))
    BY <1>6, <1>8, BitsTyped, HeldBits
  <2>2. QED
    BY <2>1, Regroup
<1>12. y \o Digits(1, i) = bits \o Digits(1, q + 1)
  BY <1>6, <1>8, <1>10, <1>11, Zenon DEF JoinsZeros, Regroups
<1>13. QED
  BY <1>5, <1>8, <1>9, <1>12, Zenon

-----------------------------------------------------------------------------
(* The reference encoding.                                                  *)

\* The bits of a field behind others.
FieldBits(f, before) ==
    CASE f.op \in {"bits", "signed"} -> Digits(f.v, f.n)
      [] f.op = "unary" -> Digits(1, f.v + 1)
      [] f.op = "align" -> Digits(0, Padding(before))
      [] f.op = "bytes" -> <<>>

\* g is what Encoded's recursive function defines for the first n fields of fs.
Encodes(g, fs, n) ==
    g = [k \in 0..n |-> IF k = 0 THEN <<>> ELSE g[k - 1] \o FieldBits(fs[k], g[k - 1])]

LEMMA EncodesAt ==
    ASSUME NEW g, NEW fs, NEW n, Encodes(g, fs, n)
    PROVE  /\ DOMAIN g = 0..n
           /\ \A k \in 0..n : g[k] = IF k = 0 THEN <<>> ELSE g[k - 1] \o FieldBits(fs[k], g[k - 1])
<1>1. g = [k \in 0..n |-> IF k = 0 THEN <<>> ELSE g[k - 1] \o FieldBits(fs[k], g[k - 1])]
  BY Zenon DEF Encodes
<1>2. QED
  BY <1>1, Zenon

\* One field more.
GoesOn(g, fs, j) ==
    \E h : Encodes(h, fs, j + 1) /\ h[j + 1] = g[j] \o FieldBits(fs[j + 1], g[j])

LEMMA EncodesMore ==
    ASSUME NEW fs, NEW j, NEW g, j \in Nat, Encodes(g, fs, j)
    PROVE  GoesOn(g, fs, j)
<1>1. \A k \in 0..j : g[k] = IF k = 0 THEN <<>> ELSE g[k - 1] \o FieldBits(fs[k], g[k - 1])
  BY EncodesAt, Zenon
<1>2. PICK i \in Nat : i = j + 1 /\ i - 1 = j /\ i # 0
  OBVIOUS
<1>3. PICK new : new = g[j] \o FieldBits(fs[i], g[j])
  OBVIOUS
<1>4. PICK h : h = [k \in 0..i |-> IF k = i THEN new ELSE g[k]]
  OBVIOUS
<1>5. DOMAIN h = 0..i /\ h = [k \in 0..i |-> h[k]]
  BY <1>4
<1>6. (\A k \in 0..j : h[k] = g[k]) /\ h[i] = new
  BY <1>2, <1>4
<1>7. \A k \in 0..i : h[k] = IF k = 0 THEN <<>> ELSE h[k - 1] \o FieldBits(fs[k], h[k - 1])
  <2>1. TAKE k \in 0..i
  <2>2. CASE k = i
    <3>1. k - 1 = j /\ k # 0 /\ j \in 0..j
      BY <1>2, <2>2
    <3>2. h[k - 1] = g[j]
      BY <1>6, <3>1
    <3>3. QED
      BY <1>3, <1>6, <2>2, <3>1, <3>2, Zenon
  <2>3. CASE k = 0
    <3>1. k \in 0..j
      BY <2>3
    <3>2. h[k] = <<>>
      BY <1>1, <1>6, <2>3, <3>1, Zenon
    <3>3. QED
      BY <2>3, <3>2
  <2>4. CASE k # i /\ k # 0
    <3>1. k \in 0..j /\ k - 1 \in 0..j
      BY <1>2, <2>4
    <3>2. h[k] = g[k] /\ h[k - 1] = g[k - 1]
      BY <1>6, <3>1
    <3>3. g[k] = g[k - 1] \o FieldBits(fs[k], g[k - 1])
      BY <1>1, <2>4, <3>1, Zenon
    <3>4. QED
      BY <2>4, <3>2, <3>3, Zenon
  <2>5. QED
    BY <2>2, <2>3, <2>4
<1>8. h = [k \in 0..i |-> IF k = 0 THEN <<>> ELSE h[k - 1] \o FieldBits(fs[k], h[k - 1])]
  BY <1>5, <1>7, Zenon
<1>9. Encodes(h, fs, i)
  BY <1>8, Zenon DEF Encodes
<1>10. h[i] = g[j] \o FieldBits(fs[i], g[j])
  BY <1>3, <1>6
<1>11. QED
  BY <1>2, <1>9, <1>10, Zenon DEF GoesOn

LEMMA EncodesExists ==
    ASSUME NEW fs, NEW n \in Nat
    PROVE  \E g : Encodes(g, fs, n)
<1> DEFINE T == {j \in Nat : \E g : Encodes(g, fs, j)}
<1>1. 0 \in T
  <2> DEFINE g == [k \in 0..0 |-> <<>>]
  <2>1. g = [k \in 0..0 |-> IF k = 0 THEN <<>> ELSE g[k - 1] \o FieldBits(fs[k], g[k - 1])]
    OBVIOUS
  <2>2. Encodes(g, fs, 0)
    BY <2>1 DEF Encodes
  <2>3. QED
    BY <2>2
<1>2. ASSUME NEW j \in Nat, j \in T PROVE j + 1 \in T
  <2>1. PICK g : Encodes(g, fs, j)
    BY <1>2
  <2>2. \E h : Encodes(h, fs, j + 1)
    BY <2>1, EncodesMore DEF GoesOn
  <2>3. QED
    BY <2>2
<1>3. Nat \subseteq T
  BY <1>1, <1>2, NatInd
<1>4. QED
  BY <1>3

\* What is encoded of some fields does not depend on those behind them.
Agree(fs, gs, n) == \A k \in 1..n : fs[k] = gs[k]

LEMMA EncodesUnique ==
    ASSUME NEW fs, NEW gs, NEW n, NEW g, NEW h, n \in Nat,
           Agree(fs, gs, n), Encodes(g, fs, n), Encodes(h, gs, n)
    PROVE  g[n] = h[n]
<1>1. \A k \in 0..n : g[k] = IF k = 0 THEN <<>> ELSE g[k - 1] \o FieldBits(fs[k], g[k - 1])
  BY EncodesAt, Zenon
<1>2. \A k \in 0..n : h[k] = IF k = 0 THEN <<>> ELSE h[k - 1] \o FieldBits(gs[k], h[k - 1])
  BY EncodesAt, Zenon
<1> DEFINE T == {j \in Nat : j <= n => g[j] = h[j]}
<1>3. 0 \in T
  <2>1. 0 \in 0..n
    OBVIOUS
  <2>2. g[0] = <<>> /\ h[0] = <<>>
    BY <1>1, <1>2, <2>1, Zenon
  <2>3. QED
    BY <2>2
<1>4. ASSUME NEW j \in Nat, j \in T PROVE j + 1 \in T
  <2> SUFFICES ASSUME j + 1 <= n PROVE g[j + 1] = h[j + 1]
    OBVIOUS
  <2>1. g[j] = h[j]
    BY <1>4
  <2>2. PICK i : i = j + 1 /\ i \in 0..n /\ i # 0 /\ i - 1 = j /\ i \in 1..n
    OBVIOUS
  <2>3. g[i] = g[j] \o FieldBits(fs[i], g[j])
    BY <1>1, <2>2, Zenon
  <2>4. h[i] = h[j] \o FieldBits(gs[i], h[j])
    BY <1>2, <2>2, Zenon
  <2>5. fs[i] = gs[i]
    BY <2>2 DEF Agree
  <2>6. QED
    BY <2>1, <2>2, <2>3, <2>4, <2>5, Zenon
<1> HIDE DEF T
<1>5. Nat \subseteq T
  BY <1>3, <1>4, NatInd
<1>6. n \in T /\ n <= n
  BY <1>5
<1>7. QED
  BY <1>6 DEF T

\* What Encoded is.
LEMMA EncodedIs ==
    ASSUME NEW fs, Len(fs) \in Nat
    PROVE  \E g : Encodes(g, fs, Len(fs)) /\ Encoded(fs) = g[Len(fs)]
<1>1. PICK g : g = CHOOSE h : Encodes(h, fs, Len(fs))
  OBVIOUS
<1>2. Encodes(g, fs, Len(fs))
  <2>1. \E h : Encodes(h, fs, Len(fs))
    BY EncodesExists
  <2>2. QED
    BY <1>1, <2>1, Zenon
<1>3. Encoded(fs) = g[Len(fs)]
  BY <1>1, Zenon DEF Encoded, Encodes, FieldBits, Padding
<1>4. QED
  BY <1>2, <1>3

LEMMA EncodedNone == Encoded(<<>>) = <<>>
<1>1. PICK fs, n : fs = <<>> /\ n = 0 /\ Len(fs) = n /\ n \in 0..n
  OBVIOUS
<1>2. PICK g : Encodes(g, fs, n) /\ Encoded(fs) = g[n]
  <2>1. Len(fs) \in Nat
    BY <1>1
  <2>2. QED
    BY <1>1, <2>1, EncodedIs
<1>3. g[n] = <<>>
  BY <1>1, <1>2, EncodesAt, Zenon
<1>4. QED
  BY <1>1, <1>2, <1>3

LEMMA EncodedAppend ==
    ASSUME NEW S, NEW fs \in Seq(S), NEW f \in S
    PROVE  Encoded(Append(fs, f)) = Encoded(fs) \o FieldBits(f, Encoded(fs))
<1>1. PICK n, i : n = Len(fs) /\ n \in Nat /\ i = n + 1 /\ i \in Nat
  OBVIOUS
<1>2. PICK gs : gs = Append(fs, f)
  OBVIOUS
<1>3. Len(gs) = i /\ gs[i] = f
  BY <1>1, <1>2
<1>4. Agree(fs, gs, n)
  BY <1>1, <1>2 DEF Agree
<1>5. PICK g : Encodes(g, fs, n) /\ Encoded(fs) = g[n]
  BY <1>1, EncodedIs
<1>6. PICK e : Encodes(e, gs, n)
  BY <1>1, EncodesExists
<1>7. g[n] = e[n]
  BY <1>1, <1>4, <1>5, <1>6, EncodesUnique
<1>8. PICK h : Encodes(h, gs, i) /\ h[i] = e[n] \o FieldBits(gs[i], e[n])
  <2>1. GoesOn(e, gs, n)
    BY <1>1, <1>6, EncodesMore
  <2>2. QED
    BY <1>1, <2>1, Zenon DEF GoesOn
<1>9. PICK x : Encodes(x, gs, i) /\ Encoded(gs) = x[i]
  BY <1>1, <1>3, EncodedIs
<1>10. x[i] = h[i]
  <2>1. Agree(gs, gs, i)
    BY DEF Agree
  <2>2. i \in Nat /\ Encodes(x, gs, i) /\ Encodes(h, gs, i)
    BY <1>1, <1>8, <1>9
  <2>3. QED
    BY <2>1, <2>2, EncodesUnique
<1>11. QED
  BY <1>2, <1>3, <1>5, <1>7, <1>8, <1>9, <1>10, Zenon

-----------------------------------------------------------------------------
(* The writer's invariant.                                                  *)

Padded == [op |-> "align", v |-> 0, n |-> 0]

\* What may have been written: the fields, and the padding at the end.
Known == Fields \cup {Padded}

AtByte(f) == f.op \in {"bytes", "align"}

\* While it writes, the writer holds what the fields encode to, no more than the bits of
\* a byte of it in its accumulator after whole bytes were taken, and none at the end.
WInv ==
    /\ mode \in {"free", "write", "close", "read"}
    /\ fields \in Seq(Known)
    /\ mode = "close" => nbit = 0
    /\ mode \in {"write", "close"} =>
           /\ Holds([buf |-> wbuf, acc |-> wacc, nbit |-> nbit], Encoded(fields))
           /\ fields # <<>> /\ AtByte(fields[Len(fields)]) => nbit < ByteBits

\* A writer that was given these parts is the one that has them.
LEMMA HoldsParts ==
    ASSUME NEW w, NEW bits, NEW b, NEW a, NEW n, Holds(w, bits), b = w.buf, a = w.acc, n = w.nbit
    PROVE  Holds([buf |-> b, acc |-> a, nbit |-> n], bits)
<1>1. PICK s, t, m : w = [buf |-> s, acc |-> t, nbit |-> m]
  BY Zenon DEF Holds
<1>2. b = s /\ a = t /\ n = m
  BY <1>1
<1>3. QED
  BY <1>1, <1>2

\* Nothing to pad.
LEMMA NoPadding ==
    ASSUME NEW w, NEW bits, Holds(w, bits), w.nbit = 0
    PROVE  bits \o Digits(0, Padding(bits)) = bits
<1>1. PICK s, m, top : /\ s \in Seq(Nat) /\ m \in Nat /\ top \in Nat /\ w.nbit = m
                       /\ bits = BitsIn(s) \o Digits(top, m)
  <2>1. PICK s \in Seq(Nat), m \in Nat, f, top \in Nat :
          w = [buf |-> s, acc |-> top * W!Pow(f), nbit |-> m] /\ bits = BitsIn(s) \o Digits(top, m)
    BY Zenon DEF Holds
  <2>2. w.nbit = m
    BY <2>1
  <2>3. QED
    BY <2>1, <2>2, Zenon
<1>2. m = 0
  BY <1>1
<1>3. m < ByteBits
  BY <1>2, WordType
<1>4. Padding(bits) = 0
  BY <1>1, <1>2, <1>3, PaddingIs
<1>5. Digits(0, 0) = <<>>
  <2>1. Digits(0, 0) \in Seq(Nat) /\ Len(Digits(0, 0)) = 0
    BY DigitsSeq
  <2>2. QED
    BY <2>1, EmptySeq
<1>6. bits \o <<>> = bits
  BY HeldBits, ConcatEmptySeq DEF Bits
<1>7. QED
  BY <1>4, <1>5, <1>6, Zenon

LEMMA WInitially == IOInit => WInv
<1> SUFFICES ASSUME IOInit PROVE WInv
  OBVIOUS
<1>1. fields = <<>> /\ wbuf = <<>> /\ wacc = 0 /\ nbit = 0
  BY DEF IOInit
<1>2. PICK z, a, s : /\ z = 0 /\ z \in Nat /\ a = W!WordBits /\ a \in Nat /\ a > 0 /\ z + a = a
                     /\ s = <<>> /\ s \in Seq(Nat)
  <2>1. PICK s : s = <<>> /\ s \in Seq(Nat)
    BY EmptySeq
  <2>2. PICK a \in Nat : a = W!WordBits /\ a > 0
    BY WordType
  <2>3. 0 \in Nat /\ 0 + a = a
    OBVIOUS
  <2>4. QED
    BY <2>1, <2>2, <2>3, Zenon
<1>3. z < W!Pow(z) /\ z = z * W!Pow(a)
  <2>1. W!Pow(a) \in Nat
    BY <1>2, PowType
  <2>2. QED
    BY <1>2, <2>1, PowZero
<1>4. Encoded(fields) = BitsIn(s) \o Digits(z, z)
  <2>1. BitsIn(s) \in Seq(Nat) /\ Len(BitsIn(s)) = 0
    <3>1. 0 * ByteBits = 0
      BY WordType
    <3>2. QED
      BY <1>2, <3>1, BitsInType
  <2>2. BitsIn(s) = <<>>
    BY <2>1, EmptySeq
  <2>3. Digits(0, 0) \in Seq(Nat) /\ Len(Digits(0, 0)) = 0
    BY DigitsSeq
  <2>4. Digits(z, z) = <<>>
    BY <1>2, <2>3, EmptySeq
  <2>5. <<>> \o <<>> = <<>>
    OBVIOUS
  <2>6. Encoded(<<>>) = <<>>
    BY EncodedNone
  <2>7. QED
    BY <1>1, <2>2, <2>4, <2>5, <2>6, Zenon
<1>5. Holds([buf |-> s, acc |-> z * W!Pow(a), nbit |-> z], BitsIn(s) \o Digits(z, z))
  BY <1>2, <1>3 DEF Holds
<1>6. Holds([buf |-> wbuf, acc |-> wacc, nbit |-> nbit], Encoded(fields))
  BY <1>1, <1>2, <1>3, <1>4, <1>5, Zenon
<1>7. fields \in Seq(Known)
  BY <1>1, EmptySeq
<1>8. mode \in {"free", "write", "close", "read"} /\ nbit < ByteBits
  <2>1. 0 < ByteBits
    BY WordType
  <2>2. QED
    BY <1>1, <2>1 DEF IOInit
<1>9. QED
  BY <1>1, <1>6, <1>7, <1>8, Zenon DEF WInv

\* A field is no longer than a word.
LEMMA FieldsFit ==
    ASSUME NEW f, FieldOK(f), f.op \in {"bits", "signed"}
    PROVE  f.v \in Int /\ f.n \in Nat /\ f.n <= Whole /\ f.n <= W!WordBits
<1>1. PICK a, b : a \in Nat /\ a > 0 /\ a = AccBytes /\ b \in Nat /\ b > 0 /\ b = ByteBits
  BY Widths
<1>2. PICK x : x \in Nat /\ x = (a - 1) * b /\ a * b = x + b
  <2>1. (a - 1) * b \in Nat /\ a * b = (a - 1) * b + b
    BY <1>1
  <2>2. QED
    BY <2>1
<1>3. Widest = x + 1 /\ Whole = x + 1 /\ W!WordBits = x + b
  BY <1>1, <1>2 DEF Widest, Whole, W!WordBits
<1>4. f.v \in Int /\ f.n \in 0..Widest
  <2>1. CASE f.op = "bits"
    BY <2>1 DEF FieldOK
  <2>2. CASE f.op = "signed"
    <3>1. f.n \in 1..Widest /\ f.v \in Int
      BY <2>2 DEF FieldOK
    <3>2. QED
      BY <3>1
  <2>3. QED
    BY <2>1, <2>2
<1>5. QED
  BY <1>1, <1>2, <1>3, <1>4

\* A field written comes behind the others.
LEMMA FieldWritten ==
    ASSUME WInv, NEW f \in Fields, WriteField(f)
    PROVE  /\ Holds([buf |-> wbuf', acc |-> wacc', nbit |-> nbit'], Encoded(fields) \o FieldBits(f, Encoded(fields)))
           /\ AtByte(f) => nbit' < ByteBits
<1>1. PICK w, bits : w = [buf |-> wbuf, acc |-> wacc, nbit |-> nbit] /\ bits = Encoded(fields)
  OBVIOUS
<1>2. W!Writer = w
  BY <1>1 DEF W!Writer
<1>3. Holds(w, bits)
  BY <1>1 DEF WInv, WriteField
<1>4. PICK b, a, n : b = wbuf' /\ a = wacc' /\ n = nbit'
  OBVIOUS
<1>5. FieldOK(f)
  BY FieldsAssumption
<1> SUFFICES /\ Holds([buf |-> b, acc |-> a, nbit |-> n], bits \o FieldBits(f, bits))
             /\ AtByte(f) => n < ByteBits
  BY <1>1, <1>4, Zenon
<1>6. ASSUME NEW x, W!Becomes(x), Holds(x, bits \o FieldBits(f, bits)), AtByte(f) => x.nbit < ByteBits
      PROVE  /\ Holds([buf |-> b, acc |-> a, nbit |-> n], bits \o FieldBits(f, bits))
             /\ AtByte(f) => n < ByteBits
  <2>1. b = x.buf /\ a = x.acc /\ n = x.nbit
    BY <1>4, <1>6 DEF W!Becomes
  <2>2. Holds([buf |-> b, acc |-> a, nbit |-> n], bits \o FieldBits(f, bits))
    BY <1>6, <2>1, HoldsParts
  <2>3. QED
    BY <1>6, <2>1, <2>2
<1>7. CASE f.op = "bits"
  <2>1. f.v \in Int /\ f.n \in Nat /\ f.n <= W!WordBits
    BY <1>5, <1>7, FieldsFit
  <2>2. PICK x : x = W!Written(w, f.v, f.n)
    OBVIOUS
  <2>3. W!Becomes(x)
    <3>1. W!WriteBits(f.v, f.n)
      BY <1>7 DEF WriteField
    <3>2. QED
      BY <1>2, <2>2, <3>1 DEF W!WriteBits
  <2>4. Holds(x, bits \o Digits(f.v, f.n))
    BY <1>3, <2>1, <2>2, WriteHolds
  <2>5. FieldBits(f, bits) = Digits(f.v, f.n) /\ ~AtByte(f)
    BY <1>7, Zenon DEF FieldBits, AtByte
  <2>6. QED
    BY <1>6, <2>3, <2>4, <2>5, Zenon
<1>8. CASE f.op = "signed"
  <2>1. f.v \in Int /\ f.n \in Nat /\ f.n <= W!WordBits
    BY <1>5, <1>8, FieldsFit
  <2>2. PICK v : v = f.v % W!Pow(f.n)
    OBVIOUS
  <2>3. v \in Int /\ Digits(v, f.n) = Digits(f.v, f.n)
    <3>1. PICK p : p = W!Pow(f.n) /\ p \in Nat /\ p > 0
      BY <2>1, PowType
    <3>2. f.v % p \in Nat
      BY <2>1, <3>1, Divided
    <3>3. Digits(f.v % W!Pow(f.n), f.n) = Digits(f.v, f.n)
      BY <2>1, DigitsOfCut
    <3>4. QED
      BY <2>2, <3>1, <3>2, <3>3
  <2>4. PICK x : x = W!Written(w, v, f.n)
    OBVIOUS
  <2>5. W!Becomes(x)
    <3>1. W!WriteSignedBits(f.v, f.n)
      BY <1>8 DEF WriteField
    <3>2. QED
      BY <1>2, <2>2, <2>4, <3>1 DEF W!WriteSignedBits
  <2>6. Holds(x, bits \o Digits(v, f.n))
    BY <1>3, <2>1, <2>3, <2>4, WriteHolds
  <2>7. FieldBits(f, bits) = Digits(f.v, f.n) /\ ~AtByte(f)
    BY <1>8, Zenon DEF FieldBits, AtByte
  <2>8. QED
    BY <1>6, <2>3, <2>5, <2>6, <2>7, Zenon
<1>9. CASE f.op = "unary"
  <2>1. f.v \in Nat
    BY <1>5, <1>9 DEF FieldOK
  <2>2. PICK x : x = UnaryWritten(w, f.v)
    OBVIOUS
  <2>3. W!Becomes(x)
    <3>1. W!WriteUnary(f.v)
      BY <1>9 DEF WriteField
    <3>2. QED
      BY <1>2, <2>2, <3>1, Zenon DEF W!WriteUnary, UnaryWritten
  <2>4. Holds(x, bits \o Digits(1, f.v + 1))
    BY <1>3, <2>1, <2>2, UnaryHolds
  <2>5. FieldBits(f, bits) = Digits(1, f.v + 1) /\ ~AtByte(f)
    BY <1>9, Zenon DEF FieldBits, AtByte
  <2>6. QED
    BY <1>6, <2>3, <2>4, <2>5, Zenon
<1>10. CASE f.op = "align"
  <2>1. PICK x : x = Aligned(w)
    OBVIOUS
  <2>2. W!Becomes(x)
    <3>1. W!AlignByte
      BY <1>10 DEF WriteField
    <3>2. QED
      BY <1>2, <2>1, <3>1 DEF W!AlignByte, Aligned
  <2>3. Holds(x, bits \o Digits(0, Padding(bits))) /\ x.nbit = 0
    BY <1>3, <2>1, AlignHolds
  <2>4. x.nbit < ByteBits
    BY <2>3, WordType
  <2>5. FieldBits(f, bits) = Digits(0, Padding(bits))
    BY <1>10, Zenon DEF FieldBits
  <2>6. QED
    BY <1>6, <2>2, <2>3, <2>4, <2>5, Zenon
<1>11. CASE f.op = "bytes"
  <2>1. PICK x : x = W!Flushed(w)
    OBVIOUS
  <2>2. W!Becomes(x)
    <3>1. W!Bytes
      BY <1>11 DEF WriteField
    <3>2. QED
      BY <1>2, <2>1, <3>1 DEF W!Bytes
  <2>3. Holds(x, bits) /\ x.nbit < ByteBits
    BY <1>3, <2>1, FlushHolds
  <2>4. FieldBits(f, bits) = <<>>
    BY <1>11, Zenon DEF FieldBits
  <2>5. bits \o <<>> = bits
    BY <1>3, HeldBits, ConcatEmptySeq DEF Bits
  <2>6. QED
    BY <1>6, <2>2, <2>3, <2>4, <2>5, Zenon
<1>12. QED
  BY <1>5, <1>7, <1>8, <1>9, <1>10, <1>11 DEF FieldOK

LEMMA WStep == WInv /\ [IONext]_allVars => WInv'
<1> SUFFICES ASSUME WInv, [IONext]_allVars PROVE WInv'
  OBVIOUS
<1> USE DEF WInv
<1>1. CASE UNCHANGED ioVars
  BY <1>1 DEF ioVars, writing
<1>2. ASSUME NEW f \in Fields, WriteField(f) PROVE WInv'
  <2>1. /\ Holds([buf |-> wbuf', acc |-> wacc', nbit |-> nbit'], Encoded(fields) \o FieldBits(f, Encoded(fields)))
        /\ AtByte(f) => nbit' < ByteBits
    BY <1>2, FieldWritten
  <2>2. fields' = Append(fields, f) /\ mode' = mode
    BY <1>2 DEF WriteField
  <2>3. PICK S, fs : S = Known /\ fs = fields /\ fs \in Seq(S) /\ f \in S
    <3>1. f \in Known
      BY <1>2 DEF Known
    <3>2. QED
      BY <3>1
  <2>4. Encoded(Append(fs, f)) = Encoded(fs) \o FieldBits(f, Encoded(fs))
    BY <2>3, EncodedAppend
  <2>5. fields' \in Seq(S) /\ fields'[Len(fields')] = f
    BY <2>2, <2>3
  <2>6. Holds([buf |-> wbuf', acc |-> wacc', nbit |-> nbit'], Encoded(fields'))
    BY <2>1, <2>2, <2>3, <2>4, Zenon
  <2>7. mode' = "write" /\ mode' # "close" /\ mode' \in {"free", "write", "close", "read"}
    BY <1>2 DEF WriteField
  <2>8. QED
    BY <2>1, <2>3, <2>5, <2>6, <2>7, Zenon
<1>3. CASE Finish
  <2>1. PICK w, bits : w = [buf |-> wbuf, acc |-> wacc, nbit |-> nbit] /\ bits = Encoded(fields)
    OBVIOUS
  <2>2. Holds(w, bits) /\ w.nbit = nbit
    BY <1>3, <2>1 DEF Finish
  <2>3. PICK x : x = Aligned(w)
    OBVIOUS
  <2>4. W!Becomes(x)
    <3>1. W!AlignByte
      BY <1>3 DEF Finish
    <3>2. W!Writer = w
      BY <2>1 DEF W!Writer
    <3>3. QED
      BY <2>3, <3>1, <3>2 DEF W!AlignByte, Aligned
  <2>5. Holds(x, bits \o Digits(0, Padding(bits))) /\ x.nbit = 0
    BY <2>2, <2>3, AlignHolds
  <2>6. PICK b, a, n : b = wbuf' /\ a = wacc' /\ n = nbit'
    OBVIOUS
  <2>7. Holds([buf |-> b, acc |-> a, nbit |-> n], bits \o Digits(0, Padding(bits))) /\ n = 0
    <3>1. b = x.buf /\ a = x.acc /\ n = x.nbit
      BY <2>4, <2>6 DEF W!Becomes
    <3>2. QED
      BY <2>5, <3>1, HoldsParts
  <2>8. 0 < ByteBits
    BY WordType
  <2>9. CASE nbit = 0
    <3>1. fields' = fields
      BY <1>3, <2>9 DEF Finish
    <3>2. bits \o Digits(0, Padding(bits)) = bits
      BY <2>2, <2>9, NoPadding
    <3>3. Holds([buf |-> wbuf', acc |-> wacc', nbit |-> nbit'], Encoded(fields'))
      BY <2>1, <2>6, <2>7, <3>1, <3>2, Zenon
    <3>4. nbit' < ByteBits /\ nbit' = 0
      BY <2>6, <2>7, <2>8
    <3>5. mode' \in {"free", "write", "close", "read"}
      BY <1>3 DEF Finish
    <3>6. QED
      BY <3>1, <3>3, <3>4, <3>5, Zenon
  <2>10. CASE nbit # 0
    <3>1. fields' = Append(fields, Padded)
      BY <1>3, <2>10 DEF Finish, Padded
    <3>2. PICK S, fs, f : /\ S = Known /\ fs = fields /\ fs \in Seq(S)
                          /\ f = Padded /\ f \in S
      <4>1. Padded \in Known
        BY DEF Known
      <4>2. QED
        BY <4>1
    <3>3. Encoded(Append(fs, f)) = Encoded(fs) \o FieldBits(f, Encoded(fs))
      BY <3>2, EncodedAppend
    <3>4. FieldBits(f, bits) = Digits(0, Padding(bits))
      BY <3>2, Zenon DEF Padded, FieldBits
    <3>5. fields' \in Seq(S)
      BY <3>1, <3>2
    <3>6. Holds([buf |-> wbuf', acc |-> wacc', nbit |-> nbit'], Encoded(fields'))
      BY <2>1, <2>6, <2>7, <3>1, <3>2, <3>3, <3>4, Zenon
    <3>7. nbit' < ByteBits /\ nbit' = 0
      BY <2>6, <2>7, <2>8
    <3>8. mode' \in {"free", "write", "close", "read"}
      BY <1>3 DEF Finish
    <3>9. QED
      BY <3>2, <3>5, <3>6, <3>7, <3>8, Zenon
  <2>11. QED
    BY <2>9, <2>10
<1>4. CASE Bind
  <2>1. mode' = "read" /\ fields' = fields
    BY <1>4 DEF Bind
  <2>2. QED
    BY <2>1
<1>5. CASE ReadField
  <2>1. mode = "read" /\ mode' = mode /\ fields' = fields
    BY <1>5 DEF ReadField
  <2>2. QED
    BY <2>1
<1>6. CASE UNCHANGED allVars
  BY <1>1, <1>6 DEF allVars
<1>7. QED
  BY <1>1, <1>2, <1>3, <1>4, <1>5, <1>6 DEF IONext

\* What the invariant says of the writer.
LEMMA WKeeps == WInv => WriterKeepsBits
<1> SUFFICES ASSUME WInv, mode \in {"write", "close"} PROVE WriterKeepsBits
  BY Zenon DEF WriterKeepsBits
<1>1. PICK w, bits : w = [buf |-> wbuf, acc |-> wacc, nbit |-> nbit] /\ bits = Encoded(fields) /\ Holds(w, bits)
  BY DEF WInv
<1>2. PICK s, m, f, top :
        /\ s \in Seq(Nat) /\ m \in Nat /\ f \in Nat /\ top \in Nat
        /\ f > 0 /\ m + f = W!WordBits /\ top < W!Pow(m)
        /\ w = [buf |-> s, acc |-> top * W!Pow(f), nbit |-> m]
        /\ bits = BitsIn(s) \o Digits(top, m)
  BY <1>1 DEF Holds
<1>3. PICK pf, acc1 : pf = W!Pow(f) /\ pf \in Nat /\ pf > 0 /\ acc1 = top * pf
  <2>1. PICK pf : pf = W!Pow(f) /\ pf \in Nat /\ pf > 0
    BY <1>2, PowType
  <2>2. QED
    BY <2>1
<1>4. wbuf = s /\ wacc = acc1 /\ nbit = m
  BY <1>1, <1>2, <1>3
<1>5. W!WordBits - m = f
  BY <1>2, WordType
<1>6. acc1 \div W!Pow(W!WordBits - m) = top
  <2>1. GoesBack(top, pf, pf)
    BY <1>2, <1>3, ShiftedBack
  <2>2. QED
    BY <1>3, <1>5, <2>1, Zenon DEF GoesBack
<1>7. BitsIn(wbuf) \o Digits(wacc \div W!Pow(W!WordBits - nbit), nbit) = Encoded(fields)
  BY <1>1, <1>2, <1>4, <1>6, Zenon
<1>8. fields # <<>> /\ fields[Len(fields)].op \in {"bytes", "align"} => nbit < ByteBits
  BY DEF WInv, AtByte
<1>9. QED
  BY <1>7, <1>8, Zenon DEF WriterKeepsBits

\* Nothing written is lost, doubled or out of place.
THEOREM BitsAreKept == IOSpec => []WriterKeepsBits
<1>1. IOInit => WInv
  BY WInitially
<1>2. WInv /\ [IONext]_allVars => WInv'
  BY WStep
<1>3. WInv => WriterKeepsBits
  BY WKeeps
<1>4. QED
  BY <1>1, <1>2, <1>3, PTL DEF IOSpec

-----------------------------------------------------------------------------
(* The value of a number's digits.                                          *)

\* The last bit of a number's low bits, and those before it.
LEMMA LastBit ==
    ASSUME NEW u \in Int, NEW q \in Nat, q > 0
    PROVE  2 * ((u \div 2) % q) + (u % 2) = u % (2 * q)
<1>1. PICK two \in Nat : two = 2 /\ two > 0
  OBVIOUS
<1>2. PICK a \in Int, m \in Nat : a = u \div two /\ m = u % two /\ m < two /\ u = a * two + m
  BY <1>1, Divided
<1>3. PICK b \in Int, s \in Nat : s = a % q /\ s < q /\ a = b * q + s
  BY Divided
<1>4. PICK d \in Nat : d = 2 * q /\ d > 0
  OBVIOUS
<1>5. PICK l \in Nat : l = 2 * s + m /\ l < d
  BY <1>1, <1>2, <1>3, <1>4
<1>6. u = b * d + l
  <2>1. (b * q + s) * 2 + m = b * (2 * q) + (2 * s + m)
    OBVIOUS
  <2>2. QED
    BY <1>1, <1>2, <1>3, <1>4, <1>5, <2>1
<1>7. u % d = l
  <2>1. l < d /\ d > 0
    BY <1>4, <1>5
  <2>2. QED
    BY <2>1, <1>6, DividedOnce
<1>8. QED
  BY <1>1, <1>2, <1>3, <1>4, <1>5, <1>7

\* g is what ValueOf's recursive function defines for n bits.
Values(g, bits, n) ==
    g = [k \in 0..n |-> IF k = 0 THEN 0 ELSE 2 * g[k - 1] + bits[k]]

LEMMA ValuesAt ==
    ASSUME NEW g, NEW bits, NEW n, Values(g, bits, n)
    PROVE  \A k \in 0..n : g[k] = IF k = 0 THEN 0 ELSE 2 * g[k - 1] + bits[k]
<1>1. g = [k \in 0..n |-> IF k = 0 THEN 0 ELSE 2 * g[k - 1] + bits[k]]
  BY Zenon DEF Values
<1>2. QED
  BY <1>1, Zenon

\* The upper k of a number's n digits, as a number.
Upper(v, n, k) == (v \div W!Pow(n - k)) % W!Pow(k)

\* One more digit.
LEMMA UpperNext ==
    ASSUME NEW v \in Int, NEW n \in Nat, NEW k \in 1..n
    PROVE  Upper(v, n, k) = 2 * Upper(v, n, k - 1) + Digits(v, n)[k]
<1>1. PICK i \in Nat, j \in Nat : i = n - k /\ j = k - 1 /\ n - (k - 1) = i + 1 /\ k = j + 1
  OBVIOUS
<1>2. PICK p \in Nat, q \in Nat : p = W!Pow(i) /\ p > 0 /\ q = W!Pow(j) /\ q > 0
  BY PowType
<1>3. W!Pow(i + 1) = 2 * p /\ W!Pow(j + 1) = 2 * q
  BY <1>2, PowNext
<1>4. PICK u \in Int : u = v \div p
  BY <1>2, Divided
<1>5. Upper(v, n, k) = u % (2 * q)
  BY <1>1, <1>2, <1>3, <1>4, Zenon DEF Upper
<1>6. v \div (2 * p) = u \div 2
  <2>1. PICK two \in Nat : two = 2 /\ two > 0
    OBVIOUS
  <2>2. (v \div p) \div two = v \div (p * two)
    BY <1>2, <2>1, DivideTwice
  <2>3. p * two = 2 * p
    BY <2>1
  <2>4. QED
    BY <1>4, <2>1, <2>2, <2>3
<1>7. Upper(v, n, k - 1) = (u \div 2) % q
  BY <1>1, <1>2, <1>3, <1>6, Zenon DEF Upper
<1>8. Digits(v, n)[k] = u % 2
  BY <1>1, <1>2, <1>4, DigitsType
<1>9. 2 * ((u \div 2) % q) + (u % 2) = u % (2 * q)
  BY <1>2, LastBit
<1>10. QED
  BY <1>5, <1>7, <1>8, <1>9, Zenon

\* Put together again, the digits are the number cut to them.
LEMMA ValueOfDigits ==
    ASSUME NEW v \in Int, NEW n \in Nat
    PROVE  ValueOf(Digits(v, n)) = v % W!Pow(n)
<1>1. PICK d : d = Digits(v, n) /\ Len(d) = n
  BY DigitsType
<1>2. Upper(v, n, 0) = 0
  <2>1. PICK p \in Nat : p = W!Pow(n) /\ p > 0
    BY PowType
  <2>2. PICK u \in Int : u = v \div p
    BY <2>1, Divided
  <2>3. u % 1 = 0
    <3>1. PICK one \in Nat, z \in Nat : one = 1 /\ z = 0 /\ one > 0 /\ z < one
      OBVIOUS
    <3>2. u = u * one + z
      BY <3>1
    <3>3. u % one = z
      BY <3>1, <3>2, DividedOnce
    <3>4. QED
      BY <3>1, <3>3
  <2>4. n - 0 = n
    OBVIOUS
  <2>5. QED
    BY <2>1, <2>2, <2>3, <2>4, PowZero, Zenon DEF Upper
<1>3. \E g : Values(g, d, n)
  <2>1. PICK g : g = [k \in 0..n |-> Upper(v, n, k)]
    OBVIOUS
  <2>2. ASSUME NEW k \in 0..n
        PROVE  g[k] = IF k = 0 THEN 0 ELSE 2 * g[k - 1] + d[k]
    <3>1. CASE k = 0
      BY <1>2, <2>1, <3>1
    <3>2. CASE k # 0
      <4>1. k \in 1..n /\ k - 1 \in 0..n
        BY <3>2
      <4>2. Upper(v, n, k) = 2 * Upper(v, n, k - 1) + Digits(v, n)[k]
        BY <4>1, UpperNext
      <4>3. g[k] = Upper(v, n, k) /\ g[k - 1] = Upper(v, n, k - 1)
        BY <2>1, <4>1, Zenon
      <4>4. QED
        BY <1>1, <3>2, <4>2, <4>3, Zenon
    <3>3. QED
      BY <3>1, <3>2
  <2>3. g = [k \in 0..n |-> g[k]]
    BY <2>1
  <2>4. g = [k \in 0..n |-> IF k = 0 THEN 0 ELSE 2 * g[k - 1] + d[k]]
    BY <2>2, <2>3, Zenon
  <2>5. QED
    BY <2>4, Zenon DEF Values
<1>4. PICK h : h = CHOOSE g : Values(g, d, n)
  OBVIOUS
<1>5. Values(h, d, n)
  BY <1>3, <1>4, Zenon
<1>6. ValueOf(d) = h[n]
  BY <1>1, <1>4, Zenon DEF ValueOf, Values
<1>7. \A k \in 0..n : h[k] = IF k = 0 THEN 0 ELSE 2 * h[k - 1] + d[k]
  BY <1>5, ValuesAt
<1> DEFINE T == {j \in Nat : j <= n => h[j] = Upper(v, n, j)}
<1>8. 0 \in T
  <2>1. 0 \in 0..n
    OBVIOUS
  <2>2. h[0] = 0
    BY <1>7, <2>1, Zenon
  <2>3. QED
    BY <1>2, <2>2
<1>9. ASSUME NEW j \in Nat, j \in T PROVE j + 1 \in T
  <2> SUFFICES ASSUME j + 1 <= n PROVE h[j + 1] = Upper(v, n, j + 1)
    OBVIOUS
  <2>1. h[j] = Upper(v, n, j)
    BY <1>9
  <2>2. PICK i : i = j + 1 /\ i \in 0..n /\ i # 0 /\ i - 1 = j /\ i \in 1..n
    OBVIOUS
  <2>3. h[i] = 2 * h[j] + d[i]
    BY <1>7, <2>2, Zenon
  <2>4. Upper(v, n, i) = 2 * Upper(v, n, i - 1) + Digits(v, n)[i]
    BY <2>2, UpperNext
  <2>5. QED
    BY <1>1, <2>1, <2>2, <2>3, <2>4, Zenon
<1> HIDE DEF T
<1>10. Nat \subseteq T
  BY <1>8, <1>9, NatInd
<1>11. n \in T /\ n <= n
  BY <1>10
<1>12. h[n] = Upper(v, n, n)
  BY <1>11 DEF T
<1>13. Upper(v, n, n) = v % W!Pow(n)
  <2>1. n - n = 0
    OBVIOUS
  <2>2. v \div 1 = v
    <3>1. PICK one \in Nat, z \in Nat : one = 1 /\ z = 0 /\ one > 0 /\ z < one
      OBVIOUS
    <3>2. v = v * one + z
      BY <3>1
    <3>3. v \div one = v
      BY <3>1, <3>2, DividedOnce
    <3>4. QED
      BY <3>1, <3>3
  <2>3. QED
    BY <2>1, <2>2, PowZero, Zenon DEF Upper
<1>14. QED
  BY <1>1, <1>6, <1>12, <1>13, Zenon

\* A signed number is known by its low bits.
LEMMA SignExtends ==
    ASSUME NEW v \in Int, NEW n \in Nat, n > 0, -W!Pow(n - 1) <= v, v < W!Pow(n - 1)
    PROVE  v = (v % W!Pow(n)) - (IF v % W!Pow(n) >= W!Pow(n - 1) THEN W!Pow(n) ELSE 0)
<1>1. PICK j \in Nat : j = n - 1 /\ n = j + 1
  OBVIOUS
<1>2. PICK h \in Nat, p \in Nat : h = W!Pow(j) /\ h > 0 /\ p = W!Pow(n) /\ p = 2 * h
  <2>1. W!Pow(j + 1) = 2 * W!Pow(j)
    BY PowNext
  <2>2. QED
    BY <1>1, <2>1, PowType
<1>3. -h <= v /\ v < h
  BY <1>1, <1>2
<1>4. v = (v % p) - (IF v % p >= h THEN p ELSE 0)
  <2>1. CASE v >= 0
    <3>1. PICK m \in Nat, z \in Int : m = v /\ z = 0 /\ m < p /\ p > 0
      BY <1>2, <1>3, <2>1
    <3>2. v = z * p + m
      BY <3>1
    <3>3. v % p = m
      BY <3>1, <3>2, DividedOnce
    <3>4. QED
      BY <1>2, <1>3, <3>1, <3>3
  <2>2. CASE v < 0
    <3>1. PICK m \in Nat, z \in Int : m = v + p /\ z = -1 /\ m < p /\ p > 0 /\ m >= h
      BY <1>2, <1>3, <2>2
    <3>2. v = z * p + m
      BY <3>1
    <3>3. v % p = m
      BY <3>1, <3>2, DividedOnce
    <3>4. QED
      BY <1>2, <1>3, <3>1, <3>3
  <2>3. QED
    BY <2>1, <2>2
<1>5. QED
  BY <1>1, <1>2, <1>4, Zenon

-----------------------------------------------------------------------------
(* Where the fields are.                                                    *)

\* A field's bits are the digits of a number: its value, a one behind zeros, or padding.
DigitsOf(f, before, v, n) ==
    /\ v \in Int /\ n \in Nat /\ FieldBits(f, before) = Digits(v, n)
    /\ f.op \in {"bits", "signed"} => v = f.v /\ n = f.n
    /\ f.op = "unary" => v = 1 /\ n = f.v + 1
    /\ f.op = "align" => n = Padding(before)
    /\ f.op = "bytes" => n = 0

LEMMA PaddingType == ASSUME NEW x \in Seq(Nat) PROVE Padding(x) \in Nat
<1>1. PICK b \in Nat, m \in Int : b = ByteBits /\ b > 0 /\ m = -Len(x)
  BY Widths, LenProperties
<1>2. m % b \in Nat
  BY <1>1, Divided
<1>3. QED
  BY <1>1, <1>2 DEF Padding

LEMMA FieldBitsAre ==
    ASSUME NEW f, FieldOK(f), NEW before \in Seq(Nat)
    PROVE  \E v, n : DigitsOf(f, before, v, n)
<1>1. CASE f.op \in {"bits", "signed"}
  <2>1. f.v \in Int /\ f.n \in Nat
    BY <1>1, FieldsFit
  <2>2. FieldBits(f, before) = Digits(f.v, f.n)
    BY <1>1, Zenon DEF FieldBits
  <2>3. f.op # "unary" /\ f.op # "align" /\ f.op # "bytes"
    BY <1>1
  <2>4. DigitsOf(f, before, f.v, f.n)
    BY <2>1, <2>2, <2>3, Zenon DEF DigitsOf
  <2>5. QED
    BY <2>4, Zenon
<1>2. CASE f.op = "unary"
  <2>1. 1 \in Int /\ f.v + 1 \in Nat
    BY <1>2 DEF FieldOK
  <2>2. FieldBits(f, before) = Digits(1, f.v + 1)
    BY <1>2, Zenon DEF FieldBits
  <2>3. f.op \notin {"bits", "signed"} /\ f.op # "align" /\ f.op # "bytes"
    BY <1>2
  <2>4. DigitsOf(f, before, 1, f.v + 1)
    BY <2>1, <2>2, <2>3, Zenon DEF DigitsOf
  <2>5. QED
    BY <2>4, Zenon
<1>3. CASE f.op = "align"
  <2>1. 0 \in Int /\ Padding(before) \in Nat
    BY PaddingType
  <2>2. FieldBits(f, before) = Digits(0, Padding(before))
    BY <1>3, Zenon DEF FieldBits
  <2>3. f.op \notin {"bits", "signed"} /\ f.op # "unary" /\ f.op # "bytes"
    BY <1>3
  <2>4. DigitsOf(f, before, 0, Padding(before))
    BY <2>1, <2>2, <2>3, Zenon DEF DigitsOf
  <2>5. QED
    BY <2>4, Zenon
<1>4. CASE f.op = "bytes"
  <2>1. 0 \in Int /\ 0 \in Nat
    OBVIOUS
  <2>2. Digits(0, 0) = <<>>
    <3>1. Digits(0, 0) \in Seq(Nat) /\ Len(Digits(0, 0)) = 0
      BY DigitsSeq
    <3>2. QED
      BY <3>1, EmptySeq
  <2>3. FieldBits(f, before) = Digits(0, 0)
    BY <1>4, <2>2, Zenon DEF FieldBits
  <2>4. f.op \notin {"bits", "signed"} /\ f.op # "unary" /\ f.op # "align"
    BY <1>4
  <2>5. DigitsOf(f, before, 0, 0)
    BY <2>1, <2>3, <2>4, Zenon DEF DigitsOf
  <2>6. QED
    BY <2>5, Zenon
<1>5. QED
  BY <1>1, <1>2, <1>3, <1>4 DEF FieldOK

\* Every field that is read is one of these.
LEMMA FieldsKnown == ASSUME NEW f \in Known PROVE FieldOK(f)
BY FieldsAssumption DEF FieldOK, Padded, Known

\* A digit is zero or one.
LEMMA DigitIsBit ==
    ASSUME NEW v \in Int, NEW n \in Nat, NEW i \in 1..n
    PROVE  Digits(v, n)[i] \in {0, 1}
<1>1. PICK k \in Nat, p \in Nat : k = n - i /\ p = W!Pow(k) /\ p > 0
  <2>1. n - i \in Nat
    OBVIOUS
  <2>2. QED
    BY <2>1, PowType
<1>2. PICK u \in Int : u = v \div p
  BY <1>1, Divided
<1>3. u % 2 \in {0, 1}
  OBVIOUS
<1>4. QED
  BY <1>1, <1>2, <1>3, DigitsType

\* The encoding of the first k fields.
Upto(fs, k) == Encoded(SubSeq(fs, 1, k))

LEMMA UptoNone == ASSUME NEW S, NEW fs \in Seq(S) PROVE Upto(fs, 0) = <<>>
<1>1. SubSeq(fs, 1, 0) = <<>>
  OBVIOUS
<1>2. QED
  BY <1>1, EncodedNone, Zenon DEF Upto

LEMMA UptoAll == ASSUME NEW S, NEW fs \in Seq(S) PROVE Upto(fs, Len(fs)) = Encoded(fs)
<1>1. SubSeq(fs, 1, Len(fs)) = fs
  OBVIOUS
<1>2. QED
  BY <1>1, Zenon DEF Upto

GoesOnWith(fs, k) == Upto(fs, k + 1) = Upto(fs, k) \o FieldBits(fs[k + 1], Upto(fs, k))

LEMMA UptoNext ==
    ASSUME NEW S, NEW fs \in Seq(S), NEW k \in Nat, k < Len(fs)
    PROVE  GoesOnWith(fs, k)
<1>1. PICK x, f : x = SubSeq(fs, 1, k) /\ f = fs[k + 1]
  OBVIOUS
<1>2. x \in Seq(S) /\ f \in S
  BY <1>1
<1>3. SubSeq(fs, 1, k + 1) = Append(x, f)
  <2>1. PICK y : y = SubSeq(fs, 1, k + 1)
    OBVIOUS
  <2>2. y \in Seq(S) /\ Len(y) = k + 1 /\ \A i \in 1..(k + 1) : y[i] = fs[i]
    BY <2>1
  <2>3. PICK z : z = Append(x, f)
    OBVIOUS
  <2>4. z \in Seq(S) /\ Len(z) = k + 1 /\ \A i \in 1..(k + 1) : z[i] = fs[i]
    BY <1>1, <1>2, <2>3
  <2>5. y = z
    BY <2>2, <2>4, SeqEqual
  <2>6. QED
    BY <2>1, <2>3, <2>5
<1>4. Encoded(Append(x, f)) = Encoded(x) \o FieldBits(f, Encoded(x))
  BY <1>2, EncodedAppend
<1>5. QED
  BY <1>1, <1>3, <1>4, Zenon DEF Upto, GoesOnWith

\* One field more: the bits so far, and the field's.
Places1(fs, k, x, y, v, n) ==
    /\ x = Upto(fs, k) /\ x \in Seq(Nat) /\ y = Upto(fs, k + 1) /\ y \in Seq(Nat)
    /\ DigitsOf(fs[k + 1], x, v, n) /\ Len(y) = Len(x) + n
    /\ \A i \in 1..Len(x) : y[i] = x[i]
    /\ \A i \in 1..n : y[Len(x) + i] = Digits(v, n)[i]

LEMMA UptoType ==
    ASSUME NEW fs \in Seq(Known), NEW k \in 0..Len(fs)
    PROVE  Upto(fs, k) \in Seq(Nat)
<1>1. PICK S, N : S = Known /\ fs \in Seq(S) /\ N = Len(fs) /\ N \in Nat
  OBVIOUS
<1> DEFINE T == {j \in Nat : j <= N => Upto(fs, j) \in Seq(Nat)}
<1>2. 0 \in T
  <2>1. Upto(fs, 0) = <<>> /\ <<>> \in Seq(Nat)
    BY UptoNone
  <2>2. QED
    BY <2>1
<1>3. ASSUME NEW j \in Nat, j \in T PROVE j + 1 \in T
  <2> SUFFICES ASSUME j + 1 <= N PROVE Upto(fs, j + 1) \in Seq(Nat)
    OBVIOUS
  <2>0. j <= N /\ j < N
    BY <1>1
  <2>1. PICK x : x = Upto(fs, j) /\ x \in Seq(Nat)
    BY <1>3, <2>0
  <2>2. GoesOnWith(fs, j)
    <3>1. j < Len(fs)
      BY <1>1, <2>0
    <3>2. QED
      BY <1>1, <3>1, UptoNext
  <2>3. PICK f : f = fs[j + 1] /\ FieldOK(f)
    <3>1. fs[j + 1] \in Known
      BY <1>1
    <3>2. QED
      BY <3>1, FieldsKnown
  <2>4. PICK v, n : DigitsOf(f, x, v, n)
    BY <2>1, <2>3, FieldBitsAre
  <2>5. PICK d : d = Digits(v, n) /\ d \in Seq(Nat) /\ FieldBits(f, x) = d
    <3>1. v \in Int /\ n \in Nat /\ FieldBits(f, x) = Digits(v, n)
      BY <2>4, Zenon DEF DigitsOf
    <3>2. QED
      BY <3>1, DigitsType
  <2>6. x \o d \in Seq(Nat)
    BY <2>1, <2>5
  <2>7. QED
    BY <2>1, <2>2, <2>3, <2>5, <2>6, Zenon DEF GoesOnWith
<1> HIDE DEF T
<1>4. Nat \subseteq T
  BY <1>2, <1>3, NatInd
<1>5. k \in T /\ k <= N
  BY <1>1, <1>4
<1>6. QED
  BY <1>5 DEF T

LEMMA NextPlaced ==
    ASSUME NEW fs \in Seq(Known), NEW k \in Nat, k < Len(fs)
    PROVE  \E x, y, v, n : Places1(fs, k, x, y, v, n)
<1>1. PICK S : S = Known /\ fs \in Seq(S)
  OBVIOUS
<1>2. PICK x, y : x = Upto(fs, k) /\ x \in Seq(Nat) /\ y = Upto(fs, k + 1) /\ y \in Seq(Nat)
  <2>1. k \in 0..Len(fs) /\ k + 1 \in 0..Len(fs)
    OBVIOUS
  <2>2. QED
    BY <2>1, UptoType
<1>3. GoesOnWith(fs, k)
  BY <1>1, UptoNext
<1>4. PICK f : f = fs[k + 1] /\ FieldOK(f)
  <2>1. fs[k + 1] \in Known
    OBVIOUS
  <2>2. QED
    BY <2>1, FieldsKnown
<1>5. PICK v, n : DigitsOf(f, x, v, n)
  BY <1>2, <1>4, FieldBitsAre
<1>6. PICK d : d = Digits(v, n) /\ d \in Seq(Nat) /\ Len(d) = n /\ n \in Nat /\ FieldBits(f, x) = d
  <2>1. v \in Int /\ n \in Nat /\ FieldBits(f, x) = Digits(v, n)
    BY <1>5, Zenon DEF DigitsOf
  <2>2. QED
    BY <2>1, DigitsType
<1>7. y = x \o d
  BY <1>2, <1>3, <1>4, <1>6, Zenon DEF GoesOnWith
<1>8. /\ Len(y) = Len(x) + n
      /\ \A i \in 1..Len(x) : y[i] = x[i]
      /\ \A i \in 1..n : y[Len(x) + i] = d[i]
  <2>1. /\ Len(x \o d) = Len(x) + Len(d)
        /\ \A i \in 1..(Len(x) + Len(d)) : (x \o d)[i] = IF i <= Len(x) THEN x[i] ELSE d[i - Len(x)]
    BY <1>2, <1>6, ConcatProperties
  <2>2. PICK t \in Nat : t = Len(x)
    BY <1>2
  <2>3. Len(y) = t + n /\ \A i \in 1..(t + n) : y[i] = IF i <= t THEN x[i] ELSE d[i - t]
    BY <1>6, <1>7, <2>1, <2>2
  <2>4. \A i \in 1..t : y[i] = x[i]
    BY <1>6, <2>2, <2>3
  <2>5. ASSUME NEW i \in 1..n PROVE y[t + i] = d[i]
    <3>1. n \in Nat /\ t \in Nat /\ i \in Nat /\ 1 <= i /\ i <= n
      BY <1>6, <2>2
    <3>2. t + i \in 1..(t + n) /\ ~(t + i <= t) /\ (t + i) - t = i
      BY <3>1
    <3>3. QED
      BY <2>3, <3>2
  <2>6. QED
    BY <2>2, <2>3, <2>4, <2>5
<1>9. Places1(fs, k, x, y, v, n)
  BY <1>2, <1>4, <1>5, <1>6, <1>8, Zenon DEF Places1
<1>10. QED
  BY <1>9, Zenon

\* x is the beginning of y.
Begins(x, y) == Len(x) <= Len(y) /\ \A i \in 1..Len(x) : y[i] = x[i]

LEMMA UptoBegins ==
    ASSUME NEW fs \in Seq(Known), NEW k \in 0..Len(fs)
    PROVE  Begins(Upto(fs, k), Encoded(fs))
<1>1. PICK N : N = Len(fs) /\ N \in Nat
  OBVIOUS
<1>2. PICK E : E = Encoded(fs) /\ E \in Seq(Nat) /\ Upto(fs, N) = E
  <2>1. Upto(fs, N) = Encoded(fs)
    BY <1>1, UptoAll
  <2>2. N \in 0..Len(fs)
    BY <1>1
  <2>3. Upto(fs, N) \in Seq(Nat)
    BY <2>2, UptoType
  <2>4. QED
    BY <2>1, <2>3
<1> DEFINE T == {j \in Nat : j <= N => Begins(Upto(fs, N - j), E)}
<1>3. 0 \in T
  <2>1. N - 0 = N
    BY <1>1
  <2>2. Begins(E, E)
    BY <1>2 DEF Begins
  <2>3. QED
    BY <1>2, <2>1, <2>2
<1>4. ASSUME NEW j \in Nat, j \in T PROVE j + 1 \in T
  <2> SUFFICES ASSUME j + 1 <= N PROVE Begins(Upto(fs, N - (j + 1)), E)
    OBVIOUS
  <2>0. N \in Nat /\ j \in Nat /\ j + 1 <= N
    BY <1>1
  <2>1. PICK i \in Nat : i = N - (j + 1) /\ i < Len(fs) /\ i + 1 = N - j /\ j <= N
    <3>1. PICK i \in Nat : i = N - (j + 1)
      BY <2>0
    <3>2. i < N /\ i + 1 = N - j /\ j <= N
      BY <2>0, <3>1
    <3>3. QED
      BY <1>1, <3>1, <3>2
  <2>2. PICK x, y, v, n : Places1(fs, i, x, y, v, n)
    BY <2>1, NextPlaced
  <2>3. Begins(y, E)
    <3>1. Begins(Upto(fs, i + 1), E)
      BY <1>4, <2>1
    <3>2. y = Upto(fs, i + 1)
      BY <2>2, Zenon DEF Places1
    <3>3. QED
      BY <3>1, <3>2
  <2>4. /\ x \in Seq(Nat) /\ y \in Seq(Nat) /\ n \in Nat /\ Len(y) = Len(x) + n
        /\ \A a \in 1..Len(x) : y[a] = x[a]
    BY <2>2, Zenon DEF Places1, DigitsOf
  <2>5. Begins(x, E)
    <3>1. PICK t \in Nat, u \in Nat : t = Len(x) /\ u = Len(E)
      BY <1>2, <2>4
    <3>2. t + n <= u /\ \A a \in 1..(t + n) : E[a] = y[a]
      BY <2>3, <2>4, <3>1 DEF Begins
    <3>3. t <= u
      BY <2>4, <3>2
    <3>4. \A a \in 1..t : a \in 1..(t + n)
      BY <2>4
    <3>5. \A a \in 1..t : E[a] = x[a]
      BY <2>4, <3>1, <3>2, <3>4
    <3>6. QED
      BY <3>1, <3>3, <3>5 DEF Begins
  <2>6. x = Upto(fs, i)
    BY <2>2, Zenon DEF Places1
  <2>7. QED
    BY <2>1, <2>5, <2>6
<1> HIDE DEF T
<1>5. Nat \subseteq T
  BY <1>3, <1>4, NatInd
<1>6. PICK j \in Nat : j = N - k /\ j <= N /\ N - j = k
  <2>1. k \in Nat /\ k <= N /\ N \in Nat
    BY <1>1
  <2>2. N - k \in Nat /\ N - k <= N /\ N - (N - k) = k
    BY <2>1
  <2>3. QED
    BY <2>2
<1>7. j \in T
  BY <1>5
<1>8. Begins(Upto(fs, N - j), E)
  BY <1>6, <1>7 DEF T
<1>9. QED
  BY <1>2, <1>6, <1>8

\* A field's place among all bits: its digits follow the t bits of the fields before it.
FieldAt(fs, k, t, v, n) ==
    /\ t \in Nat /\ t = Len(Upto(fs, k)) /\ t + n = Len(Upto(fs, k + 1))
    /\ t + n <= Len(Encoded(fs)) /\ Len(Encoded(fs)) \in Nat
    /\ DigitsOf(fs[k + 1], Upto(fs, k), v, n)
    /\ \A i \in 1..n : Encoded(fs)[t + i] = Digits(v, n)[i]

LEMMA FieldPlaced ==
    ASSUME NEW fs \in Seq(Known), NEW k \in Nat, k < Len(fs)
    PROVE  \E t, v, n : FieldAt(fs, k, t, v, n)
<1>1. PICK x, y, v, n : Places1(fs, k, x, y, v, n)
  BY NextPlaced
<1>2. PICK E : E = Encoded(fs) /\ E \in Seq(Nat)
  <2>1. Upto(fs, Len(fs)) = Encoded(fs)
    BY UptoAll
  <2>2. Len(fs) \in 0..Len(fs)
    OBVIOUS
  <2>3. Upto(fs, Len(fs)) \in Seq(Nat)
    BY <2>2, UptoType
  <2>4. QED
    BY <2>1, <2>3
<1>3. Begins(y, E)
  <2>1. k + 1 \in 0..Len(fs)
    OBVIOUS
  <2>2. Begins(Upto(fs, k + 1), E)
    BY <1>2, <2>1, UptoBegins
  <2>3. QED
    BY <1>1, <2>2, Zenon DEF Places1
<1>4. /\ x = Upto(fs, k) /\ y = Upto(fs, k + 1)
      /\ x \in Seq(Nat) /\ y \in Seq(Nat) /\ n \in Nat /\ Len(y) = Len(x) + n
      /\ \A i \in 1..n : y[Len(x) + i] = Digits(v, n)[i]
      /\ DigitsOf(fs[k + 1], x, v, n)
  BY <1>1, Zenon DEF Places1, DigitsOf
<1>5. PICK t \in Nat : t = Len(x)
  BY <1>4
<1>6. t + n <= Len(E) /\ Len(E) \in Nat /\ \A i \in 1..n : E[t + i] = Digits(v, n)[i]
  <2>1. PICK u \in Nat : u = Len(E)
    BY <1>2
  <2>2. t + n <= u /\ \A a \in 1..(t + n) : E[a] = y[a]
    BY <1>3, <1>4, <1>5, <2>1 DEF Begins
  <2>3. ASSUME NEW i \in 1..n PROVE E[t + i] = Digits(v, n)[i]
    <3>1. t + i \in 1..(t + n)
      BY <1>4
    <3>2. QED
      BY <1>4, <1>5, <2>2, <3>1
  <2>4. QED
    BY <2>1, <2>2, <2>3
<1>7. FieldAt(fs, k, t, v, n)
  BY <1>2, <1>4, <1>5, <1>6, Zenon DEF FieldAt
<1>8. QED
  BY <1>7, Zenon

\* The last digit of a one is it, and the others are zeros.
LEMMA OneBehindZeros ==
    ASSUME NEW q \in Nat
    PROVE  /\ \A i \in 1..q : Digits(1, q + 1)[i] = 0
           /\ Digits(1, q + 1)[q + 1] = 1
<1>1. PICK n \in Nat, one \in Int : n = q + 1 /\ one = 1
  OBVIOUS
<1>2. ASSUME NEW i \in 1..q PROVE Digits(one, n)[i] = 0
  <2>1. PICK j \in Nat : j = q - i /\ n - i = j + 1 /\ i \in 1..n
    BY <1>1
  <2>2. PICK p \in Nat : p = W!Pow(j) /\ p > 0 /\ W!Pow(j + 1) = 2 * p
    BY PowType, PowNext
  <2>3. PICK d \in Nat, z \in Int, m \in Nat : d = 2 * p /\ z = 0 /\ m = 1 /\ m < d /\ d > 0
    BY <2>2
  <2>4. one = z * d + m
    BY <1>1, <2>3
  <2>5. one \div d = z
    BY <2>3, <2>4, DividedOnce
  <2>6. Digits(one, n)[i] = (one \div d) % 2
    BY <2>1, <2>2, <2>3, DigitsType
  <2>7. z % 2 = 0
    BY <2>3
  <2>8. QED
    BY <2>5, <2>6, <2>7
<1>3. Digits(one, n)[n] = 1
  <2>1. n - n = 0 /\ n \in 1..n
    BY <1>1
  <2>2. Digits(one, n)[n] = (one \div 1) % 2
    <3>1. Digits(one, n)[n] = (one \div W!Pow(n - n)) % 2
      BY <2>1, DigitsType
    <3>2. QED
      BY <2>1, <3>1, PowZero, Zenon
  <2>3. (1 \div 1) % 2 = 1
    OBVIOUS
  <2>4. QED
    BY <1>1, <2>2, <2>3
<1>4. QED
  BY <1>1, <1>2, <1>3

-----------------------------------------------------------------------------
(* Reading the fields back.                                                 *)

\* The source's bits are the fields', as the reader was bound to what the writer held.
Bound ==
    /\ src.bytes * ByteBits = Len(Encoded(fields))
    /\ \A i \in 1..Len(Encoded(fields)) : i \in src.ones <=> Encoded(fields)[i] = 1

\* What a running call is after: the field it was made for, and so far it has met zeros
\* only if that is a run of them.
Running ==
    /\ next > 0 /\ from = Len(Upto(fields, next - 1)) /\ from <= Len(taken)
    /\ call.op = "bits" => fields[next].op \in {"bits", "signed"} /\ asked = fields[next].n
    /\ call.op # "bits" =>
           /\ call.op = "unary" /\ fields[next].op = "unary"
           /\ \A i \in (from + 1)..Len(taken) : i \notin src.ones

\* Between calls the bits consumed are those of the fields asked for.
Rested ==
    /\ result = "ok" /\ Len(taken) = Len(Upto(fields, next))
    /\ next > 0 /\ fields[next].op \in {"bits", "signed", "unary"} =>
           from = Len(Upto(fields, next - 1))

RInv ==
    /\ next \in 0..Len(fields)
    /\ mode # "read" => next = 0
    /\ mode = "read" => Bound /\ (pc = "idle" => Rested) /\ (pc # "idle" => Running)

All == IInv /\ WInv /\ RInv

\* The bits of the field at t in the source.
Aimed(f, t, v, n) ==
    /\ t \in Nat /\ v \in Int /\ n \in Nat /\ FieldOK(f)
    /\ f.op \in {"bits", "signed"} => v = f.v /\ n = f.n
    /\ f.op = "unary" => v = 1 /\ n = f.v + 1
    /\ f.op = "bytes" => n = 0
    /\ src.bytes * ByteBits \in Nat /\ t + n <= src.bytes * ByteBits
    /\ \A i \in 1..n : t + i \in src.ones <=> Digits(v, n)[i] = 1

LEMMA Aims ==
    ASSUME WInv, Bound, NEW k \in Nat, k < Len(fields)
    PROVE  \E t, v, n : /\ Aimed(fields[k + 1], t, v, n)
                        /\ t = Len(Upto(fields, k)) /\ t + n = Len(Upto(fields, k + 1))
                        /\ DigitsOf(fields[k + 1], Upto(fields, k), v, n)
<1>1. PICK fs, f, E : fs = fields /\ fs \in Seq(Known) /\ f = fs[k + 1] /\ E = Encoded(fs)
  BY DEF WInv
<1>2. PICK t, v, n : FieldAt(fs, k, t, v, n)
  BY <1>1, FieldPlaced
<1>3. /\ t \in Nat /\ t = Len(Upto(fs, k)) /\ t + n = Len(Upto(fs, k + 1))
      /\ t + n <= Len(E) /\ Len(E) \in Nat
      /\ DigitsOf(f, Upto(fs, k), v, n)
      /\ \A i \in 1..n : E[t + i] = Digits(v, n)[i]
  BY <1>1, <1>2, Zenon DEF FieldAt
<1>4. /\ v \in Int /\ n \in Nat
      /\ f.op \in {"bits", "signed"} => v = f.v /\ n = f.n
      /\ f.op = "unary" => v = 1 /\ n = f.v + 1
      /\ f.op = "bytes" => n = 0
  BY <1>3, Zenon DEF DigitsOf
<1>5. FieldOK(f)
  <2>1. f \in Known
    BY <1>1
  <2>2. QED
    BY <2>1, FieldsKnown
<1>6. PICK u \in Nat : u = Len(E) /\ src.bytes * ByteBits = u /\ \A i \in 1..u : i \in src.ones <=> E[i] = 1
  BY <1>1, <1>3 DEF Bound
<1>7. ASSUME NEW i \in 1..n PROVE t + i \in src.ones <=> Digits(v, n)[i] = 1
  <2>1. t + i \in 1..u
    BY <1>3, <1>4, <1>6
  <2>2. E[t + i] = Digits(v, n)[i]
    BY <1>3
  <2>3. QED
    BY <1>6, <2>1, <2>2
<1>8. Aimed(f, t, v, n)
  BY <1>3, <1>4, <1>5, <1>6, <1>7, Zenon DEF Aimed
<1>9. QED
  BY <1>1, <1>3, <1>8, Zenon

\* A field of zeros and a one has its one at its end.
LEMMA OneAtEnd ==
    ASSUME NEW f, NEW t, NEW v, NEW n, Aimed(f, t, v, n), f.op = "unary"
    PROVE  /\ t \in Nat /\ n \in Nat /\ n > 0
           /\ \A i \in 1..(n - 1) : t + i \notin src.ones
           /\ t + n \in src.ones
<1>1. PICK q \in Nat : q = f.v /\ v = 1 /\ n = q + 1 /\ t \in Nat
  <2>1. f.v \in Nat /\ v = 1 /\ n = f.v + 1 /\ t \in Nat
    BY DEF Aimed, FieldOK
  <2>2. QED
    BY <2>1
<1>2. PICK d : d = Digits(v, n) /\ d[n] = 1 /\ \A i \in 1..q : d[i] = 0
  BY <1>1, OneBehindZeros
<1>3. \A i \in 1..n : t + i \in src.ones <=> d[i] = 1
  BY <1>2, Zenon DEF Aimed
<1>4. n \in 1..n /\ n - 1 = q /\ \A i \in 1..q : i \in 1..n
  BY <1>1
<1>5. t + n \in src.ones
  BY <1>2, <1>3, <1>4
<1>6. ASSUME NEW i \in 1..q PROVE t + i \notin src.ones
  <2>1. d[i] # 1
    BY <1>2
  <2>2. QED
    BY <1>3, <1>4, <2>1
<1>7. QED
  BY <1>1, <1>4, <1>5, <1>6

\* The zeros at the start of the accumulator, and the one behind them if it has one.
LEMMA ZerosAre ==
    ASSUME Typed
    PROVE  /\ LeadingZeros = Len(acc) => \A i \in 1..Len(acc) : acc[i] \notin src.ones
           /\ LeadingZeros # Len(acc) =>
                  /\ LeadingZeros + 1 \in 1..Len(acc) /\ acc[LeadingZeros + 1] \in src.ones
                  /\ \A i \in 1..LeadingZeros : acc[i] \notin src.ones
<1>1. PICK a \in Nat : a = Len(acc) /\ DOMAIN acc = 1..a
  BY LenProperties DEF Typed
<1>2. PICK ones : ones = {i \in DOMAIN acc : acc[i] \in src.ones}
  OBVIOUS
<1>3. ones \subseteq 1..a /\ \A i \in 1..a : i \in ones <=> acc[i] \in src.ones
  BY <1>1, <1>2
<1>4. CASE ones = {}
  <2>1. LeadingZeros = a
    BY <1>1, <1>2, <1>4 DEF LeadingZeros
  <2>2. \A i \in 1..a : acc[i] \notin src.ones
    BY <1>3, <1>4
  <2>3. QED
    BY <1>1, <2>1, <2>2
<1>5. CASE ones # {}
  <2>1. PICK m \in ones : \A y \in ones : m <= y
    <3>1. ones \in SUBSET Nat
      BY <1>3
    <3>2. PICK o \in ones : TRUE
      BY <1>5
    <3>3. QED
      BY <3>1, <3>2, NatMin
  <2>2. Min(ones) \in ones /\ \A y \in ones : Min(ones) <= y
    <3>1. \E x \in ones : \A y \in ones : x <= y
      BY <2>1
    <3>2. QED
      BY <3>1 DEF Min
  <2>3. PICK f \in 1..a : f = Min(ones) /\ f \in ones /\ \A y \in ones : f <= y
    BY <2>2, <1>3
  <2>4. LeadingZeros = f - 1
    BY <2>3, <1>2, <1>5 DEF LeadingZeros
  <2>5. PICK z \in Nat : z = LeadingZeros /\ z + 1 = f /\ z # a
    BY <2>3, <2>4
  <2>6. acc[f] \in src.ones
    BY <2>3, <1>3
  <2>7. ASSUME NEW i \in 1..z PROVE acc[i] \notin src.ones
    <3>1. i \in 1..a /\ ~(f <= i)
      BY <2>3, <2>5
    <3>2. i \notin ones
      BY <2>3, <3>1
    <3>3. QED
      BY <1>3, <3>1, <3>2
  <2>8. QED
    BY <1>1, <2>3, <2>5, <2>6, <2>7
<1>6. QED
  BY <1>4, <1>5

\* ReadUnary's loop meets no one bit before its field's, and then that one.
LEMMA ScanFinds ==
    ASSUME IInv, Scan, NEW f, NEW t, NEW v, NEW n, Aimed(f, t, v, n), f.op = "unary",
           t <= Len(taken), \A i \in (t + 1)..Len(taken) : i \notin src.ones
    PROVE  /\ Len(taken') \in Nat /\ t <= Len(taken')
           /\ \/ /\ pc' = "idle" /\ result' = "ok" /\ Len(taken') = t + n
              \/ /\ pc' # "idle" /\ call'.op = "unary"
                 /\ \A i \in (t + 1)..Len(taken') : i \notin src.ones
<1>1. PICK g \in Nat, a \in Nat : g = Len(taken) /\ a = Len(acc) /\ acc = Run(g, a)
  BY Places DEF IInv
<1>2. \A i \in 1..a : acc[i] = g + i
  <2>1. \A i \in 1..a : Run(g, a)[i] = g + i
    BY RunType
  <2>2. QED
    BY <1>1, <2>1, Zenon
<1>3. PICK o \in Nat : /\ o = t + n /\ o \in src.ones /\ o > t /\ t \in Nat
                       /\ \A i \in Nat : t < i /\ i < o => i \notin src.ones
  <2>1. /\ t \in Nat /\ n \in Nat /\ n > 0
        /\ \A i \in 1..(n - 1) : t + i \notin src.ones
        /\ t + n \in src.ones
    BY OneAtEnd
  <2>2. ASSUME NEW i \in Nat, t < i, i < t + n PROVE i \notin src.ones
    <3>1. PICK j \in 1..(n - 1) : i = t + j
      <4>1. i - t \in 1..(n - 1) /\ i = t + (i - t)
        BY <2>1, <2>2
      <4>2. QED
        BY <4>1
    <3>2. QED
      BY <2>1, <3>1
  <2>3. t + n \in Nat /\ t + n > t
    BY <2>1
  <2>4. QED
    BY <2>1, <2>2, <2>3
<1>4. t <= g /\ g < o
  <2>1. t <= g /\ \A i \in (t + 1)..g : i \notin src.ones
    BY <1>1
  <2>2. CASE g >= o
    <3>1. o \in (t + 1)..g
      BY <1>3, <2>2
    <3>2. QED
      BY <1>3, <2>1, <3>1
  <2>3. QED
    BY <1>3, <2>1, <2>2
<1>5. taken \in Seq(Nat) /\ acc \in Seq(Nat)
  BY DEF IInv, Typed
<1>6. ASSUME NEW m \in 0..a, Consume(m)
      PROVE  Len(taken') = g + m
  <2>1. taken' = taken \o SubSeq(acc, 1, m)
    BY <1>6 DEF Consume, Take
  <2>2. SubSeq(acc, 1, m) \in Seq(Nat) /\ Len(SubSeq(acc, 1, m)) = m
    BY <1>1, <1>5
  <2>3. QED
    BY <1>1, <1>5, <2>1, <2>2
<1>7. CASE LeadingZeros = Len(acc)
  <2>1. Consume(a) /\ StartFill(0) /\ call' = [op |-> "unary", n |-> 0]
    BY <1>1, <1>7 DEF Scan
  <2>2. pc' # "idle" /\ call'.op = "unary"
    BY <2>1 DEF StartFill
  <2>3. Len(taken') = g + a
    BY <1>6, <2>1
  <2>4. \A i \in 1..a : g + i \notin src.ones
    BY <1>1, <1>2, <1>7, ZerosAre DEF IInv
  <2>5. ASSUME NEW i \in (t + 1)..(g + a) PROVE i \notin src.ones
    <3>1. CASE i <= g
      <4>1. i \in (t + 1)..g
        BY <1>3, <3>1
      <4>2. QED
        BY <1>1, <4>1
    <3>2. CASE i > g
      <4>1. i - g \in 1..a /\ g + (i - g) = i
        BY <1>3, <3>2
      <4>2. QED
        BY <2>4, <4>1
    <3>3. QED
      BY <1>3, <3>1, <3>2
  <2>6. g + a \in Nat /\ t <= g + a
    BY <1>3, <1>4
  <2>7. QED
    BY <2>2, <2>3, <2>5, <2>6
<1>8. CASE LeadingZeros # Len(acc)
  <2>1. Consume(LeadingZeros + 1) /\ Return("ok")
    BY <1>8 DEF Scan
  <2>2. PICK m \in 1..a : /\ m = LeadingZeros + 1 /\ acc[m] \in src.ones
                          /\ \A i \in 1..(m - 1) : acc[i] \notin src.ones
    <3>1. /\ LeadingZeros + 1 \in 1..Len(acc) /\ acc[LeadingZeros + 1] \in src.ones
          /\ \A i \in 1..LeadingZeros : acc[i] \notin src.ones
      BY <1>8, ZerosAre DEF IInv
    <3>2. LeadingZeros \in Nat
      BY ZerosFit DEF IInv
    <3>3. (LeadingZeros + 1) - 1 = LeadingZeros
      BY <3>2
    <3>4. QED
      BY <1>1, <3>1, <3>3
  <2>3. g + m \in src.ones /\ \A i \in 1..(m - 1) : g + i \notin src.ones
    <3>1. \A i \in 1..(m - 1) : i \in 1..a
      OBVIOUS
    <3>2. QED
      BY <1>2, <2>2, <3>1
  <2>4. g + m = o
    <3>1. ~(g + m < o)
      <4>1. g + m \in Nat /\ t < g + m
        BY <1>3, <1>4
      <4>2. QED
        BY <1>3, <2>3, <4>1
    <3>2. ~(g + m > o)
      <4>1. SUFFICES ASSUME g + m > o PROVE FALSE
        OBVIOUS
      <4>2. o - g \in 1..(m - 1) /\ g + (o - g) = o
        BY <1>3, <1>4, <4>1
      <4>3. QED
        BY <1>3, <2>3, <4>2
    <3>3. QED
      BY <1>3, <3>1, <3>2
  <2>5. Len(taken') = g + m
    <3>1. m \in 0..a /\ Consume(m)
      BY <2>1, <2>2
    <3>2. QED
      BY <1>6, <3>1
  <2>6. pc' = "idle" /\ result' = "ok"
    BY <2>1 DEF Return
  <2>7. QED
    BY <1>3, <2>4, <2>5, <2>6
<1>9. QED
  BY <1>7, <1>8

\* What the fields written decide, the reader's steps leave alone.
LEMMA StillAimed ==
    ASSUME NEW f, NEW t, NEW v, NEW n, Aimed(f, t, v, n)
    PROVE  t \in Nat /\ n \in Nat /\ t + n \in Nat
BY DEF Aimed

\* A fetch goes on.
LEMMA GoesOnRunning ==
    ASSUME RInv, mode = "read", pc # "idle", pc' # "idle",
           UNCHANGED <<src, ioVars, call, from, asked, taken>>
    PROVE  RInv'
<1>1. /\ src' = src /\ mode' = mode /\ fields' = fields /\ next' = next
      /\ call' = call /\ from' = from /\ asked' = asked /\ taken' = taken
  BY DEF ioVars
<1>2. Bound /\ Running /\ next \in 0..Len(fields)
  BY DEF RInv
<1>3. Bound'
  BY <1>1, <1>2 DEF Bound
<1>4. Running'
  BY <1>1, <1>2 DEF Running, Upto
<1>5. QED
  BY <1>1, <1>2, <1>3, <1>4 DEF RInv

\* A call returns what it was made for.
LEMMA ComesToRest ==
    ASSUME RInv, mode = "read", src' = src, mode' = mode, fields' = fields,
           next' \in 0..Len(fields), pc' = "idle", result' = "ok",
           Len(taken') = Len(Upto(fields, next')),
           from' = Len(Upto(fields, next' - 1))
    PROVE  RInv'
<1>1. Bound /\ next \in 0..Len(fields)
  BY DEF RInv
<1>2. Bound'
  BY <1>1 DEF Bound
<1>3. Rested'
  BY DEF Rested, Upto
<1>4. QED
  BY <1>1, <1>2, <1>3 DEF RInv

\* The call that runs is after a field.
LEMMA CallAims ==
    ASSUME All, mode = "read", pc # "idle"
    PROVE  \E f, t, v, n :
              /\ Aimed(f, t, v, n) /\ f = fields[next] /\ t = from /\ t <= Len(taken)
              /\ t + n = Len(Upto(fields, next)) /\ next \in 1..Len(fields)
<1>1. WInv /\ Bound /\ Running /\ next \in 0..Len(fields)
  BY DEF All, RInv
<1>2. PICK k \in Nat : k = next - 1 /\ k + 1 = next /\ k < Len(fields) /\ next \in 1..Len(fields)
  <2>1. Len(fields) \in Nat
    BY <1>1 DEF WInv
  <2>2. next > 0
    BY <1>1 DEF Running
  <2>3. next - 1 \in Nat /\ (next - 1) + 1 = next /\ next - 1 < Len(fields)
    BY <1>1, <2>1, <2>2
  <2>4. QED
    BY <1>1, <2>2, <2>3
<1>3. PICK t, v, n : /\ Aimed(fields[k + 1], t, v, n)
                     /\ t = Len(Upto(fields, k)) /\ t + n = Len(Upto(fields, k + 1))
  BY <1>1, <1>2, Aims
<1>4. t = from /\ t <= Len(taken)
  BY <1>1, <1>2, <1>3 DEF Running
<1>5. QED
  BY <1>2, <1>3, <1>4, Zenon

\* What is consumed goes behind what was.
LEMMA TakesOn ==
    ASSUME IInv, NEW m \in 0..Len(acc), Consume(m)
    PROVE  Len(taken) \in Nat /\ Len(taken') = Len(taken) + m
<1>1. taken' = taken \o SubSeq(acc, 1, m)
  BY DEF Consume, Take
<1>2. taken \in Seq(Nat) /\ acc \in Seq(Nat)
  BY DEF IInv, Typed
<1>3. SubSeq(acc, 1, m) \in Seq(Nat) /\ Len(SubSeq(acc, 1, m)) = m
  BY <1>2
<1>4. QED
  BY <1>1, <1>2, <1>3

\* readBitsSlow has the field's bits after fill.
LEMMA BitsArrive ==
    ASSUME All, mode = "read", ReadBitsFilled, UNCHANGED ioVars
    PROVE  RInv'
<1>1. /\ pc = "loop" /\ (~Room \/ (r = Len(buf) /\ err # "none")) /\ call.op = "bits"
      /\ src' = src /\ err' = err /\ from' = from /\ asked' = asked
      /\ mode' = mode /\ fields' = fields /\ next' = next
  BY DEF ReadBitsFilled, Filled, ioVars, source
<1>2. PICK f, t, v, n : /\ Aimed(f, t, v, n) /\ f = fields[next] /\ t = from /\ t <= Len(taken)
                        /\ t + n = Len(Upto(fields, next)) /\ next \in 1..Len(fields)
  BY <1>1, CallAims
<1>3. f.op \in {"bits", "signed"} /\ asked = f.n /\ from = Len(Upto(fields, next - 1))
  BY <1>1, <1>2 DEF All, RInv, Running
<1>4. n = f.n /\ n \in Nat /\ n <= Whole /\ t \in Nat /\ src.bytes * ByteBits \in Nat
      /\ t + n <= src.bytes * ByteBits
  <2>1. FieldOK(f) /\ n = f.n /\ t \in Nat
        /\ src.bytes * ByteBits \in Nat /\ t + n <= src.bytes * ByteBits
    BY <1>2, <1>3, Zenon DEF Aimed
  <2>2. f.n \in Nat /\ f.n <= Whole
    BY <1>3, <2>1, FieldsFit
  <2>3. QED
    BY <2>1, <2>2
<1>5. call.n = n /\ from = Len(taken)
  BY <1>1, <1>3, <1>4 DEF All, IInv, Fetching
<1>6. Len(acc) \in Nat /\ Whole \in Nat
  BY Widths, LenProperties DEF All, IInv, Typed
<1>7. CASE call.n <= Len(acc) /\ Consume(call.n) /\ Return("ok")
  <2>1. n \in 0..Len(acc) /\ Consume(n) /\ pc' = "idle" /\ result' = "ok"
    BY <1>4, <1>5, <1>6, <1>7 DEF Return
  <2>2. Len(taken') = t + n
    BY <1>2, <1>5, <2>1, TakesOn DEF All
  <2>3. next' \in 0..Len(fields) /\ Len(taken') = Len(Upto(fields, next'))
        /\ from' = Len(Upto(fields, next' - 1))
    BY <1>1, <1>2, <1>3, <2>2
  <2>4. QED
    BY <1>1, <2>1, <2>3, ComesToRest DEF All
<1>8. CASE call.n > Len(acc) /\ err = "none"
  <2>1. ~Room
    BY <1>1, <1>8
  <2>2. PICK x \in Nat : x = (AccBytes - 1) * ByteBits
    <3>1. AccBytes - 1 \in Nat /\ ByteBits \in Nat
      BY Widths
    <3>2. (AccBytes - 1) * ByteBits \in Nat
      BY <3>1
    <3>3. QED
      BY <3>2
  <2>3. Whole = x + 1 /\ (Room <=> Len(acc) <= x)
    BY <2>2 DEF Whole, Room
  <2>4. FALSE
    BY <1>4, <1>5, <1>6, <1>8, <2>1, <2>3
  <2>5. QED
    BY <2>4
<1>9. CASE call.n > Len(acc) /\ err # "none" /\ Return(EndError)
  <2>1. pc' = "idle" /\ result' = EndError
    BY <1>9 DEF Return
  <2>2. result' # "ok"
    <3>1. err \in {"none", "eof", "io", "noprogress"}
      BY DEF All, IInv, Typed
    <3>2. QED
      BY <3>1, <2>1 DEF EndError
  <2>3. IInv'
    BY ReadBitsFilledKeeps DEF All
  <2>4. asked' = n /\ n \in 1..Whole
    BY <1>1, <1>3, <1>4, <1>5, <1>6, <1>9
  <2>5. n > src.bytes * ByteBits - t
    <3>1. asked' > BitsLeft'
      BY <2>1, <2>2, <2>3, <2>4 DEF IInv, Answered
    <3>2. BitsLeft' = src.bytes * ByteBits - t
      BY <1>1, <1>2 DEF BitsLeft
    <3>3. QED
      BY <2>4, <3>1, <3>2
  <2>6. FALSE
    BY <1>4, <2>5
  <2>7. QED
    BY <2>6
<1>10. QED
  BY <1>7, <1>8, <1>9 DEF ReadBitsFilled

\* ReadUnary's loop, with the field's one bit ahead.
LEMMA UnaryScanned ==
    ASSUME All, mode = "read", Scan, src' = src, mode' = mode, fields' = fields,
           next' \in 1..Len(fields),
           NEW f, NEW t, NEW v, NEW n, Aimed(f, t, v, n), f.op = "unary", f = fields[next'],
           t <= Len(taken), \A i \in (t + 1)..Len(taken) : i \notin src.ones,
           from' = t, t = Len(Upto(fields, next' - 1)), t + n = Len(Upto(fields, next'))
    PROVE  RInv'
<1>1. /\ Len(taken') \in Nat /\ t <= Len(taken')
      /\ \/ /\ pc' = "idle" /\ result' = "ok" /\ Len(taken') = t + n
         \/ /\ pc' # "idle" /\ call'.op = "unary"
            /\ \A i \in (t + 1)..Len(taken') : i \notin src.ones
  BY ScanFinds DEF All
<1>2. next' \in 0..Len(fields) /\ next' > 0
  BY DEF All, WInv
<1>3. CASE pc' = "idle" /\ result' = "ok" /\ Len(taken') = t + n
  <2>1. Len(taken') = Len(Upto(fields, next')) /\ from' = Len(Upto(fields, next' - 1))
    BY <1>3
  <2>2. QED
    BY <1>2, <1>3, <2>1, ComesToRest DEF All
<1>4. CASE /\ pc' # "idle" /\ call'.op = "unary"
           /\ \A i \in (t + 1)..Len(taken') : i \notin src.ones
  <2>1. Bound'
    BY DEF All, RInv, Bound
  <2>2. Running'
    BY <1>1, <1>2, <1>4 DEF Running, Upto
  <2>3. QED
    BY <1>2, <1>4, <2>1, <2>2 DEF RInv
<1>5. QED
  BY <1>1, <1>3, <1>4

\* ReadUnary after fill: there are bits, since the field's last one is still to come.
LEMMA UnaryArrives ==
    ASSUME All, mode = "read", ReadUnaryFilled, UNCHANGED ioVars
    PROVE  RInv'
<1>1. /\ pc = "loop" /\ (~Room \/ (r = Len(buf) /\ err # "none")) /\ call.op = "unary"
      /\ src' = src /\ from' = from
      /\ mode' = mode /\ fields' = fields /\ next' = next
  BY DEF ReadUnaryFilled, Filled, ioVars, source
<1>2. PICK f, t, v, n : /\ Aimed(f, t, v, n) /\ f = fields[next] /\ t = from /\ t <= Len(taken)
                        /\ t + n = Len(Upto(fields, next)) /\ next \in 1..Len(fields)
  BY <1>1, CallAims
<1>3. /\ f.op = "unary" /\ from = Len(Upto(fields, next - 1))
      /\ \A i \in (from + 1)..Len(taken) : i \notin src.ones
  BY <1>1, <1>2 DEF All, RInv, Running
<1>4. acc # <<>>
  <2> SUFFICES ASSUME acc = <<>> PROVE FALSE
    OBVIOUS
  <2>1. PICK w, g, a \in Nat : /\ given = (loaded - r) + w /\ w = Len(buf) /\ g = Len(taken)
                               /\ a = Len(acc) /\ g + a = loaded * ByteBits /\ loaded \in Nat /\ r \in Nat
    BY Places DEF All, IInv, Typed
  <2>2. Len(acc) = 0
    BY EmptySeq
  <2>3. Room
    <3>1. AccBytes - 1 \in Nat /\ ByteBits \in Nat
      BY Widths
    <3>2. (AccBytes - 1) * ByteBits \in Nat
      BY <3>1
    <3>3. QED
      BY <2>2, <3>2 DEF Room
  <2>4. r = Len(buf) /\ given = src.bytes
    BY <1>1, <2>3 DEF All, IInv, Fetching
  <2>5. loaded = src.bytes /\ g = src.bytes * ByteBits
    <3>1. loaded = src.bytes
      BY <2>1, <2>4
    <3>2. a = 0
      BY <2>1, <2>2
    <3>3. QED
      BY <2>1, <3>1, <3>2
  <2>6. t + n <= src.bytes * ByteBits
    BY <1>2, Zenon DEF Aimed
  <2>7. t \in Nat /\ n \in Nat /\ n > 0 /\ t + n \in src.ones
    BY <1>2, <1>3, OneAtEnd
  <2>8. t + n \in (t + 1)..g
    BY <2>1, <2>5, <2>6, <2>7
  <2>9. QED
    BY <1>2, <1>3, <2>1, <2>7, <2>8
<1>5. Scan
  BY <1>4 DEF ReadUnaryFilled
<1>6. /\ next' \in 1..Len(fields) /\ f = fields[next'] /\ from' = t
      /\ t = Len(Upto(fields, next' - 1)) /\ t + n = Len(Upto(fields, next'))
      /\ \A i \in (t + 1)..Len(taken) : i \notin src.ones
  BY <1>1, <1>2, <1>3
<1>7. QED
  BY <1>1, <1>2, <1>3, <1>5, <1>6, UnaryScanned

\* A step of a running call.
LEMMA StepReads == ASSUME All, Step, UNCHANGED ioVars PROVE RInv'
<1>1. mode' = mode /\ next' = next /\ fields' = fields
  BY DEF ioVars
<1>2. CASE mode # "read"
  BY <1>1, <1>2 DEF All, RInv
<1>3. CASE mode = "read"
  <2>1. CASE LoadWord
    <3>1. pc # "idle" /\ pc' # "idle" /\ UNCHANGED <<src, call, from, asked, taken>>
      BY <2>1 DEF LoadWord, source
    <3>2. QED
      BY <1>3, <3>1, GoesOnRunning DEF All
  <2>2. CASE LoadByte
    <3>1. pc # "idle" /\ pc' # "idle" /\ UNCHANGED <<src, call, from, asked, taken>>
      BY <2>2 DEF LoadByte, source
    <3>2. QED
      BY <1>3, <3>1, GoesOnRunning DEF All
  <2>3. CASE ReadMore
    <3>1. pc # "idle" /\ pc' # "idle" /\ UNCHANGED <<src, call, from, asked, taken>>
      BY <2>3 DEF ReadMore
    <3>2. QED
      BY <1>3, <3>1, GoesOnRunning DEF All
  <2>4. CASE ReadBitsFilled
    BY <1>3, <2>4, BitsArrive
  <2>5. CASE ReadUnaryFilled
    BY <1>3, <2>5, UnaryArrives
  <2>6. QED
    BY <2>1, <2>2, <2>3, <2>4, <2>5 DEF Step
<1>4. QED
  BY <1>2, <1>3

\* What a reader is bound to when the writer is done.
Left(end) ==
    [bytes |-> Len(wbuf), ones |-> {i \in DOMAIN BitsIn(wbuf) : BitsIn(wbuf)[i] = 1}, end |-> end]

LEMMA LeftIsAll ==
    ASSUME WInv, mode = "close", NEW end \in {"eof", "io"}
    PROVE  /\ SourceOK(Left(end)) /\ Left(end).bytes * ByteBits = Len(Encoded(fields))
           /\ \A i \in 1..Len(Encoded(fields)) : i \in Left(end).ones <=> Encoded(fields)[i] = 1
<1>1. PICK E, w : E = Encoded(fields) /\ w = [buf |-> wbuf, acc |-> wacc, nbit |-> nbit] /\ Holds(w, E)
  BY DEF WInv
<1>2. PICK s, m, f, top :
        /\ s \in Seq(Nat) /\ m \in Nat /\ top \in Nat
        /\ w = [buf |-> s, acc |-> top * W!Pow(f), nbit |-> m]
        /\ E = BitsIn(s) \o Digits(top, m)
  BY <1>1 DEF Holds
<1>3. s = wbuf /\ m = 0
  <2>1. w.buf = s /\ w.nbit = m
    BY <1>2
  <2>2. w.buf = wbuf /\ w.nbit = nbit /\ nbit = 0
    BY <1>1 DEF WInv
  <2>3. QED
    BY <2>1, <2>2
<1>4. PICK x : x = BitsIn(s) /\ x \in Seq(Nat) /\ Len(x) = Len(s) * ByteBits
  BY <1>2, BitsInType
<1>5. E = x
  <2>1. Digits(top, 0) = <<>>
    <3>1. Digits(top, 0) \in Seq(Nat) /\ Len(Digits(top, 0)) = 0
      BY <1>2, DigitsSeq
    <3>2. QED
      BY <3>1, EmptySeq
  <2>2. x \o <<>> = x
    BY <1>4, ConcatEmptySeq
  <2>3. QED
    BY <1>2, <1>3, <1>4, <2>1, <2>2, Zenon
<1>6. PICK d, ones : d = Left(end) /\ ones = {i \in DOMAIN x : x[i] = 1} /\ d = [bytes |-> Len(s), ones |-> ones, end |-> end]
  BY <1>3, <1>4 DEF Left
<1>7. d.bytes = Len(s) /\ d.ones = ones /\ d.end = end
  BY <1>6
<1>8. Len(s) \in Nat /\ DOMAIN x = 1..Len(x) /\ Len(x) \in Nat
  BY <1>2, <1>4, LenProperties
<1>9. ones \subseteq Nat /\ \A i \in 1..Len(x) : i \in ones <=> x[i] = 1
  BY <1>6, <1>8
<1>10. SourceOK(d)
  BY <1>7, <1>8, <1>9 DEF SourceOK
<1>11. d.bytes * ByteBits = Len(x)
  BY <1>4, <1>7
<1>12. QED
  BY <1>1, <1>5, <1>6, <1>7, <1>9, <1>10, <1>11, Zenon

LEMMA BindReads == ASSUME All, Bind PROVE RInv' /\ IInv'
<1>1. PICK end \in {"eof", "io"} : Reset(Left(end))
  BY DEF Bind, Left
<1>2. /\ mode = "close" /\ mode' = "read" /\ fields' = fields /\ next' = next
  BY DEF Bind
<1>3. next = 0 /\ 0 \in 0..Len(fields)
  BY <1>2 DEF All, RInv
<1>4. PICK s : s = Left(end) /\ SourceOK(s) /\ s.bytes * ByteBits = Len(Encoded(fields))
               /\ \A i \in 1..Len(Encoded(fields)) : i \in s.ones <=> Encoded(fields)[i] = 1
  BY <1>2, LeftIsAll DEF All
<1>5. /\ src' = s /\ pc' = "idle" /\ result' = "ok" /\ taken' = <<>>
  BY <1>1, <1>4 DEF Reset
<1>6. IInv'
  BY <1>1, <1>4, ResetKeeps DEF All
<1>7. Bound'
  BY <1>2, <1>4, <1>5 DEF Bound
<1>8. Upto(fields, 0) = <<>>
  BY UptoNone DEF All, WInv
<1>9. Rested'
  <2>1. Len(taken') = Len(Upto(fields, 0))
    BY <1>5, <1>8
  <2>2. Len(taken') = Len(Upto(fields', next')) /\ ~(next' > 0)
    BY <1>2, <1>3, <2>1
  <2>3. result' = "ok"
    BY <1>5
  <2>4. Len(taken') = Len(Upto(fields, next)')
    BY <2>2 DEF Upto
  <2>5. QED
    BY <2>2, <2>3, <2>4 DEF Rested
<1>10. QED
  BY <1>2, <1>3, <1>5, <1>6, <1>7, <1>9 DEF RInv

\* Behind whole bytes, the bits that the accumulator has beyond whole bytes are the padding.
LEMMA PaddingAhead ==
    ASSUME IInv, NEW x \in Seq(Nat), Len(x) = Len(taken)
    PROVE  Len(acc) % ByteBits = Padding(x)
<1>1. PICK b \in Nat, g \in Nat, a \in Nat, l \in Nat :
         b = ByteBits /\ b > 0 /\ g = Len(taken) /\ a = Len(acc) /\ l = loaded /\ g + a = l * b
  <2>1. PICK g, a \in Nat : g = Len(taken) /\ a = Len(acc) /\ g + a = loaded * ByteBits
    BY Places DEF IInv
  <2>2. loaded \in Nat /\ ByteBits \in Nat /\ ByteBits > 0
    BY Widths DEF IInv, Typed
  <2>3. QED
    BY <2>1, <2>2
<1>2. PICK q \in Int, m \in Nat : q = a \div b /\ m = a % b /\ m < b /\ a = q * b + m
  <2>1. a \in Int /\ b \in Nat /\ b > 0
    BY <1>1
  <2>2. a \div b \in Int /\ a % b \in Nat /\ a % b < b /\ a = (a \div b) * b + (a % b)
    BY <2>1, Divided
  <2>3. QED
    BY <2>2
<1>3. PICK z \in Int, y \in Int : z = -g /\ y = q - l
  OBVIOUS
<1>4. z = y * b + m
  <2>1. y * b = q * b - l * b
    <3>1. (q - l) * b = q * b - l * b
      BY <1>1
    <3>2. QED
      BY <1>3, <3>1, Zenon
  <2>2. PICK c \in Int, d \in Int : c = q * b /\ d = l * b /\ y * b = c - d
    <3>1. q * b \in Int /\ l * b \in Int
      BY <1>1
    <3>2. QED
      BY <2>1, <3>1, Zenon
  <2>3. a = c + m /\ g + a = d /\ z = -g
    BY <1>1, <1>2, <1>3, <2>2
  <2>4. z = (c - d) + m
    <3>1. -g = (c - d) + m
      <4>1. (g + (c + m)) - d = 0
        BY <2>3
      <4>2. QED
        BY <4>1
    <3>2. QED
      BY <2>3, <3>1, Zenon
  <2>5. QED
    BY <2>2, <2>4
<1>5. z % b = m
  <2>1. b > 0 /\ m < b
    BY <1>1, <1>2
  <2>2. QED
    BY <1>4, <2>1, DividedOnce
<1>6. QED
  BY <1>1, <1>2, <1>3, <1>5 DEF Padding

\* Where a field needs nothing of the reader, or only the padding.
LEMMA PassesOn ==
    ASSUME RInv, mode = "read", src' = src, mode' = mode, fields' = fields,
           next' \in 0..Len(fields), pc' = "idle", result' = "ok",
           Len(taken') = Len(Upto(fields, next')),
           fields[next'].op \notin {"bits", "signed", "unary"}
    PROVE  RInv'
<1>1. Bound /\ next \in 0..Len(fields)
  BY DEF RInv
<1>2. Bound'
  BY <1>1 DEF Bound
<1>3. Rested'
  BY DEF Rested, Upto
<1>4. QED
  BY <1>1, <1>2, <1>3 DEF RInv

\* ReadBits for a field: its bits at once, or a call that is after them.
LEMMA ReadsBits ==
    ASSUME All, mode = "read", pc = "idle", src' = src, mode' = mode, fields' = fields,
           next' \in 1..Len(fields),
           NEW f, NEW t, NEW v, NEW n, Aimed(f, t, v, n), f.op \in {"bits", "signed"},
           f = fields[next'], t = Len(taken), ReadBits(f.n),
           t = Len(Upto(fields, next' - 1)), t + n = Len(Upto(fields, next'))
    PROVE  RInv'
<1>1. n = f.n /\ n \in Nat /\ t \in Nat
  BY Zenon DEF Aimed
<1>2. from' = t /\ asked' = n
  BY <1>1 DEF ReadBits, Called
<1>3. next' \in 0..Len(fields) /\ next' > 0
  BY DEF All, WInv
<1>4. CASE n <= Len(acc)
  <2>1. Consume(n) /\ pc' = "idle" /\ result' = "ok"
    BY <1>1, <1>4 DEF ReadBits, Return
  <2>2. n \in 0..Len(acc)
    BY <1>1, <1>4, LenProperties DEF All, IInv, Typed
  <2>3. Len(taken') = t + n
    BY <2>1, <2>2, TakesOn DEF All
  <2>4. Len(taken') = Len(Upto(fields, next')) /\ from' = Len(Upto(fields, next' - 1))
    BY <1>2, <2>3
  <2>5. QED
    BY <1>3, <2>1, <2>4, ComesToRest DEF All
<1>5. CASE ~(n <= Len(acc))
  <2>1. /\ pc' # "idle" /\ call'.op = "bits" /\ taken' = taken
    BY <1>1, <1>5 DEF ReadBits, StartFill
  <2>2. Bound'
    BY DEF All, RInv, Bound
  <2>3. next' > 0 /\ from' = Len(Upto(fields, next' - 1)) /\ from' <= Len(taken')
    <3>1. from' = Len(Upto(fields, next' - 1))
      BY <1>2, Zenon
    <3>2. Len(taken') = t
      BY <2>1, Zenon
    <3>3. t <= t
      BY <1>1
    <3>4. from' <= Len(taken')
      BY <1>2, <3>2, <3>3, Zenon
    <3>5. QED
      BY <1>3, <3>1, <3>4, Zenon
  <2>4. fields'[next'].op \in {"bits", "signed"} /\ asked' = fields'[next'].n
    BY <1>1, <1>2
  <2>5. Running'
    BY <2>1, <2>3, <2>4 DEF Running, Upto
  <2>6. QED
    BY <1>3, <2>1, <2>2, <2>5 DEF RInv
<1>6. QED
  BY <1>4, <1>5

\* ReadUnary for a field.
LEMMA ReadsUnary ==
    ASSUME All, mode = "read", pc = "idle", src' = src, mode' = mode, fields' = fields,
           next' \in 1..Len(fields),
           NEW f, NEW t, NEW v, NEW n, Aimed(f, t, v, n), f.op = "unary",
           f = fields[next'], t = Len(taken), ReadUnary,
           t = Len(Upto(fields, next' - 1)), t + n = Len(Upto(fields, next'))
    PROVE  RInv'
<1>1. t \in Nat /\ from' = t
  BY StillAimed DEF ReadUnary, Called
<1>2. next' \in 0..Len(fields) /\ next' > 0
  BY DEF All, WInv
<1>3. t <= Len(taken) /\ \A i \in (t + 1)..Len(taken) : i \notin src.ones
  BY <1>1
<1>4. CASE acc = <<>>
  <2>1. /\ pc' # "idle" /\ call'.op = "unary" /\ taken' = taken
    BY <1>4 DEF ReadUnary, StartFill
  <2>2. Bound'
    BY DEF All, RInv, Bound
  <2>3. Running'
    BY <1>1, <1>2, <1>3, <2>1 DEF Running, Upto
  <2>4. QED
    BY <1>2, <2>1, <2>2, <2>3 DEF RInv
<1>5. CASE acc # <<>>
  <2>1. Scan
    BY <1>5 DEF ReadUnary
  <2>2. QED
    BY <1>1, <1>3, <2>1, UnaryScanned
<1>6. QED
  BY <1>4, <1>5

\* The reader is asked for the next field.
LEMMA FieldReads == ASSUME All, ReadField PROVE RInv' /\ IInv'
<1>1. /\ mode = "read" /\ pc = "idle" /\ next < Len(fields) /\ next' = next + 1
      /\ mode' = mode /\ fields' = fields
  BY DEF ReadField
<1>2. PICK k \in Nat : k = next /\ k < Len(fields) /\ next' = k + 1
                       /\ k + 1 \in 0..Len(fields) /\ k + 1 \in 1..Len(fields) /\ (k + 1) - 1 = k
  <2>1. next \in 0..Len(fields) /\ Len(fields) \in Nat
    BY DEF All, RInv, WInv
  <2>2. QED
    BY <1>1, <2>1
<1>3. Bound /\ result = "ok" /\ Len(taken) = Len(Upto(fields, k))
  BY <1>1, <1>2 DEF All, RInv, Rested
<1>4. PICK f, t, v, n : /\ f = fields[k + 1] /\ Aimed(f, t, v, n)
                        /\ t = Len(Upto(fields, k)) /\ t + n = Len(Upto(fields, k + 1))
                        /\ DigitsOf(f, Upto(fields, k), v, n)
  BY <1>2, <1>3, Aims DEF All
<1>5. FieldOK(f) /\ t \in Nat /\ n \in Nat
  BY <1>4, Zenon DEF Aimed
<1>6. CASE f.op \in {"bits", "signed"}
  <2>1. ReadBits(f.n) /\ f.n \in Nat
    BY <1>1, <1>2, <1>4, <1>5, <1>6, FieldsFit DEF ReadField
  <2>2. IInv'
    BY <2>1, ReadBitsKeeps DEF All
  <2>3. src' = src
    BY <2>1 DEF ReadBits, source
  <2>4. RInv'
    BY <1>1, <1>2, <1>3, <1>4, <1>6, <2>1, <2>3, ReadsBits
  <2>5. QED
    BY <2>2, <2>4
<1>7. CASE f.op = "unary"
  <2>1. ReadUnary
    BY <1>1, <1>2, <1>4, <1>7 DEF ReadField
  <2>2. IInv'
    BY <2>1, ReadUnaryKeeps DEF All
  <2>3. src' = src
    BY <2>1 DEF ReadUnary, source
  <2>4. RInv'
    BY <1>1, <1>2, <1>3, <1>4, <1>7, <2>1, <2>3, ReadsUnary
  <2>5. QED
    BY <2>2, <2>4
<1>8. CASE f.op = "align" /\ Len(acc) % ByteBits # 0
  <2>1. SkipToByteBoundary
    BY <1>1, <1>2, <1>4, <1>8 DEF ReadField
  <2>2. IInv'
    BY <2>1, SkipKeeps DEF All
  <2>3. src' = src /\ pc' = "idle" /\ result' = "ok"
    BY <1>3, <2>1 DEF SkipToByteBoundary, source
  <2>4. n = Padding(Upto(fields, k))
    BY <1>4, <1>8, Zenon DEF DigitsOf
  <2>5. n = Len(acc) % ByteBits
    <3>1. Upto(fields, k) \in Seq(Nat)
      BY <1>2, UptoType DEF All, WInv
    <3>2. QED
      BY <1>3, <2>4, <3>1, PaddingAhead DEF All
  <2>6. n <= Len(acc) /\ Len(acc) \in Nat
    <3>1. PICK a \in Nat, b \in Nat : a = Len(acc) /\ b = ByteBits /\ b > 0
      BY Widths, LenProperties DEF All, IInv, Typed
    <3>2. a % b \in Nat /\ a \div b \in Nat /\ a = (a \div b) * b + (a % b)
      BY <3>1, Division
    <3>3. PICK y \in Nat : y = (a \div b) * b
      BY <3>1, <3>2
    <3>4. a = y + (a % b)
      BY <3>2, <3>3
    <3>5. QED
      BY <2>5, <3>1, <3>2, <3>3, <3>4
  <2>7. Len(taken') = t + n
    <3>1. n \in 0..Len(acc) /\ Consume(n)
      BY <1>5, <2>1, <2>5, <2>6 DEF SkipToByteBoundary
    <3>2. QED
      BY <1>3, <1>4, <3>1, TakesOn DEF All
  <2>8. RInv'
    <3>1. Len(taken') = Len(Upto(fields, next')) /\ next' \in 0..Len(fields)
      BY <1>2, <1>4, <2>7
    <3>2. fields[next'].op \notin {"bits", "signed", "unary"}
      BY <1>2, <1>4, <1>8
    <3>3. QED
      BY <1>1, <2>3, <3>1, <3>2, PassesOn DEF All
  <2>9. QED
    BY <2>2, <2>8
<1>9. CASE f.op = "bytes" \/ (f.op = "align" /\ ~(Len(acc) % ByteBits # 0))
  <2>1. UNCHANGED vars
    BY <1>1, <1>2, <1>4, <1>9 DEF ReadField
  <2>2. IInv'
    BY <2>1, StillKeeps DEF All
  <2>3. src' = src /\ pc' = "idle" /\ result' = "ok" /\ taken' = taken
    BY <1>1, <1>3, <2>1 DEF vars, source
  <2>4. n = 0
    <3>1. CASE f.op = "bytes"
      BY <1>4, <3>1, Zenon DEF DigitsOf
    <3>2. CASE f.op = "align" /\ ~(Len(acc) % ByteBits # 0)
      <4>1. n = Padding(Upto(fields, k))
        BY <1>4, <3>2, Zenon DEF DigitsOf
      <4>2. Upto(fields, k) \in Seq(Nat)
        BY <1>2, UptoType DEF All, WInv
      <4>3. n = Len(acc) % ByteBits
        BY <1>3, <4>1, <4>2, PaddingAhead DEF All
      <4>4. QED
        BY <3>2, <4>3
    <3>3. QED
      BY <1>9, <3>1, <3>2
  <2>5. RInv'
    <3>1. Len(taken') = Len(Upto(fields, next')) /\ next' \in 0..Len(fields)
      BY <1>2, <1>3, <1>4, <1>5, <2>3, <2>4
    <3>2. fields[next'].op \notin {"bits", "signed", "unary"}
      BY <1>2, <1>4, <1>9
    <3>3. QED
      BY <1>1, <2>3, <3>1, <3>2, PassesOn DEF All
  <2>6. QED
    BY <2>2, <2>5
<1>10. QED
  BY <1>5, <1>6, <1>7, <1>8, <1>9 DEF FieldOK

-----------------------------------------------------------------------------
LEMMA AllInitially == IOInit => All
<1> SUFFICES ASSUME IOInit PROVE All
  OBVIOUS
<1>1. IInv
  BY Initially DEF IOInit
<1>2. WInv
  BY WInitially
<1>3. fields = <<>> /\ next = 0 /\ mode # "read"
  BY DEF IOInit
<1>4. RInv
  BY <1>3 DEF RInv
<1>5. QED
  BY <1>1, <1>2, <1>4 DEF All

\* While fields are written the reader rests.
LEMMA ReaderRests ==
    ASSUME All, UNCHANGED vars, next' = next, Len(fields) \in Nat, Len(fields') \in Nat,
           Len(fields) <= Len(fields'), mode # "read", mode' # "read"
    PROVE  IInv' /\ RInv'
<1>1. IInv'
  BY StillKeeps DEF All
<1>2. next = 0
  BY DEF All, RInv
<1>3. QED
  BY <1>1, <1>2 DEF RInv

LEMMA AllStep == All /\ [IONext]_allVars => All'
<1> SUFFICES ASSUME All, [IONext]_allVars PROVE All'
  OBVIOUS
<1>1. WInv'
  BY WStep DEF All
<1>2. Len(fields) \in Nat /\ Len(fields') \in Nat /\ mode \in {"free", "write", "close", "read"}
  BY <1>1 DEF All, WInv
<1>3. CASE Step /\ UNCHANGED ioVars
  BY <1>1, <1>3, StepReads, StepKeeps DEF All
<1>4. CASE mode = "free" /\ Next /\ UNCHANGED ioVars
  <2>1. mode' = "free" /\ next' = next /\ fields' = fields
    BY <1>4 DEF ioVars
  <2>2. IInv'
    BY <1>4, Inductive DEF All
  <2>3. RInv'
    BY <1>4, <2>1 DEF All, RInv
  <2>4. QED
    BY <1>1, <2>2, <2>3 DEF All
<1>5. ASSUME NEW f \in Fields, WriteField(f) PROVE All'
  <2>1. UNCHANGED vars /\ next' = next /\ fields' = Append(fields, f) /\ mode = "write" /\ mode' = mode
    BY <1>5 DEF WriteField
  <2>2. Len(fields) <= Len(fields')
    BY <2>1 DEF All, WInv
  <2>3. QED
    BY <1>1, <1>2, <2>1, <2>2, ReaderRests DEF All
<1>6. CASE Finish
  <2>1. UNCHANGED vars /\ next' = next /\ mode = "write" /\ mode' = "close"
    BY <1>6 DEF Finish
  <2>2. Len(fields) <= Len(fields')
    <3>1. fields' = fields \/ fields' = Append(fields, Padded)
      BY <1>6 DEF Finish, Padded
    <3>2. QED
      BY <1>2, <3>1 DEF All, WInv
  <2>3. QED
    BY <1>1, <1>2, <2>1, <2>2, ReaderRests DEF All
<1>7. CASE Bind
  BY <1>1, <1>7, BindReads DEF All
<1>8. CASE ReadField
  BY <1>1, <1>8, FieldReads DEF All
<1>9. CASE UNCHANGED allVars
  <2>1. /\ UNCHANGED vars /\ mode' = mode /\ fields' = fields /\ next' = next
    BY <1>9 DEF allVars, ioVars
  <2>2. IInv'
    BY <2>1, StillKeeps DEF All
  <2>3. /\ src' = src /\ pc' = pc /\ call' = call /\ from' = from
        /\ asked' = asked /\ result' = result /\ taken' = taken
    BY <2>1 DEF vars, source
  <2>4. RInv'
    BY <2>1, <2>3 DEF All, RInv, Bound, Rested, Running, Upto
  <2>5. QED
    BY <1>1, <2>2, <2>4 DEF All
<1>10. QED
  BY <1>3, <1>4, <1>5, <1>6, <1>7, <1>8, <1>9 DEF IONext

\* What the last call took are the digits of its field.
LEMMA DigitsRead ==
    ASSUME All, NEW f, NEW t, NEW v, NEW n, Aimed(f, t, v, n), from = t, Len(taken) = t + n
    PROVE  Read64 = Digits(v, n)
<1>1. v \in Int /\ n \in Nat /\ t \in Nat
  BY Zenon DEF Aimed
<1>2. PICK g \in Nat : g = Len(taken) /\ taken = Run(0, g)
  BY Places DEF All, IInv
<1>3. g = t + n /\ Len(taken) - from = n
  BY <1>1, <1>2
<1>4. ASSUME NEW i \in 1..n
      PROVE  (IF taken[t + i] \in src.ones THEN 1 ELSE 0) = Digits(v, n)[i]
  <2>1. taken[t + i] = t + i
    <3>1. t + i \in 1..g /\ 0 + (t + i) = t + i
      BY <1>1, <1>3
    <3>2. \A j \in 1..g : Run(0, g)[j] = 0 + j
      BY RunType
    <3>3. QED
      BY <1>2, <3>1, <3>2
  <2>2. t + i \in src.ones <=> Digits(v, n)[i] = 1
    BY Zenon DEF Aimed
  <2>3. Digits(v, n)[i] \in {0, 1}
    BY <1>1, DigitIsBit
  <2>4. QED
    BY <2>1, <2>2, <2>3
<1>5. PICK d : d = Digits(v, n) /\ d \in Seq(Nat) /\ Len(d) = n
  BY <1>1, DigitsType
<1>6. PICK x : x = Read64 /\ x = [i \in 1..n |-> IF taken[t + i] \in src.ones THEN 1 ELSE 0]
  BY <1>3 DEF Read64
<1>7. x = [i \in 1..n |-> d[i]]
  BY <1>4, <1>5, <1>6
<1>8. d = [i \in 1..n |-> d[i]]
  BY <1>5
<1>9. QED
  BY <1>5, <1>6, <1>7, <1>8

LEMMA AllReads == All => FieldsReadBack
<1> SUFFICES ASSUME All, mode = "read", pc = "idle", next > 0 PROVE FieldsReadBack
  BY DEF FieldsReadBack
<1>1. WInv /\ Bound /\ Rested /\ next \in 0..Len(fields)
  BY DEF All, RInv
<1>2. PICK k \in Nat : k = next - 1 /\ k + 1 = next /\ k < Len(fields)
  <2>1. Len(fields) \in Nat
    BY <1>1 DEF WInv
  <2>2. next - 1 \in Nat /\ (next - 1) + 1 = next /\ next - 1 < Len(fields)
    BY <1>1, <2>1
  <2>3. QED
    BY <2>2
<1>3. PICK f, t, v, n : /\ f = fields[next] /\ Aimed(f, t, v, n)
                        /\ t = Len(Upto(fields, k)) /\ t + n = Len(Upto(fields, next))
  BY <1>1, <1>2, Aims
<1>4. result = "ok" /\ Len(taken) = t + n
  BY <1>1, <1>3 DEF Rested
<1>5. ASSUME f.op \in {"bits", "signed", "unary"} PROVE Read64 = Digits(v, n)
  <2>1. from = t
    BY <1>1, <1>2, <1>3, <1>5 DEF Rested
  <2>2. QED
    BY <1>3, <1>4, <2>1, DigitsRead
<1>6. FieldOK(f) /\ v \in Int /\ n \in Nat
  BY <1>3, Zenon DEF Aimed
<1>7. ASSUME f.op \in {"bits", "signed"} PROVE ValueOf(Read64) = f.v % W!Pow(f.n)
  <2>1. v = f.v /\ n = f.n
    BY <1>3, <1>7, Zenon DEF Aimed
  <2>2. Read64 = Digits(v, n)
    BY <1>5, <1>7
  <2>3. ValueOf(Digits(v, n)) = v % W!Pow(n)
    BY <1>6, ValueOfDigits
  <2>4. QED
    BY <2>1, <2>2, <2>3, Zenon
<1>8. ASSUME f.op = "signed"
      PROVE  f.v = ValueOf(Read64) - (IF ValueOf(Read64) >= W!Pow(f.n - 1) THEN W!Pow(f.n) ELSE 0)
  <2>1. ValueOf(Read64) = f.v % W!Pow(f.n)
    BY <1>7, <1>8
  <2>2. f.n \in 1..Widest /\ f.v \in Int /\ -W!Pow(f.n - 1) <= f.v /\ f.v < W!Pow(f.n - 1)
    BY <1>6, <1>8 DEF FieldOK
  <2>3. f.n \in Nat /\ f.n > 0
    BY <2>2
  <2>4. f.v = (f.v % W!Pow(f.n)) - (IF f.v % W!Pow(f.n) >= W!Pow(f.n - 1) THEN W!Pow(f.n) ELSE 0)
    BY <2>2, <2>3, SignExtends
  <2>5. QED
    BY <2>1, <2>4, Zenon
<1>9. ASSUME f.op = "unary" PROVE Read64 = Digits(1, f.v + 1)
  <2>1. v = 1 /\ n = f.v + 1
    BY <1>3, <1>9, Zenon DEF Aimed
  <2>2. QED
    BY <1>5, <1>9, <2>1
<1>10. ASSUME next = Len(fields) PROVE Len(taken) = src.bytes * ByteBits
  <2>1. Upto(fields, Len(fields)) = Encoded(fields)
    BY <1>1, UptoAll DEF WInv
  <2>2. QED
    BY <1>1, <1>3, <1>4, <1>10, <2>1 DEF Bound
<1>11. QED
  BY <1>3, <1>4, <1>7, <1>8, <1>9, <1>10 DEF FieldsReadBack

\* Every field that was written is read back as it was, over words, over refills of the
\* buffer and whenever whole bytes were taken out of the writer, and then nothing of the
\* frame is left (WriteBits and ReadBits, WriteSignedBits and ReadSigned, WriteUnary and
\* ReadUnary, AlignByte and SkipToByteBoundary).
THEOREM FieldsAreReadBack == IOSpec => []FieldsReadBack
<1>1. IOInit => All
  BY AllInitially
<1>2. All /\ [IONext]_allVars => All'
  BY AllStep
<1>3. All => FieldsReadBack
  BY AllReads
<1>4. QED
  BY <1>1, <1>2, <1>3, PTL DEF IOSpec
=============================================================================
