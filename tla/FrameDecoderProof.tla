-------------------------- MODULE FrameDecoderProof ---------------------------
(***************************************************************************)
(* Proofs about the CRC-8, FrameHeader and FrameDecoder, for every set of   *)
(* headers, STREAMINFO bodies and packets.                                  *)
(*                                                                          *)
(* The table of the CRC-8 has every byte once, because the polynomial is    *)
(* odd; so a register that differs stays different, and one altered byte    *)
(* alters the checksum, wherever it is and however many bytes follow.       *)
(*                                                                          *)
(* A header is first laid out: each code says of its value what reading     *)
(* makes of it (SizeCodeFor, RateCodeFor, LeadSays), and each field has its *)
(* place among the bytes (LaidOut).  ReadingInv then says of a header that  *)
(* is whole or cut off that the reader stands at the place of its next      *)
(* field, and that what it has read is what was sent.  CheckedInv says of   *)
(* any header, damaged ones included, that if it was accepted its last byte *)
(* is the checksum of those before it.                                      *)
(*                                                                          *)
(* CallInv follows a call through its body.  A channel buffer may hold an   *)
(* earlier packet's samples until a subframe fills it; those read so far    *)
(* are full of this call's, the two of a pair once both have been read,     *)
(* and the verdict on the packet is decided by what is left of it.  A       *)
(* header that is damaged says nothing of what was sent: what is known is   *)
(* that it has some number of channels, and that its CRC-16 will not match. *)
(***************************************************************************)
EXTENDS FrameDecoder, SequenceFacts

-----------------------------------------------------------------------------
(* The bits of a byte, and exclusive or.                                    *)

\* The weights of the eight bits.
LEMMA Weights ==
    /\ 2 ^ 0 = 1 /\ 2 ^ 1 = 2 /\ 2 ^ 2 = 4 /\ 2 ^ 3 = 8
    /\ 2 ^ 4 = 16 /\ 2 ^ 5 = 32 /\ 2 ^ 6 = 64 /\ 2 ^ 7 = 128
OBVIOUS

\* n is the number with the bits x.
HasBits(n, x) ==
    n = x[0] + 2 * x[1] + 4 * x[2] + 8 * x[3] + 16 * x[4] + 32 * x[5] + 64 * x[6] + 128 * x[7]

\* A byte is the number with its bits.
LEMMA BitsOfByte ==
    ASSUME NEW n \in Bytes
    PROVE  /\ \A k \in 0..7 : Bit(n, k) \in {0, 1}
           /\ HasBits(n, [k \in 0..7 |-> Bit(n, k)])
<1>1. /\ Bit(n, 0) = n % 2 /\ Bit(n, 1) = (n \div 2) % 2
      /\ Bit(n, 2) = (n \div 4) % 2 /\ Bit(n, 3) = (n \div 8) % 2
      /\ Bit(n, 4) = (n \div 16) % 2 /\ Bit(n, 5) = (n \div 32) % 2
      /\ Bit(n, 6) = (n \div 64) % 2 /\ Bit(n, 7) = (n \div 128) % 2
  BY Weights DEF Bit, Bytes
<1>2. \A k \in 0..7 : Bit(n, k) \in {0, 1}
  <2>1. TAKE k \in 0..7
  <2>2. k \in {0, 1, 2, 3, 4, 5, 6, 7}
    OBVIOUS
  <2>3. QED
    BY <1>1, <2>2 DEF Bytes
<1>3. /\ n \div 4 = (n \div 2) \div 2 /\ n \div 8 = (n \div 4) \div 2
      /\ n \div 16 = (n \div 8) \div 2 /\ n \div 32 = (n \div 16) \div 2
      /\ n \div 64 = (n \div 32) \div 2 /\ n \div 128 = (n \div 64) \div 2
      /\ n \div 128 \in {0, 1}
  <2>1. n \in Int /\ 0 <= n /\ n < 256
    BY DEF Bytes
  <2>2. n \div 4 = (n \div 2) \div 2
    BY <2>1
  <2>3. n \div 8 = (n \div 4) \div 2
    BY <2>1
  <2>4. n \div 16 = (n \div 8) \div 2
    BY <2>1
  <2>5. n \div 32 = (n \div 16) \div 2
    BY <2>1
  <2>6. n \div 64 = (n \div 32) \div 2
    BY <2>1
  <2>7. n \div 128 = (n \div 64) \div 2
    BY <2>1
  <2>8. n \div 128 \in {0, 1}
    BY <2>1
  <2>9. QED
    BY <2>2, <2>3, <2>4, <2>5, <2>6, <2>7, <2>8
<1>4. PICK a \in Int, b \in Int, c \in Int, d \in Int, e \in Int, f \in Int, g \in Int :
        /\ a = n \div 2 /\ b = n \div 4 /\ c = n \div 8 /\ d = n \div 16
        /\ e = n \div 32 /\ f = n \div 64 /\ g = n \div 128
  BY DEF Bytes
<1>5. /\ n = 2 * a + (n % 2) /\ a = 2 * b + (a % 2) /\ b = 2 * c + (b % 2) /\ c = 2 * d + (c % 2)
      /\ d = 2 * e + (d % 2) /\ e = 2 * f + (e % 2) /\ f = 2 * g + (f % 2) /\ g = g % 2
  <2>1. n \in Int /\ n = 2 * a + (n % 2)
    BY <1>4 DEF Bytes
  <2>2. \A u, v \in Int : v = u \div 2 => u = 2 * v + (u % 2)
    OBVIOUS
  <2>3. /\ b = a \div 2 /\ c = b \div 2 /\ d = c \div 2
        /\ e = d \div 2 /\ f = e \div 2 /\ g = f \div 2
    BY <1>3, <1>4
  <2>4. g = g % 2
    BY <1>3, <1>4
  <2>5. QED
    BY <1>4, <2>1, <2>2, <2>3, <2>4
<1>6. /\ Bit(n, 0) = n % 2 /\ Bit(n, 1) = a % 2 /\ Bit(n, 2) = b % 2 /\ Bit(n, 3) = c % 2
      /\ Bit(n, 4) = d % 2 /\ Bit(n, 5) = e % 2 /\ Bit(n, 6) = f % 2 /\ Bit(n, 7) = g % 2
  BY <1>1, <1>4
<1>7. PICK o \in Int, p \in Int, q \in Int, r \in Int, s \in Int, t \in Int, u \in Int, v \in Int :
        /\ o = n % 2 /\ p = a % 2 /\ q = b % 2 /\ r = c % 2
        /\ s = d % 2 /\ t = e % 2 /\ u = f % 2 /\ v = g % 2
  BY <1>4 DEF Bytes
<1>8. n = o + 2 * p + 4 * q + 8 * r + 16 * s + 32 * t + 64 * u + 128 * v
  <2>1. n \in Int
    BY DEF Bytes
  <2>2. /\ n = 2 * a + o /\ a = 2 * b + p /\ b = 2 * c + q /\ c = 2 * d + r
        /\ d = 2 * e + s /\ e = 2 * f + t /\ f = 2 * g + u /\ g = v
    BY <1>5, <1>7
  <2>3. QED
    BY <1>4, <1>7, <2>1, <2>2
<1>9. n = Bit(n, 0) + 2 * Bit(n, 1) + 4 * Bit(n, 2) + 8 * Bit(n, 3) + 16 * Bit(n, 4)
            + 32 * Bit(n, 5) + 64 * Bit(n, 6) + 128 * Bit(n, 7)
  BY <1>6, <1>7, <1>8
<1>10. QED
  BY <1>2, <1>9 DEF HasBits

\* Numbers with the same bits are the same, and those with different bits differ.
LEMMA SameBits ==
    ASSUME NEW x, NEW y, NEW n, HasBits(n, x), HasBits(n, y),
           \A k \in 0..7 : x[k] \in {0, 1} /\ y[k] \in {0, 1}
    PROVE  \A k \in 0..7 : x[k] = y[k]
<1>1. /\ x[0] \in {0, 1} /\ x[1] \in {0, 1} /\ x[2] \in {0, 1} /\ x[3] \in {0, 1}
      /\ x[4] \in {0, 1} /\ x[5] \in {0, 1} /\ x[6] \in {0, 1} /\ x[7] \in {0, 1}
      /\ y[0] \in {0, 1} /\ y[1] \in {0, 1} /\ y[2] \in {0, 1} /\ y[3] \in {0, 1}
      /\ y[4] \in {0, 1} /\ y[5] \in {0, 1} /\ y[6] \in {0, 1} /\ y[7] \in {0, 1}
  OBVIOUS
<1>2. PICK a \in {0, 1}, b \in {0, 1}, c \in {0, 1}, d \in {0, 1},
           e \in {0, 1}, f \in {0, 1}, g \in {0, 1}, h \in {0, 1} :
        /\ a = x[0] /\ b = x[1] /\ c = x[2] /\ d = x[3]
        /\ e = x[4] /\ f = x[5] /\ g = x[6] /\ h = x[7]
  BY <1>1
<1>3. PICK p \in {0, 1}, q \in {0, 1}, r \in {0, 1}, s \in {0, 1},
           t \in {0, 1}, u \in {0, 1}, v \in {0, 1}, w \in {0, 1} :
        /\ p = y[0] /\ q = y[1] /\ r = y[2] /\ s = y[3]
        /\ t = y[4] /\ u = y[5] /\ v = y[6] /\ w = y[7]
  BY <1>1
<1>4. a + 2 * b + 4 * c + 8 * d + 16 * e + 32 * f + 64 * g + 128 * h
        = p + 2 * q + 4 * r + 8 * s + 16 * t + 32 * u + 64 * v + 128 * w
  BY <1>2, <1>3 DEF HasBits
<1>5. a = p /\ b = q /\ c = r /\ d = s /\ e = t /\ f = u /\ g = v /\ h = w
  BY <1>4
<1>6. TAKE k \in 0..7
<1>7. k \in {0, 1, 2, 3, 4, 5, 6, 7}
  OBVIOUS
<1>8. QED
  BY <1>2, <1>3, <1>5, <1>7

\* The bits of an exclusive or.
XorBits(a, b) == [k \in 0..7 |-> (Bit(a, k) + Bit(b, k)) % 2]

\* Each is 0 or 1, and given one argument's it tells the other's.
LEMMA XorBitsType ==
    ASSUME NEW a \in Bytes, NEW b \in Bytes, NEW k \in 0..7
    PROVE  /\ XorBits(a, b)[k] = (Bit(a, k) + Bit(b, k)) % 2
           /\ XorBits(a, b)[k] \in {0, 1}
<1>1. Bit(a, k) \in {0, 1} /\ Bit(b, k) \in {0, 1}
  BY BitsOfByte
<1>2. XorBits(a, b)[k] = (Bit(a, k) + Bit(b, k)) % 2
  BY DEF XorBits
<1>3. PICK x \in {0, 1}, y \in {0, 1} : x = Bit(a, k) /\ y = Bit(b, k)
  BY <1>1
<1>4. (x + y) % 2 \in {0, 1}
  BY <1>3
<1>5. QED
  BY <1>2, <1>3, <1>4

\* The recursive function of Xor.
Lows(g, a, b) ==
    g = [k \in 0..8 |->
            IF k = 0 THEN 0
            ELSE g[k - 1] + 2 ^ (k - 1) * ((Bit(a, k - 1) + Bit(b, k - 1)) % 2)]

\* There is one.
LEMMA LowsExist == ASSUME NEW a \in Bytes, NEW b \in Bytes PROVE \E g : Lows(g, a, b)
<1>1. PICK add : add = [k \in 1..8 |-> 2 ^ (k - 1) * ((Bit(a, k - 1) + Bit(b, k - 1)) % 2)]
  OBVIOUS
<1>2. ASSUME NEW k \in 1..8 PROVE add[k] \in Nat
  <2>1. PICK j \in 0..7 : j = k - 1
    OBVIOUS
  <2>2. add[k] = 2 ^ j * XorBits(a, b)[j]
    BY <1>1, <2>1, XorBitsType
  <2>3. j \in {0, 1, 2, 3, 4, 5, 6, 7}
    OBVIOUS
  <2>4. 2 ^ j \in {1, 2, 4, 8, 16, 32, 64, 128}
    <3>1. CASE j = 0
      BY <3>1, Weights, Zenon
    <3>2. CASE j = 1
      BY <3>2, Weights, Zenon
    <3>3. CASE j = 2
      BY <3>3, Weights, Zenon
    <3>4. CASE j = 3
      BY <3>4, Weights, Zenon
    <3>5. CASE j = 4
      BY <3>5, Weights, Zenon
    <3>6. CASE j = 5
      BY <3>6, Weights, Zenon
    <3>7. CASE j = 6
      BY <3>7, Weights, Zenon
    <3>8. CASE j = 7
      BY <3>8, Weights, Zenon
    <3>9. QED
      BY <2>3, <3>1, <3>2, <3>3, <3>4, <3>5, <3>6, <3>7, <3>8
  <2>5. PICK w \in Nat, x \in {0, 1} : w = 2 ^ j /\ x = XorBits(a, b)[j]
    BY <2>4, XorBitsType
  <2>6. w * x \in Nat
    BY <2>5
  <2>7. QED
    BY <2>2, <2>5, <2>6
<1>3. PICK turn : turn = [x \in Nat \X Nat |-> IF x[1] \in 1..8 THEN x[2] + add[x[1]] ELSE 0]
  OBVIOUS
<1>4. turn \in [Nat \X Nat -> Nat]
  <2>1. ASSUME NEW x \in Nat \X Nat
        PROVE  (IF x[1] \in 1..8 THEN x[2] + add[x[1]] ELSE 0) \in Nat
    BY <1>2
  <2>2. QED
    BY <1>3, <2>1
<1>5. PICK g \in [0..8 -> Nat] : Builds(g, 0, turn, 8)
  BY <1>4, BuildExists
<1>6. \A k \in 0..8 : g[k] = IF k = 0 THEN 0
                             ELSE g[k - 1] + 2 ^ (k - 1) * ((Bit(a, k - 1) + Bit(b, k - 1)) % 2)
  <2>1. TAKE k \in 0..8
  <2>2. CASE k = 0
    BY <2>2, <1>5 DEF Builds
  <2>3. CASE k # 0
    <3>1. k \in 1..8 /\ k - 1 \in 0..8
      BY <2>3
    <3>2. g[k] = turn[<<k, g[k - 1]>>]
      BY <3>1, <1>5 DEF Builds
    <3>3. <<k, g[k - 1]>> \in Nat \X Nat
      BY <3>1, <1>5
    <3>4. turn[<<k, g[k - 1]>>] = g[k - 1] + add[k]
      BY <1>3, <3>1, <3>3
    <3>5. add[k] = 2 ^ (k - 1) * ((Bit(a, k - 1) + Bit(b, k - 1)) % 2)
      BY <1>1, <3>1
    <3>6. QED
      BY <2>3, <3>2, <3>4, <3>5
  <2>4. QED
    BY <2>2, <2>3
<1>7. g = [k \in 0..8 |-> g[k]]
  BY <1>5
<1>8. QED
  BY <1>6, <1>7 DEF Lows

\* Xor is its last value.
LEMMA XorIsLast ==
    ASSUME NEW a \in Bytes, NEW b \in Bytes
    PROVE  \E g : Lows(g, a, b) /\ Xor(a, b) = g[8]
<1> DEFINE f == CHOOSE low : low =
        [k \in 0..8 |->
            IF k = 0 THEN 0
            ELSE low[k - 1] + 2 ^ (k - 1) * ((Bit(a, k - 1) + Bit(b, k - 1)) % 2)]
<1>1. \E g : g = [k \in 0..8 |->
            IF k = 0 THEN 0
            ELSE g[k - 1] + 2 ^ (k - 1) * ((Bit(a, k - 1) + Bit(b, k - 1)) % 2)]
  <2>1. PICK g : Lows(g, a, b)
    BY LowsExist
  <2>2. QED
    BY <2>1, Zenon DEF Lows
<1>2. f = [k \in 0..8 |->
            IF k = 0 THEN 0
            ELSE f[k - 1] + 2 ^ (k - 1) * ((Bit(a, k - 1) + Bit(b, k - 1)) % 2)]
  BY <1>1, Zenon
<1>3. Xor(a, b) = f[8]
  BY Zenon DEF Xor
<1> HIDE DEF f
<1>4. QED
  BY <1>2, <1>3, Zenon DEF Lows

\* The exclusive or of two bytes is the byte whose bits are those of one or the other.
LEMMA XorIs ==
    ASSUME NEW a \in Bytes, NEW b \in Bytes
    PROVE  Xor(a, b) \in Bytes /\ HasBits(Xor(a, b), XorBits(a, b))
<1>1. PICK g : Lows(g, a, b) /\ Xor(a, b) = g[8]
  BY XorIsLast
<1>2. PICK x : x = XorBits(a, b)
  OBVIOUS
<1>3. g = [k \in 0..8 |->
            IF k = 0 THEN 0
            ELSE g[k - 1] + 2 ^ (k - 1) * ((Bit(a, k - 1) + Bit(b, k - 1)) % 2)]
  BY <1>1, Zenon DEF Lows
<1>4. g[0] = 0
  <2>1. 0 \in 0..8
    OBVIOUS
  <2>2. g[0] = IF 0 = 0 THEN 0
               ELSE g[0 - 1] + 2 ^ (0 - 1) * ((Bit(a, 0 - 1) + Bit(b, 0 - 1)) % 2)
    BY <1>3, <2>1, Zenon
  <2>3. QED
    BY <2>2
<1>5. ASSUME NEW k \in 1..8 PROVE g[k] = g[k - 1] + 2 ^ (k - 1) * x[k - 1]
  <2>1. k \in 0..8 /\ k # 0
    OBVIOUS
  <2>2. g[k] = IF k = 0 THEN 0
               ELSE g[k - 1] + 2 ^ (k - 1) * ((Bit(a, k - 1) + Bit(b, k - 1)) % 2)
    BY <1>3, <2>1, Zenon
  <2>3. PICK j \in 0..7 : j = k - 1
    OBVIOUS
  <2>4. x[j] = (Bit(a, j) + Bit(b, j)) % 2
    BY <1>2, XorBitsType
  <2>5. QED
    BY <2>1, <2>2, <2>3, <2>4
<1>6. /\ g[1] = g[0] + 1 * x[0] /\ g[2] = g[1] + 2 * x[1]
      /\ g[3] = g[2] + 4 * x[2] /\ g[4] = g[3] + 8 * x[3]
      /\ g[5] = g[4] + 16 * x[4] /\ g[6] = g[5] + 32 * x[5]
      /\ g[7] = g[6] + 64 * x[6] /\ g[8] = g[7] + 128 * x[7]
  <2>1. g[1] = g[1 - 1] + 2 ^ (1 - 1) * x[1 - 1] /\ g[2] = g[2 - 1] + 2 ^ (2 - 1) * x[2 - 1]
    BY <1>5
  <2>2. g[3] = g[3 - 1] + 2 ^ (3 - 1) * x[3 - 1] /\ g[4] = g[4 - 1] + 2 ^ (4 - 1) * x[4 - 1]
    BY <1>5
  <2>3. g[5] = g[5 - 1] + 2 ^ (5 - 1) * x[5 - 1] /\ g[6] = g[6 - 1] + 2 ^ (6 - 1) * x[6 - 1]
    BY <1>5
  <2>4. g[7] = g[7 - 1] + 2 ^ (7 - 1) * x[7 - 1] /\ g[8] = g[8 - 1] + 2 ^ (8 - 1) * x[8 - 1]
    BY <1>5
  <2>5. /\ 1 - 1 = 0 /\ 2 - 1 = 1 /\ 3 - 1 = 2 /\ 4 - 1 = 3
        /\ 5 - 1 = 4 /\ 6 - 1 = 5 /\ 7 - 1 = 6 /\ 8 - 1 = 7
    OBVIOUS
  <2>6. QED
    BY <2>1, <2>2, <2>3, <2>4, <2>5, Weights
<1>7. \A k \in 0..7 : x[k] \in {0, 1}
  BY <1>2, XorBitsType
<1>8. /\ x[0] \in {0, 1} /\ x[1] \in {0, 1} /\ x[2] \in {0, 1} /\ x[3] \in {0, 1}
      /\ x[4] \in {0, 1} /\ x[5] \in {0, 1} /\ x[6] \in {0, 1} /\ x[7] \in {0, 1}
  BY <1>7
<1>9. PICK c \in {0, 1}, d \in {0, 1}, e \in {0, 1}, f \in {0, 1},
           p \in {0, 1}, q \in {0, 1}, r \in {0, 1}, s \in {0, 1} :
        /\ c = x[0] /\ d = x[1] /\ e = x[2] /\ f = x[3]
        /\ p = x[4] /\ q = x[5] /\ r = x[6] /\ s = x[7]
  BY <1>8
<1>10. g[8] = c + 2 * d + 4 * e + 8 * f + 16 * p + 32 * q + 64 * r + 128 * s
  <2>1. g[1] = c
    BY <1>4, <1>6, <1>9
  <2>2. g[2] = c + 2 * d
    BY <1>6, <1>9, <2>1
  <2>3. g[3] = c + 2 * d + 4 * e
    BY <1>6, <1>9, <2>2
  <2>4. g[4] = c + 2 * d + 4 * e + 8 * f
    BY <1>6, <1>9, <2>3
  <2>5. g[5] = c + 2 * d + 4 * e + 8 * f + 16 * p
    BY <1>6, <1>9, <2>4
  <2>6. g[6] = c + 2 * d + 4 * e + 8 * f + 16 * p + 32 * q
    BY <1>6, <1>9, <2>5
  <2>7. g[7] = c + 2 * d + 4 * e + 8 * f + 16 * p + 32 * q + 64 * r
    BY <1>6, <1>9, <2>6
  <2>8. QED
    BY <1>6, <1>9, <2>7
<1>11. g[8] \in Bytes
  <2>1. /\ c \in 0..1 /\ d \in 0..1 /\ e \in 0..1 /\ f \in 0..1
        /\ p \in 0..1 /\ q \in 0..1 /\ r \in 0..1 /\ s \in 0..1
    BY <1>9
  <2>2. PICK n \in Int : n = c + 2 * d + 4 * e + 8 * f + 16 * p + 32 * q + 64 * r + 128 * s
    BY <2>1
  <2>3. 0 <= n /\ n <= 255
    BY <2>1, <2>2
  <2>4. QED
    BY <1>10, <2>2, <2>3 DEF Bytes
<1>12. HasBits(g[8], x)
  BY <1>9, <1>10 DEF HasBits
<1>13. QED
  BY <1>1, <1>2, <1>11, <1>12

\* Exclusive ors with the same byte differ where the others do.
LEMMA XorApart ==
    ASSUME NEW a \in Bytes, NEW b \in Bytes, NEW c \in Bytes, b # c
    PROVE  Xor(a, b) # Xor(a, c) /\ Xor(b, a) # Xor(c, a)
<1>1. ASSUME NEW x, NEW y, \A k \in 0..7 : x[k] \in {0, 1} /\ y[k] \in {0, 1},
             NEW n, HasBits(n, x), HasBits(n, y),
             \A k \in 0..7 : /\ x[k] = (Bit(a, k) + Bit(b, k)) % 2
                             /\ y[k] = (Bit(a, k) + Bit(c, k)) % 2
      PROVE  FALSE
  <2>1. \A k \in 0..7 : x[k] = y[k]
    BY <1>1, SameBits
  <2>2. ASSUME NEW k \in 0..7 PROVE Bit(b, k) = Bit(c, k)
    <3>1. PICK u \in {0, 1}, v \in {0, 1}, w \in {0, 1} :
              u = Bit(a, k) /\ v = Bit(b, k) /\ w = Bit(c, k)
      BY BitsOfByte
    <3>2. (u + v) % 2 = (u + w) % 2
      BY <1>1, <2>1, <3>1
    <3>3. v = w
      BY <3>1, <3>2
    <3>4. QED
      BY <3>1, <3>3
  <2>3. [k \in 0..7 |-> Bit(b, k)] = [k \in 0..7 |-> Bit(c, k)]
    BY <2>2
  <2>4. HasBits(b, [k \in 0..7 |-> Bit(b, k)]) /\ HasBits(c, [k \in 0..7 |-> Bit(c, k)])
    BY BitsOfByte
  <2>5. b = c
    BY <2>3, <2>4, Zenon DEF HasBits
  <2>6. QED
    BY <2>5
<1>2. Xor(a, b) # Xor(a, c)
  <2>1. \A k \in 0..7 : /\ XorBits(a, b)[k] \in {0, 1} /\ XorBits(a, c)[k] \in {0, 1}
                        /\ XorBits(a, b)[k] = (Bit(a, k) + Bit(b, k)) % 2
                        /\ XorBits(a, c)[k] = (Bit(a, k) + Bit(c, k)) % 2
    BY XorBitsType
  <2>2. SUFFICES ASSUME Xor(a, b) = Xor(a, c) PROVE FALSE
    OBVIOUS
  <2>3. HasBits(Xor(a, b), XorBits(a, b)) /\ HasBits(Xor(a, b), XorBits(a, c))
    BY <2>2, XorIs
  <2>4. QED
    BY <1>1, <2>1, <2>3
<1>3. Xor(b, a) # Xor(c, a)
  <2>1. ASSUME NEW k \in 0..7
        PROVE  /\ XorBits(b, a)[k] \in {0, 1} /\ XorBits(c, a)[k] \in {0, 1}
               /\ XorBits(b, a)[k] = (Bit(a, k) + Bit(b, k)) % 2
               /\ XorBits(c, a)[k] = (Bit(a, k) + Bit(c, k)) % 2
    <3>1. /\ XorBits(b, a)[k] = (Bit(b, k) + Bit(a, k)) % 2
          /\ XorBits(c, a)[k] = (Bit(c, k) + Bit(a, k)) % 2
          /\ XorBits(b, a)[k] \in {0, 1} /\ XorBits(c, a)[k] \in {0, 1}
      BY XorBitsType
    <3>2. Bit(a, k) \in {0, 1} /\ Bit(b, k) \in {0, 1} /\ Bit(c, k) \in {0, 1}
      BY BitsOfByte
    <3>3. Bit(b, k) + Bit(a, k) = Bit(a, k) + Bit(b, k) /\ Bit(c, k) + Bit(a, k) = Bit(a, k) + Bit(c, k)
      BY <3>2
    <3>4. QED
      BY <3>1, <3>3
  <2>2. SUFFICES ASSUME Xor(b, a) = Xor(c, a) PROVE FALSE
    OBVIOUS
  <2>3. HasBits(Xor(b, a), XorBits(b, a)) /\ HasBits(Xor(b, a), XorBits(c, a))
    BY <2>2, XorIs
  <2>4. QED
    BY <1>1, <2>1, <2>3
<1>4. QED
  BY <1>2, <1>3

-----------------------------------------------------------------------------
(* The table of the CRC-8 has every byte once.                              *)

\* The polynomial is odd, so reducing an even number by it gives an odd one.
LEMMA ReducedIsOdd ==
    ASSUME NEW a \in Bytes, a % 2 = 0
    PROVE  Xor(a, 7) \in Bytes /\ Xor(a, 7) % 2 = 1
<1>1. 7 \in Bytes
  BY DEF Bytes
<1>2. PICK x : x = XorBits(a, 7)
  OBVIOUS
<1>3. Xor(a, 7) \in Bytes /\ HasBits(Xor(a, 7), x)
  BY <1>1, <1>2, XorIs
<1>4. x[0] = 1
  <2>1. x[0] = (Bit(a, 0) + Bit(7, 0)) % 2
    BY <1>1, <1>2, XorBitsType
  <2>2. Bit(a, 0) = (a \div 1) % 2 /\ Bit(7, 0) = (7 \div 1) % 2
    BY Weights DEF Bit
  <2>3. a \div 1 = a
    BY DEF Bytes
  <2>4. Bit(a, 0) = 0 /\ Bit(7, 0) = 1
    BY <2>2, <2>3
  <2>5. QED
    BY <2>1, <2>4
<1>5. \A k \in 0..7 : x[k] \in {0, 1}
  BY <1>1, <1>2, XorBitsType
<1>6. /\ x[1] \in {0, 1} /\ x[2] \in {0, 1} /\ x[3] \in {0, 1}
      /\ x[4] \in {0, 1} /\ x[5] \in {0, 1} /\ x[6] \in {0, 1} /\ x[7] \in {0, 1}
  BY <1>5
<1>7. PICK d \in 0..1, e \in 0..1, f \in 0..1,
           p \in 0..1, q \in 0..1, r \in 0..1, s \in 0..1 :
        /\ d = x[1] /\ e = x[2] /\ f = x[3]
        /\ p = x[4] /\ q = x[5] /\ r = x[6] /\ s = x[7]
  BY <1>6
<1>8. Xor(a, 7) = 1 + 2 * d + 4 * e + 8 * f + 16 * p + 32 * q + 64 * r + 128 * s
  BY <1>3, <1>4, <1>7 DEF HasBits
<1>9. PICK h \in Int : h = d + 2 * e + 4 * f + 8 * p + 16 * q + 32 * r + 64 * s
  OBVIOUS
<1>10. 1 + 2 * d + 4 * e + 8 * f + 16 * p + 32 * q + 64 * r + 128 * s = 2 * h + 1
  BY <1>9
<1>11. (2 * h + 1) % 2 = 1
  BY <1>9
<1>12. QED
  BY <1>3, <1>8, <1>10, <1>11

\* A shift of a byte is a byte.
LEMMA ShiftType == ASSUME NEW c \in Bytes PROVE Shift(c) \in Bytes
<1>1. CASE c >= 128
  <2>1. PICK d : d = (2 * c) % 256
    OBVIOUS
  <2>2. d \in Bytes /\ d % 2 = 0
    BY <2>1, <1>1 DEF Bytes
  <2>3. Shift(c) = Xor(d, 7)
    BY <1>1, <2>1 DEF Shift
  <2>4. QED
    BY <2>2, <2>3, ReducedIsOdd
<1>2. CASE ~(c >= 128)
  BY <1>2 DEF Shift, Bytes
<1>3. QED
  BY <1>1, <1>2

\* Shifts of different bytes differ: those with a high bit become odd, others even.
LEMMA ShiftApart ==
    ASSUME NEW b \in Bytes, NEW c \in Bytes, b # c
    PROVE  Shift(b) # Shift(c)
<1>1. ASSUME NEW x \in Bytes, x >= 128
      PROVE  Shift(x) = Xor(2 * x - 256, 7) /\ 2 * x - 256 \in Bytes /\ Shift(x) % 2 = 1
  <2>1. PICK d : d = 2 * x - 256
    OBVIOUS
  <2>2. d \in Bytes /\ d % 2 = 0 /\ (2 * x) % 256 = d
    BY <2>1, <1>1 DEF Bytes
  <2>3. Shift(x) = Xor(d, 7)
    BY <1>1, <2>2 DEF Shift
  <2>4. Shift(x) % 2 = 1
    BY <2>2, <2>3, ReducedIsOdd
  <2>5. QED
    BY <2>1, <2>2, <2>3, <2>4
<1>2. ASSUME NEW x \in Bytes, ~(x >= 128) PROVE Shift(x) = 2 * x /\ Shift(x) % 2 = 0
  <2>1. Shift(x) = 2 * x
    BY <1>2 DEF Shift
  <2>2. (2 * x) % 2 = 0
    BY DEF Bytes
  <2>3. QED
    BY <2>1, <2>2
<1>3. CASE b >= 128 /\ c >= 128
  <2>1. 7 \in Bytes /\ 2 * b - 256 # 2 * c - 256
    BY DEF Bytes
  <2>2. 2 * b - 256 \in Bytes /\ 2 * c - 256 \in Bytes
    BY <1>1, <1>3
  <2>3. Xor(2 * b - 256, 7) # Xor(2 * c - 256, 7)
    BY <2>1, <2>2, XorApart
  <2>4. QED
    BY <1>1, <1>3, <2>3
<1>4. CASE ~(b >= 128) /\ ~(c >= 128)
  <2>1. Shift(b) = 2 * b /\ Shift(c) = 2 * c
    BY <1>2, <1>4
  <2>2. QED
    BY <2>1 DEF Bytes
<1>5. CASE b >= 128 /\ ~(c >= 128)
  <2>1. Shift(b) % 2 = 1 /\ Shift(c) % 2 = 0
    BY <1>1, <1>2, <1>5
  <2>2. QED
    BY <2>1
<1>6. CASE ~(b >= 128) /\ c >= 128
  <2>1. Shift(b) % 2 = 0 /\ Shift(c) % 2 = 1
    BY <1>1, <1>2, <1>6
  <2>2. QED
    BY <2>1
<1>7. QED
  BY <1>3, <1>4, <1>5, <1>6

\* The recursive function of Entry.
Shifts(g, i) == g = [k \in 0..8 |-> IF k = 0 THEN i ELSE Shift(g[k - 1])]

\* There is one.
LEMMA ShiftsExist == ASSUME NEW i \in Bytes PROVE \E g : Shifts(g, i)
<1>1. PICK turn : turn = [x \in Nat \X Bytes |-> Shift(x[2])]
  OBVIOUS
<1>2. turn \in [Nat \X Bytes -> Bytes]
  BY <1>1, ShiftType
<1>3. PICK g \in [0..8 -> Bytes] : Builds(g, i, turn, 8)
  BY <1>2, BuildExists
<1>4. \A k \in 0..8 : g[k] = IF k = 0 THEN i ELSE Shift(g[k - 1])
  <2>1. TAKE k \in 0..8
  <2>2. CASE k = 0
    BY <2>2, <1>3 DEF Builds
  <2>3. CASE k # 0
    <3>1. k \in 1..8 /\ k - 1 \in 0..8
      BY <2>3
    <3>2. g[k] = turn[<<k, g[k - 1]>>]
      BY <3>1, <1>3 DEF Builds
    <3>3. <<k, g[k - 1]>> \in Nat \X Bytes
      BY <3>1, <1>3
    <3>4. turn[<<k, g[k - 1]>>] = Shift(g[k - 1])
      BY <1>1, <3>3
    <3>5. QED
      BY <2>3, <3>2, <3>4
  <2>4. QED
    BY <2>2, <2>3
<1>5. g = [k \in 0..8 |-> g[k]]
  BY <1>3
<1>6. QED
  BY <1>4, <1>5 DEF Shifts

\* An entry is what eight shifts make of its place.
LEMMA EntryIs ==
    ASSUME NEW i \in Bytes
    PROVE  Entry(i) = Shift(Shift(Shift(Shift(Shift(Shift(Shift(Shift(i))))))))
<1> DEFINE f == CHOOSE c : c = [k \in 0..8 |-> IF k = 0 THEN i ELSE Shift(c[k - 1])]
<1>1. \E g : g = [k \in 0..8 |-> IF k = 0 THEN i ELSE Shift(g[k - 1])]
  <2>1. PICK g : Shifts(g, i)
    BY ShiftsExist
  <2>2. QED
    BY <2>1, Zenon DEF Shifts
<1>2. f = [k \in 0..8 |-> IF k = 0 THEN i ELSE Shift(f[k - 1])]
  BY <1>1, Zenon
<1>3. Entry(i) = f[8]
  BY Zenon DEF Entry
<1> HIDE DEF f
<1>4. ASSUME NEW k \in 0..8 PROVE f[k] = IF k = 0 THEN i ELSE Shift(f[k - 1])
  BY <1>2, Zenon
<1>5. f[0] = i
  <2>1. 0 \in 0..8
    OBVIOUS
  <2>2. f[0] = IF 0 = 0 THEN i ELSE Shift(f[0 - 1])
    BY <2>1, <1>4, Zenon
  <2>3. QED
    BY <2>2
<1>6. ASSUME NEW k \in 0..7 PROVE f[k + 1] = Shift(f[k])
  <2>1. k + 1 \in 0..8 /\ k + 1 # 0 /\ (k + 1) - 1 = k
    OBVIOUS
  <2>2. f[k + 1] = IF k + 1 = 0 THEN i ELSE Shift(f[(k + 1) - 1])
    BY <2>1, <1>4, Zenon
  <2>3. QED
    BY <2>1, <2>2
<1>7. /\ f[0 + 1] = Shift(f[0]) /\ f[1 + 1] = Shift(f[1]) /\ f[2 + 1] = Shift(f[2])
      /\ f[3 + 1] = Shift(f[3]) /\ f[4 + 1] = Shift(f[4]) /\ f[5 + 1] = Shift(f[5])
      /\ f[6 + 1] = Shift(f[6]) /\ f[7 + 1] = Shift(f[7])
  BY <1>6
<1>8. /\ f[1] = Shift(f[0]) /\ f[2] = Shift(f[1]) /\ f[3] = Shift(f[2]) /\ f[4] = Shift(f[3])
      /\ f[5] = Shift(f[4]) /\ f[6] = Shift(f[5]) /\ f[7] = Shift(f[6]) /\ f[8] = Shift(f[7])
  BY <1>7
<1>9. QED
  BY <1>3, <1>5, <1>8, Zenon

\* Entries are bytes, and no two places have the same.
LEMMA EntryApart ==
    /\ \A i \in Bytes : Entry(i) \in Bytes
    /\ \A i, j \in Bytes : i # j => Entry(i) # Entry(j)
<1>1. ASSUME NEW i \in Bytes PROVE Entry(i) \in Bytes
  <2>1. Shift(Shift(i)) \in Bytes
    BY ShiftType
  <2>2. Shift(Shift(Shift(Shift(i)))) \in Bytes
    BY <2>1, ShiftType
  <2>3. Shift(Shift(Shift(Shift(Shift(Shift(i)))))) \in Bytes
    BY <2>2, ShiftType
  <2>4. QED
    BY <2>3, ShiftType, EntryIs
<1>2. ASSUME NEW i \in Bytes, NEW j \in Bytes, i # j PROVE Entry(i) # Entry(j)
  <2>1. ASSUME NEW x \in Bytes, NEW y \in Bytes, x # y
        PROVE  /\ Shift(Shift(x)) \in Bytes /\ Shift(Shift(y)) \in Bytes
               /\ Shift(Shift(x)) # Shift(Shift(y))
    <3>1. Shift(x) \in Bytes /\ Shift(y) \in Bytes /\ Shift(x) # Shift(y)
      BY <2>1, ShiftType, ShiftApart
    <3>2. QED
      BY <3>1, ShiftType, ShiftApart
  <2>2. PICK a \in Bytes, b \in Bytes : a = Shift(Shift(i)) /\ b = Shift(Shift(j)) /\ a # b
    BY <1>2, <2>1
  <2>3. PICK c \in Bytes, d \in Bytes : c = Shift(Shift(a)) /\ d = Shift(Shift(b)) /\ c # d
    BY <2>1, <2>2
  <2>4. PICK e \in Bytes, f \in Bytes : e = Shift(Shift(c)) /\ f = Shift(Shift(d)) /\ e # f
    BY <2>1, <2>3
  <2>5. Shift(Shift(e)) # Shift(Shift(f))
    BY <2>1, <2>4
  <2>6. Entry(i) = Shift(Shift(e)) /\ Entry(j) = Shift(Shift(f))
    BY <2>2, <2>3, <2>4, EntryIs
  <2>7. QED
    BY <2>5, <2>6
<1>3. QED
  BY <1>1, <1>2

\* A step of the checksum gives a byte, and different ones from different bytes.
LEMMA UpdateApart ==
    /\ \A a, b \in Bytes : Update8(a, b) \in Bytes
    /\ \A a, b, c \in Bytes : b # c => Update8(a, b) # Update8(a, c) /\ Update8(b, a) # Update8(c, a)
<1>1. ASSUME NEW a \in Bytes, NEW b \in Bytes
      PROVE  Xor(a, b) \in Bytes /\ Update8(a, b) = Entry(Xor(a, b))
  <2>1. Xor(a, b) \in Bytes
    BY XorIs
  <2>2. PICK x : x = Xor(a, b)
    OBVIOUS
  <2>3. x \in 0..255
    BY <2>1, <2>2 DEF Bytes
  <2>4. table8[x] = Entry(x)
    BY <2>3 DEF table8
  <2>5. QED
    BY <2>1, <2>2, <2>4 DEF Update8
<1>2. ASSUME NEW a \in Bytes, NEW b \in Bytes PROVE Update8(a, b) \in Bytes
  BY <1>1, EntryApart
<1>3. ASSUME NEW a \in Bytes, NEW b \in Bytes, NEW c \in Bytes, b # c
      PROVE  Update8(a, b) # Update8(a, c) /\ Update8(b, a) # Update8(c, a)
  <2>1. Xor(a, b) # Xor(a, c) /\ Xor(b, a) # Xor(c, a)
    BY <1>3, XorApart
  <2>2. Entry(Xor(a, b)) # Entry(Xor(a, c)) /\ Entry(Xor(b, a)) # Entry(Xor(c, a))
    BY <1>1, <2>1, EntryApart
  <2>3. QED
    BY <1>1, <2>2
<1>4. QED
  BY <1>2, <1>3

-----------------------------------------------------------------------------
(* The checksum of a sequence of bytes.                                     *)

\* The recursive function of Checksum8.
Crcs(g, q) == g = [i \in 0..Len(q) |-> IF i = 0 THEN 0 ELSE Update8(g[i - 1], q[i])]

\* There is one.
LEMMA CrcsExist == ASSUME NEW q \in Seq(Bytes) PROVE \E g \in [0..Len(q) -> Bytes] : Crcs(g, q)
<1>1. PICK n \in Nat : n = Len(q)
  OBVIOUS
<1>2. PICK turn : turn = [x \in Nat \X Bytes |-> IF x[1] \in 1..n THEN Update8(x[2], q[x[1]]) ELSE 0]
  OBVIOUS
<1>3. 0 \in Bytes
  BY DEF Bytes
<1>4. turn \in [Nat \X Bytes -> Bytes]
  <2>1. ASSUME NEW x \in Nat \X Bytes
        PROVE  (IF x[1] \in 1..n THEN Update8(x[2], q[x[1]]) ELSE 0) \in Bytes
    <3>1. x[2] \in Bytes
      OBVIOUS
    <3>2. x[1] \in 1..n => q[x[1]] \in Bytes
      BY <1>1
    <3>3. QED
      BY <1>3, <3>1, <3>2, UpdateApart
  <2>2. QED
    BY <1>2, <2>1
<1>5. PICK g \in [0..n -> Bytes] : Builds(g, 0, turn, n)
  BY <1>3, <1>4, BuildExists
<1>6. \A i \in 0..n : g[i] = IF i = 0 THEN 0 ELSE Update8(g[i - 1], q[i])
  <2>1. TAKE i \in 0..n
  <2>2. CASE i = 0
    BY <2>2, <1>5 DEF Builds
  <2>3. CASE i # 0
    <3>1. i \in 1..n /\ i - 1 \in 0..n
      BY <2>3
    <3>2. g[i] = turn[<<i, g[i - 1]>>]
      BY <3>1, <1>5 DEF Builds
    <3>3. <<i, g[i - 1]>> \in Nat \X Bytes
      BY <3>1, <1>5
    <3>4. turn[<<i, g[i - 1]>>] = Update8(g[i - 1], q[i])
      BY <1>2, <3>1, <3>3
    <3>5. QED
      BY <2>3, <3>2, <3>4
  <2>4. QED
    BY <2>2, <2>3
<1>7. g = [i \in 0..n |-> g[i]]
  BY <1>5
<1>8. Crcs(g, q)
  BY <1>1, <1>6, <1>7 DEF Crcs
<1>9. QED
  BY <1>1, <1>5, <1>8

\* It starts with 0 and folds in one byte after the other.
CrcSteps(g, q) ==
    /\ g[0] = 0
    /\ \A i \in 1..Len(q) : g[i] = Update8(g[i - 1], q[i])
    /\ \A i \in 0..Len(q) : g[i] \in Bytes

\* The checksum is its last value.
LEMMA ChecksumIs ==
    ASSUME NEW q \in Seq(Bytes)
    PROVE  \E g : CrcSteps(g, q) /\ Checksum8(q) = g[Len(q)]
<1> DEFINE f == CHOOSE crc : crc =
        [i \in 0..Len(q) |-> IF i = 0 THEN 0 ELSE Update8(crc[i - 1], q[i])]
<1>1. \E g : g = [i \in 0..Len(q) |-> IF i = 0 THEN 0 ELSE Update8(g[i - 1], q[i])]
  <2>1. PICK g : Crcs(g, q)
    BY CrcsExist
  <2>2. QED
    BY <2>1, Zenon DEF Crcs
<1>2. f = [i \in 0..Len(q) |-> IF i = 0 THEN 0 ELSE Update8(f[i - 1], q[i])]
  BY <1>1, Zenon
<1>3. Checksum8(q) = f[Len(q)]
  BY Zenon DEF Checksum8
<1> HIDE DEF f
<1>4. PICK n \in Nat : n = Len(q)
  OBVIOUS
<1>5. ASSUME NEW i \in 0..n PROVE f[i] = IF i = 0 THEN 0 ELSE Update8(f[i - 1], q[i])
  BY <1>2, <1>4, Zenon
<1>6. f[0] = 0
  <2>1. 0 \in 0..n
    OBVIOUS
  <2>2. f[0] = IF 0 = 0 THEN 0 ELSE Update8(f[0 - 1], q[0])
    BY <2>1, <1>5, Zenon
  <2>3. QED
    BY <2>2
<1>7. ASSUME NEW i \in 1..n PROVE f[i] = Update8(f[i - 1], q[i])
  <2>1. i \in 0..n /\ i # 0
    OBVIOUS
  <2>2. f[i] = IF i = 0 THEN 0 ELSE Update8(f[i - 1], q[i])
    BY <2>1, <1>5, Zenon
  <2>3. QED
    BY <2>1, <2>2
<1>8. \A i \in 0..n : f[i] \in Bytes
  <2> DEFINE T == {k \in Nat : k <= n => f[k] \in Bytes}
  <2>1. 0 \in T
    BY <1>6 DEF Bytes
  <2>2. ASSUME NEW k \in Nat, k \in T PROVE k + 1 \in T
    <3>1. CASE k + 1 <= n
      <4>1. k + 1 \in 1..n /\ (k + 1) - 1 = k /\ f[k] \in Bytes
        BY <3>1, <2>2
      <4>2. q[k + 1] \in Bytes
        BY <1>4, <4>1
      <4>3. f[k + 1] = Update8(f[k], q[k + 1])
        BY <1>7, <4>1
      <4>4. f[k + 1] \in Bytes
        BY <4>1, <4>2, <4>3, UpdateApart
      <4>5. QED
        BY <4>4
    <3>2. CASE ~(k + 1 <= n)
      BY <3>2
    <3>3. QED
      BY <3>1, <3>2
  <2>3. Nat \subseteq T
    BY <2>1, <2>2, NatInd
  <2>4. QED
    BY <2>3
<1>9. CrcSteps(f, q)
  BY <1>4, <1>6, <1>7, <1>8 DEF CrcSteps
<1>10. QED
  BY <1>3, <1>9

\* The checksum of bytes is a byte.
LEMMA ChecksumType == ASSUME NEW q \in Seq(Bytes) PROVE Checksum8(q) \in Bytes
<1>1. PICK g : CrcSteps(g, q) /\ Checksum8(q) = g[Len(q)]
  BY ChecksumIs
<1>2. Len(q) \in 0..Len(q)
  OBVIOUS
<1>3. QED
  BY <1>1, <1>2 DEF CrcSteps

\* u is q with another byte at place i.
Altered(u, q, i) ==
    /\ Len(u) = Len(q) /\ i \in 1..Len(q)
    /\ \A j \in 1..Len(q) : u[j] = q[j] <=> j # i

\* Bytes of which one has been altered have another checksum: what is in the register is the
\* same before that byte, and differs ever after.
LEMMA ChecksumApart ==
    ASSUME NEW q \in Seq(Bytes), NEW u \in Seq(Bytes), NEW i, Altered(u, q, i)
    PROVE  Checksum8(u) # Checksum8(q)
<1>1. PICK n \in Nat : n = Len(q) /\ n = Len(u)
  BY DEF Altered
<1>2. i \in 1..n /\ \A j \in 1..n : u[j] = q[j] <=> j # i
  BY <1>1 DEF Altered
<1>3. PICK g : CrcSteps(g, q) /\ Checksum8(q) = g[n]
  BY <1>1, ChecksumIs
<1>4. PICK h : CrcSteps(h, u) /\ Checksum8(u) = h[n]
  BY <1>1, ChecksumIs
<1>5. /\ g[0] = 0 /\ h[0] = 0
      /\ \A k \in 1..n : g[k] = Update8(g[k - 1], q[k]) /\ h[k] = Update8(h[k - 1], u[k])
      /\ \A k \in 0..n : g[k] \in Bytes /\ h[k] \in Bytes
  BY <1>1, <1>3, <1>4 DEF CrcSteps
<1> DEFINE T == {k \in Nat : k <= n => (g[k] = h[k] <=> k < i)}
<1>6. 0 \in T
  BY <1>2, <1>5
<1>7. ASSUME NEW k \in Nat, k \in T PROVE k + 1 \in T
  <2>1. SUFFICES ASSUME k + 1 <= n PROVE g[k + 1] = h[k + 1] <=> k + 1 < i
    OBVIOUS
  <2>2. k \in 0..n /\ k + 1 \in 1..n /\ (k + 1) - 1 = k
    BY <2>1
  <2>3. g[k] = h[k] <=> k < i
    BY <1>7, <2>1
  <2>4. g[k + 1] = Update8(g[k], q[k + 1]) /\ h[k + 1] = Update8(h[k], u[k + 1])
    BY <1>5, <2>2
  <2>5. g[k] \in Bytes /\ h[k] \in Bytes /\ q[k + 1] \in Bytes /\ u[k + 1] \in Bytes
    <3>1. g[k] \in Bytes /\ h[k] \in Bytes
      BY <1>5, <2>2
    <3>2. k + 1 \in 1..Len(q) /\ k + 1 \in 1..Len(u)
      BY <1>1, <2>2
    <3>3. q[k + 1] \in Bytes /\ u[k + 1] \in Bytes
      BY <3>2
    <3>4. QED
      BY <3>1, <3>3
  <2>6. u[k + 1] = q[k + 1] <=> k + 1 # i
    BY <1>2, <2>2
  <2>7. CASE k + 1 < i
    <3>1. g[k] = h[k] /\ u[k + 1] = q[k + 1]
      BY <1>2, <2>3, <2>6, <2>7
    <3>2. QED
      BY <2>4, <2>7, <3>1
  <2>8. CASE k + 1 = i
    <3>1. g[k] = h[k] /\ u[k + 1] # q[k + 1]
      BY <2>3, <2>6, <2>8
    <3>2. g[k + 1] # h[k + 1]
      BY <2>4, <2>5, <3>1, UpdateApart
    <3>3. ~(k + 1 < i)
      BY <2>8
    <3>4. QED
      BY <3>2, <3>3
  <2>9. CASE k + 1 > i
    <3>1. g[k] # h[k] /\ u[k + 1] = q[k + 1]
      BY <1>2, <2>3, <2>6, <2>9
    <3>2. g[k + 1] # h[k + 1]
      BY <2>4, <2>5, <3>1, UpdateApart
    <3>3. ~(k + 1 < i)
      BY <1>2, <2>9
    <3>4. QED
      BY <3>2, <3>3
  <2>10. QED
    BY <1>2, <2>7, <2>8, <2>9
<1>8. Nat \subseteq T
  BY <1>6, <1>7, NatInd
<1>9. n \in T
  BY <1>8
<1>10. g[n] # h[n]
  BY <1>2, <1>9
<1>11. QED
  BY <1>3, <1>4, <1>10

-----------------------------------------------------------------------------
(* The codes of a header: what each of them says of the value it is for.    *)

\* Doubling gives the sizes that have codes, and none of them twice.
LEMMA Sizes ==
    /\ Doubled(576, 0) = 576 /\ Doubled(576, 1) = 1152 /\ Doubled(576, 2) = 2304
    /\ Doubled(576, 3) = 4608
    /\ Doubled(256, 0) = 256 /\ Doubled(256, 1) = 512 /\ Doubled(256, 2) = 1024
    /\ Doubled(256, 3) = 2048 /\ Doubled(256, 4) = 4096 /\ Doubled(256, 5) = 8192
    /\ Doubled(256, 6) = 16384 /\ Doubled(256, 7) = 32768
BY DEF Doubled

\* Code c, with its extension, stands for a block of n samples.
SizeCodeFor(c, n) ==
    \/ c.code = 1 /\ c.bytes = 0 /\ n = 192
    \/ \E k \in 0..3 : c.code = 2 + k /\ c.bytes = 0 /\ n = Doubled(576, k)
    \/ \E k \in 0..7 : c.code = 8 + k /\ c.bytes = 0 /\ n = Doubled(256, k)
    \/ c.code = 6 /\ c.bytes = 1 /\ c.value = n - 1 /\ c.value <= 255
    \/ c.code = 7 /\ c.bytes = 2 /\ c.value = n - 1 /\ c.value <= 65535

\* The code of a block size stands for it.
LEMMA SizeCodes ==
    ASSUME NEW n \in Nat, 1 <= n, n <= MaxBlockSize
    PROVE  SizeCodeFor(BlockSizeCode(n), n)
<1>1. ASSUME NEW k \in 0..3, n = Doubled(576, k)
      PROVE  n \in {576, 1152, 2304, 4608}
  <2>1. k = 0 \/ k = 1 \/ k = 2 \/ k = 3
    OBVIOUS
  <2>2. QED
    BY <1>1, <2>1, Sizes
<1>2. ASSUME NEW k \in 0..7, n = Doubled(256, k)
      PROVE  n \in {256, 512, 1024, 2048, 4096, 8192, 16384, 32768}
  <2>1. k = 0 \/ k = 1 \/ k = 2 \/ k = 3 \/ k = 4 \/ k = 5 \/ k = 6 \/ k = 7
    OBVIOUS
  <2>2. QED
    BY <1>2, <2>1, Sizes
<1>3. PICK c : c = BlockSizeCode(n)
  OBVIOUS
<1>4. CASE n = 192
  <2>1. ~ (\E k \in 0..3 : n = Doubled(576, k)) /\ ~ (\E k \in 0..7 : n = Doubled(256, k))
    BY <1>1, <1>2, <1>4
  <2>2. c = Code(1, 0, 0)
    BY <1>3, <1>4, <2>1 DEF BlockSizeCode
  <2>3. c.code = 1 /\ c.bytes = 0
    BY <2>2 DEF Code
  <2>4. SizeCodeFor(c, n)
    BY <1>4, <2>3 DEF SizeCodeFor
  <2>5. QED
    BY <1>3, <2>4
<1>5. CASE \E k \in 0..3 : n = Doubled(576, k)
  <2>1. PICK j : j = (CHOOSE k \in 0..3 : n = Doubled(576, k))
    OBVIOUS
  <2>2. j \in 0..3 /\ n = Doubled(576, j)
    BY <1>5, <2>1
  <2>3. n \in {576, 1152, 2304, 4608}
    BY <1>1, <2>2
  <2>4. n # 192 /\ ~ (\E k \in 0..7 : n = Doubled(256, k))
    BY <1>2, <2>3
  <2>5. c = Code(2 + j, 0, 0)
    BY <1>3, <1>5, <2>1, <2>4 DEF BlockSizeCode
  <2>6. c.code = 2 + j /\ c.bytes = 0
    BY <2>5 DEF Code
  <2>7. SizeCodeFor(c, n)
    BY <2>2, <2>6 DEF SizeCodeFor
  <2>8. QED
    BY <1>3, <2>7
<1>6. CASE n # 192 /\ ~ (\E k \in 0..3 : n = Doubled(576, k)) /\ \E k \in 0..7 : n = Doubled(256, k)
  <2>1. PICK j : j = (CHOOSE k \in 0..7 : n = Doubled(256, k))
    OBVIOUS
  <2>2. j \in 0..7 /\ n = Doubled(256, j)
    BY <1>6, <2>1
  <2>3. c = Code(8 + j, 0, 0)
    BY <1>3, <1>6, <2>1 DEF BlockSizeCode
  <2>4. c.code = 8 + j /\ c.bytes = 0
    BY <2>3 DEF Code
  <2>5. SizeCodeFor(c, n)
    BY <2>2, <2>4 DEF SizeCodeFor
  <2>6. QED
    BY <1>3, <2>5
<1>7. CASE /\ n # 192
           /\ ~ (\E k \in 0..3 : n = Doubled(576, k)) /\ ~ (\E k \in 0..7 : n = Doubled(256, k))
  <2>1. c = IF n - 1 <= 255 THEN Code(6, 1, n - 1) ELSE Code(7, 2, n - 1)
    BY <1>3, <1>7 DEF BlockSizeCode
  <2>2. CASE n - 1 <= 255
    <3>1. c.code = 6 /\ c.bytes = 1 /\ c.value = n - 1
      BY <2>1, <2>2 DEF Code
    <3>2. SizeCodeFor(c, n)
      BY <2>2, <3>1 DEF SizeCodeFor
    <3>3. QED
      BY <1>3, <3>2
  <2>3. CASE ~(n - 1 <= 255)
    <3>1. c.code = 7 /\ c.bytes = 2 /\ c.value = n - 1
      BY <2>1, <2>3 DEF Code
    <3>2. n - 1 <= 65535
      BY DEF MaxBlockSize
    <3>3. SizeCodeFor(c, n)
      BY <3>1, <3>2 DEF SizeCodeFor
    <3>4. QED
      BY <1>3, <3>3
  <2>4. QED
    BY <2>2, <2>3
<1>8. QED
  BY <1>4, <1>5, <1>6, <1>7

\* Code c, with its extension, stands for a rate of sr, or leaves it to STREAMINFO.
RateCodeFor(c, sr) ==
    \/ c.code = 0 /\ c.bytes = 0
    \/ c.code \in 1..11 /\ c.bytes = 0 /\ Rates[c.code] = sr
    \/ c.code = 12 /\ c.bytes = 1 /\ c.value \in Nat /\ c.value <= 255 /\ sr = c.value * 1000
    \/ c.code = 13 /\ c.bytes = 2 /\ c.value \in Nat /\ c.value <= 65535 /\ sr = c.value
    \/ c.code = 14 /\ c.bytes = 2 /\ c.value \in Nat /\ c.value <= 65535 /\ sr = c.value * 10

\* The code of a rate does.
LEMMA RateCodes ==
    ASSUME NEW sr \in Nat
    PROVE  RateCodeFor(SampleRateCode(sr), sr)
<1>1. DOMAIN Rates = 1..11
  BY DEF Rates
<1>2. PICK c : c = SampleRateCode(sr)
  OBVIOUS
<1>3. CASE \E i \in DOMAIN Rates : Rates[i] = sr
  <2>1. PICK j : j = (CHOOSE i \in DOMAIN Rates : Rates[i] = sr)
    OBVIOUS
  <2>2. j \in DOMAIN Rates /\ Rates[j] = sr
    BY <1>3, <2>1
  <2>3. c = Code(j, 0, 0)
    BY <1>2, <1>3, <2>1 DEF SampleRateCode
  <2>4. c.code = j /\ c.bytes = 0
    BY <2>3 DEF Code
  <2>5. RateCodeFor(c, sr)
    BY <1>1, <2>2, <2>4 DEF RateCodeFor
  <2>6. QED
    BY <1>2, <2>5
<1>4. CASE ~ \E i \in DOMAIN Rates : Rates[i] = sr
  <2>1. c = IF sr % 1000 = 0 /\ sr \div 1000 <= 255 THEN Code(12, 1, sr \div 1000)
            ELSE IF sr <= 65535 THEN Code(13, 2, sr)
            ELSE IF sr % 10 = 0 /\ sr \div 10 <= 65535 THEN Code(14, 2, sr \div 10)
            ELSE Code(0, 0, 0)
    BY <1>2, <1>4 DEF SampleRateCode
  <2>2. /\ sr % 1000 = 0 => sr = (sr \div 1000) * 1000
        /\ sr % 10 = 0 => sr = (sr \div 10) * 10
        /\ sr \div 1000 \in Nat /\ sr \div 10 \in Nat
    OBVIOUS
  <2>3. PICK q \in Nat, t \in Nat : q = sr \div 1000 /\ t = sr \div 10
    BY <2>2
  <2>4. CASE sr % 1000 = 0 /\ q <= 255
    <3>1. c.code = 12 /\ c.bytes = 1 /\ c.value = q /\ sr = q * 1000
      BY <2>1, <2>2, <2>3, <2>4 DEF Code
    <3>2. QED
      BY <1>2, <2>4, <3>1 DEF RateCodeFor
  <2>5. CASE ~(sr % 1000 = 0 /\ q <= 255) /\ sr <= 65535
    <3>1. c.code = 13 /\ c.bytes = 2 /\ c.value = sr
      BY <2>1, <2>3, <2>5 DEF Code
    <3>2. QED
      BY <1>2, <2>5, <3>1 DEF RateCodeFor
  <2>6. CASE ~(sr % 1000 = 0 /\ q <= 255) /\ ~(sr <= 65535) /\ sr % 10 = 0 /\ t <= 65535
    <3>1. c.code = 14 /\ c.bytes = 2 /\ c.value = t /\ sr = t * 10
      BY <2>1, <2>2, <2>3, <2>6 DEF Code
    <3>2. QED
      BY <1>2, <2>6, <3>1 DEF RateCodeFor
  <2>7. CASE ~(sr % 1000 = 0 /\ q <= 255) /\ ~(sr <= 65535) /\ ~(sr % 10 = 0 /\ t <= 65535)
    <3>1. c.code = 0 /\ c.bytes = 0
      BY <2>1, <2>3, <2>7 DEF Code
    <3>2. QED
      BY <1>2, <3>1 DEF RateCodeFor
  <2>8. QED
    BY <2>4, <2>5, <2>6, <2>7
<1>5. QED
  BY <1>3, <1>4

\* Code c stands for a depth of bps, or leaves it to STREAMINFO.
DepthCodeFor(c, bps) == c = 0 \/ (c \in {1, 2, 4, 5, 6, 7} /\ Depths[c] = bps)

\* The code of a depth does.
LEMMA DepthCodes ==
    ASSUME NEW bps
    PROVE  DepthCodeFor(BitDepthCode(bps), bps)
<1>1. DOMAIN Depths = {1, 2, 4, 5, 6, 7}
  BY DEF Depths
<1>2. CASE \E i \in DOMAIN Depths : Depths[i] = bps
  <2>1. PICK j \in DOMAIN Depths : j = BitDepthCode(bps) /\ Depths[j] = bps
    BY <1>2 DEF BitDepthCode
  <2>2. QED
    BY <1>1, <2>1 DEF DepthCodeFor
<1>3. CASE ~ \E i \in DOMAIN Depths : Depths[i] = bps
  BY <1>3 DEF BitDepthCode, DepthCodeFor
<1>4. QED
  BY <1>2, <1>3

-----------------------------------------------------------------------------
(* The coded number: its lead byte gives its length and its top digits.     *)

\* The marks of the lead bytes, and how many of them there are for each length.
LEMMA Leads ==
    /\ Mark(2) = 192 /\ Mark(3) = 224 /\ Mark(4) = 240 /\ Mark(5) = 248 /\ Mark(6) = 252
    /\ Mark(7) = 254
    /\ LeadRange(1) = 128 /\ LeadRange(2) = 32 /\ LeadRange(3) = 16 /\ LeadRange(4) = 8
    /\ LeadRange(5) = 4 /\ LeadRange(6) = 2 /\ LeadRange(7) = 1
<1>1. /\ Mark(2) = 192 /\ Mark(3) = 224 /\ Mark(4) = 240 /\ Mark(5) = 248 /\ Mark(6) = 252
      /\ Mark(7) = 254
  BY DEF Mark
<1>2. /\ LeadRange(1) = 128 /\ LeadRange(2) = 32 /\ LeadRange(3) = 16 /\ LeadRange(4) = 8
      /\ LeadRange(5) = 4 /\ LeadRange(6) = 2 /\ LeadRange(7) = 1
  BY DEF LeadRange
<1>3. QED
  BY <1>1, <1>2

\* The lead bytes of two to six bytes are apart.
LEMMA LeadsApart ==
    ASSUME NEW b, NEW n \in 2..6, b \in LeadBytes(n)
    PROVE  /\ b \in Nat /\ 128 <= b /\ b < 254
           /\ \A m \in 2..6 : b \in LeadBytes(m) => m = n
<1>1. \A k \in 2..6 : k = 2 \/ k = 3 \/ k = 4 \/ k = 5 \/ k = 6
  OBVIOUS
<1>2. /\ b \in LeadBytes(2) => b \in Nat /\ 192 <= b /\ b <= 223
      /\ b \in LeadBytes(3) => b \in Nat /\ 224 <= b /\ b <= 239
      /\ b \in LeadBytes(4) => b \in Nat /\ 240 <= b /\ b <= 247
      /\ b \in LeadBytes(5) => b \in Nat /\ 248 <= b /\ b <= 251
      /\ b \in LeadBytes(6) => b \in Nat /\ 252 <= b /\ b <= 253
  BY Leads DEF LeadBytes
<1>3. b \in Nat /\ 128 <= b /\ b < 254
  BY <1>1, <1>2
<1>4. ASSUME NEW m \in 2..6, b \in LeadBytes(m) PROVE m = n
  BY <1>1, <1>2, <1>4
<1>5. QED
  BY <1>3, <1>4

\* A number has a shortest coding, which takes all its digits.
LEMMA NumberFits ==
    ASSUME NEW d \in Numbers
    PROVE  CodedLength(d) \in 1..7 /\ Fits(d, CodedLength(d))
<1> DEFINE T == {n \in 1..7 : Fits(d, n)}
<1>1. T \in SUBSET Nat /\ 7 \in T
  BY DEF Fits
<1>2. PICK n \in T : \A m \in T : n <= m
  BY <1>1, NatMin
<1>3. n \in 1..7 /\ Fits(d, n) /\ \A m \in 1..(n - 1) : ~Fits(d, m)
  BY <1>2
<1>4. QED
  BY <1>3 DEF CodedLength

\* Sequence c is the coding of number d in n bytes.
CodingOf(c, d, n) ==
    /\ n \in 1..7 /\ c \in Seq(Nat) /\ Len(c) = n
    /\ n = 1 => c[1] = d[1] * 64 + d[0] /\ d[1] < 2 /\ \A k \in 2..5 : d[k] = 0
    /\ n \in 2..6 => c[1] = Mark(n) + d[n - 1] /\ d[n - 1] < LeadRange(n) /\ \A k \in n..5 : d[k] = 0
    /\ n = 7 => c[1] = 254
    /\ \A i \in 2..n : c[i] = 128 + d[n - i]

\* A number is coded in its length.
LEMMA NumberCodings ==
    ASSUME NEW d \in Numbers
    PROVE  CodingOf(CodedNumber(d), d, CodedLength(d))
<1>1. PICK n : n = CodedLength(d)
  OBVIOUS
<1>2. n \in 1..7 /\ Fits(d, n)
  BY <1>1, NumberFits
<1>3. PICK c : c = CodedNumber(d)
  OBVIOUS
<1>4. c = IF n = 1 THEN <<d[1] * 64 + d[0]>>
          ELSE <<Mark(n) + (IF n = 7 THEN 0 ELSE d[n - 1])>> \o [i \in 1..(n - 1) |-> 128 + d[n - 1 - i]]
  BY <1>1, <1>3 DEF CodedNumber
<1>5. \A k \in 0..5 : d[k] \in Nat
  BY DEF Numbers
<1>6. CASE n = 1
  <2>1. c = <<d[1] * 64 + d[0]>>
    BY <1>4, <1>6
  <2>2. d[1] \in Nat /\ d[0] \in Nat
    BY <1>5
  <2>3. c \in Seq(Nat) /\ Len(c) = 1 /\ c[1] = d[1] * 64 + d[0]
    BY <2>1, <2>2
  <2>4. d[1] < 2 /\ \A k \in 2..5 : d[k] = 0
    BY <1>2, <1>6 DEF Fits
  <2>5. CodingOf(c, d, n)
    BY <1>6, <2>3, <2>4 DEF CodingOf
  <2>6. QED
    BY <1>1, <1>3, <2>5
<1>7. CASE n \in 2..7
  <2>1. PICK b : b = Mark(n) + (IF n = 7 THEN 0 ELSE d[n - 1])
    OBVIOUS
  <2>2. PICK r : r = [i \in 1..(n - 1) |-> 128 + d[n - 1 - i]]
    OBVIOUS
  <2>3. c = <<b>> \o r
    BY <1>4, <1>7, <2>1, <2>2
  <2>4. Mark(n) \in Nat
    <3>1. n = 2 \/ n = 3 \/ n = 4 \/ n = 5 \/ n = 6 \/ n = 7
      BY <1>7
    <3>2. QED
      BY <3>1, Leads
  <2>5. b \in Nat /\ (n = 7 => b = 254) /\ (n # 7 => b = Mark(n) + d[n - 1])
    BY <1>5, <1>7, <2>1, <2>4, Leads
  <2>6. \A i \in 1..(n - 1) : r[i] = 128 + d[n - 1 - i] /\ r[i] \in Nat
    <3>1. TAKE i \in 1..(n - 1)
    <3>2. n - 1 - i \in 0..5
      BY <1>7
    <3>3. d[n - 1 - i] \in Nat
      BY <1>5, <3>2
    <3>4. r[i] = 128 + d[n - 1 - i]
      BY <2>2
    <3>5. QED
      BY <3>3, <3>4
  <2>7. r \in Seq(Nat) /\ Len(r) = n - 1
    BY <1>7, <2>2, <2>6
  <2>8. c \in Seq(Nat) /\ Len(c) = n /\ c[1] = b
    BY <1>7, <2>3, <2>5, <2>7
  <2>9. ASSUME NEW i \in 2..n PROVE c[i] = 128 + d[n - i]
    <3>1. c[i] = r[i - 1]
      BY <1>7, <2>3, <2>5, <2>7
    <3>2. i - 1 \in 1..(n - 1) /\ n - 1 - (i - 1) = n - i
      BY <1>7
    <3>3. QED
      BY <2>6, <3>1, <3>2
  <2>10. n # 7 => d[n - 1] < LeadRange(n) /\ \A k \in n..5 : d[k] = 0
    BY <1>2, <1>7 DEF Fits
  <2>11. CodingOf(c, d, n)
    BY <1>7, <2>5, <2>8, <2>9, <2>10 DEF CodingOf
  <2>12. QED
    BY <1>1, <1>3, <2>11
<1>8. QED
  BY <1>2, <1>6, <1>7

\* What the lead byte says: the length, and the digits that it holds.
LEMMA LeadSays ==
    ASSUME NEW d \in Numbers, NEW n, NEW c, CodingOf(c, d, n)
    PROVE  /\ c[1] \in Nat /\ LeadLength(c[1]) = n
           /\ n = 1 => c[1] % LeadRange(1) = d[1] * 64 + d[0]
           /\ n \in 2..6 => c[1] % LeadRange(n) = d[n - 1] /\ d[n - 1] < 64
<1>1. \A k \in 0..5 : d[k] \in Nat /\ d[k] < 64
  BY DEF Numbers
<1>2. PICK b : b = c[1]
  OBVIOUS
<1>3. CASE n = 1
  <2>1. b = d[1] * 64 + d[0] /\ d[1] < 2 /\ d[1] \in Nat /\ d[0] \in Nat /\ d[0] < 64
    BY <1>1, <1>2, <1>3 DEF CodingOf
  <2>2. b \in Nat /\ b < 128
    BY <2>1
  <2>3. LeadLength(b) = 1 /\ b % 128 = b
    BY <2>2 DEF LeadLength
  <2>4. QED
    BY <1>2, <1>3, <2>1, <2>2, <2>3, Leads
<1>4. CASE n \in 2..6
  <2>1. n - 1 \in 0..5
    BY <1>4
  <2>2. b = Mark(n) + d[n - 1] /\ d[n - 1] < LeadRange(n) /\ d[n - 1] \in Nat /\ d[n - 1] < 64
    <3>1. b = Mark(n) + d[n - 1] /\ d[n - 1] < LeadRange(n)
      BY <1>2, <1>4 DEF CodingOf
    <3>2. QED
      BY <1>1, <2>1, <3>1
  <2>3. n = 2 \/ n = 3 \/ n = 4 \/ n = 5 \/ n = 6
    BY <1>4
  <2>4. PICK e \in Nat : e = d[n - 1] /\ e < LeadRange(n) /\ e < 64 /\ b = Mark(n) + e
    BY <2>2
  <2>5. b \in LeadBytes(n)
    BY <2>3, <2>4, Leads DEF LeadBytes
  <2>6. b \in Nat /\ 128 <= b /\ b < 254 /\ \A m \in 2..6 : b \in LeadBytes(m) => m = n
    BY <1>4, <2>5, LeadsApart
  <2>7. PICK j : j = (CHOOSE m \in 2..6 : b \in LeadBytes(m))
    OBVIOUS
  <2>8. j = n
    BY <1>4, <2>5, <2>6, <2>7
  <2>9. LeadLength(b) = j
    BY <1>4, <2>5, <2>6, <2>7 DEF LeadLength
  <2>10. b % LeadRange(n) = e
    <3>1. CASE n = 2
      BY <2>4, <3>1, Leads
    <3>2. CASE n = 3
      BY <2>4, <3>2, Leads
    <3>3. CASE n = 4
      BY <2>4, <3>3, Leads
    <3>4. CASE n = 5
      BY <2>4, <3>4, Leads
    <3>5. CASE n = 6
      BY <2>4, <3>5, Leads
    <3>6. QED
      BY <2>3, <3>1, <3>2, <3>3, <3>4, <3>5
  <2>11. QED
    BY <1>2, <1>4, <2>4, <2>6, <2>8, <2>9, <2>10
<1>5. CASE n = 7
  <2>1. b = 254
    BY <1>2, <1>5 DEF CodingOf
  <2>2. LeadLength(b) = 7
    BY <2>1 DEF LeadLength
  <2>3. QED
    BY <1>2, <1>5, <2>1, <2>2
<1>6. n = 1 \/ n \in 2..6 \/ n = 7
  BY DEF CodingOf
<1>7. QED
  BY <1>3, <1>4, <1>5, <1>6

-----------------------------------------------------------------------------
(* Where the fields of a written header stand.                              *)

\* A code has at most two bytes of extension, which hold its value.
CodeOK(c) ==
    /\ c.code \in 0..15 /\ c.bytes \in 0..2
    /\ c.bytes = 1 => c.value \in Nat /\ c.value <= 255
    /\ c.bytes = 2 => c.value \in Nat /\ c.value <= 65535

\* The codes of sizes and of rates are such codes.
LEMMA CodesAreOK ==
    ASSUME NEW n \in Nat, NEW sr \in Nat, NEW c
    PROVE  /\ 1 <= n /\ SizeCodeFor(c, n) => CodeOK(c)
           /\ RateCodeFor(c, sr) => CodeOK(c)
<1>1. ASSUME 1 <= n, SizeCodeFor(c, n) PROVE CodeOK(c)
  <2>1. /\ \A k \in 0..3 : 2 + k \in 0..15
        /\ \A k \in 0..7 : 8 + k \in 0..15
        /\ n - 1 \in Nat
    BY <1>1
  <2>2. QED
    BY <1>1, <2>1 DEF SizeCodeFor, CodeOK
<1>2. RateCodeFor(c, sr) => CodeOK(c)
  BY DEF RateCodeFor, CodeOK
<1>3. QED
  BY <1>1, <1>2

\* The extension of code c stands in w after p bytes.
ExtensionAt(w, p, c) ==
    /\ c.bytes = 1 => w[p + 1] = c.value
    /\ c.bytes = 2 => w[p + 1] * 256 + w[p + 2] = c.value

\* An extension has the bytes of its code, and they hold its value.
LEMMA Extensions ==
    ASSUME NEW c, CodeOK(c)
    PROVE  Extension(c) \in Seq(Nat) /\ Len(Extension(c)) = c.bytes /\ ExtensionAt(Extension(c), 0, c)
<1>1. c.bytes = 0 \/ c.bytes = 1 \/ c.bytes = 2
  BY DEF CodeOK
<1>2. CASE c.bytes = 0
  <2>1. Extension(c) = <<>>
    BY <1>2 DEF Extension
  <2>2. QED
    BY <1>2, <2>1 DEF ExtensionAt
<1>3. CASE c.bytes = 1
  <2>1. PICK v \in Nat : v = c.value /\ v <= 255
    BY <1>3 DEF CodeOK
  <2>2. Extension(c) = <<v % 256>> /\ v % 256 = v
    BY <1>3, <2>1 DEF Extension
  <2>3. QED
    BY <1>3, <2>1, <2>2 DEF ExtensionAt
<1>4. CASE c.bytes = 2
  <2>1. PICK v \in Nat : v = c.value /\ v <= 65535
    BY <1>4 DEF CodeOK
  <2>2. PICK e : e = Extension(c)
    OBVIOUS
  <2>3. e = <<(v \div 256) % 256, v % 256>>
    BY <1>4, <2>1, <2>2 DEF Extension
  <2>4. PICK x, y : x = (v \div 256) % 256 /\ y = v % 256
    OBVIOUS
  <2>5. x \in Nat /\ y \in Nat /\ x * 256 + y = v
    <3>1. PICK q : q = v \div 256
      OBVIOUS
    <3>2. q \in Nat /\ q <= 255 /\ v = q * 256 + (v % 256) /\ v % 256 \in Nat
      BY <2>1, <3>1
    <3>3. x = q % 256 /\ q % 256 = q
      BY <2>4, <3>1, <3>2
    <3>4. QED
      BY <2>4, <3>2, <3>3
  <2>6. e \in Seq(Nat) /\ Len(e) = 2 /\ e[1] = x /\ e[2] = y
    BY <2>3, <2>4, <2>5
  <2>7. e[0 + 1] = x /\ e[0 + 2] = y
    BY <2>6
  <2>8. ExtensionAt(e, 0, c)
    BY <1>4, <2>1, <2>5, <2>7 DEF ExtensionAt
  <2>9. QED
    BY <1>4, <2>2, <2>6, <2>8
<1>5. QED
  BY <1>1, <1>2, <1>3, <1>4

\* Sequence c stands in w after p elements.
StandsAt(w, p, c) == \A i \in 1..Len(c) : w[p + i] = c[i]

\* Sequence w is a and b put together.
Joined(w, a, b) == w = a \o b

\* Two sequences put together stand one after the other.
LEMMA Together ==
    ASSUME NEW a \in Seq(Nat), NEW b \in Seq(Nat), NEW w, Joined(w, a, b)
    PROVE  /\ w \in Seq(Nat) /\ Len(w) = Len(a) + Len(b)
           /\ StandsAt(w, 0, a) /\ StandsAt(w, Len(a), b)
<1>1. w = a \o b
  BY DEF Joined
<1>2. w \in Seq(Nat) /\ Len(w) = Len(a) + Len(b) /\ Len(a) \in Nat /\ Len(b) \in Nat
  BY <1>1
<1>3. \A i \in 1..Len(a) : w[i] = a[i] /\ 0 + i = i
  BY <1>1
<1>4. \A i \in 1..Len(b) : w[Len(a) + i] = b[i]
  <2>1. TAKE i \in 1..Len(b)
  <2>2. PICK k : k = Len(a) + i
    OBVIOUS
  <2>3. k \in Nat /\ k - Len(a) = i /\ 1 <= k /\ k <= Len(a) + Len(b) /\ ~(k <= Len(a))
    BY <1>2, <2>2
  <2>4. w[k] = b[i]
    BY <1>1, <2>3
  <2>5. QED
    BY <2>2, <2>4
<1>5. QED
  BY <1>2, <1>3, <1>4 DEF StandsAt

\* What stands in the beginning of a sequence stands in it.
LEMMA StandsOn ==
    ASSUME NEW w, NEW v, NEW c, NEW p \in Nat, Len(v) \in Nat, Len(c) \in Nat,
           StandsAt(w, 0, v), StandsAt(v, p, c), p + Len(c) <= Len(v)
    PROVE  StandsAt(w, p, c)
<1>1. ASSUME NEW i \in 1..Len(c) PROVE w[p + i] = c[i]
  <2>1. PICK k \in 1..Len(v) : k = p + i /\ 0 + k = k
    OBVIOUS
  <2>2. w[0 + k] = v[k] /\ v[p + i] = c[i]
    BY DEF StandsAt
  <2>3. QED
    BY <2>1, <2>2
<1>2. QED
  BY <1>1 DEF StandsAt

\* An extension holds its value wherever it stands.
LEMMA ExtensionStands ==
    ASSUME NEW w, NEW p \in Nat, NEW e, NEW c, CodeOK(c), Len(e) = c.bytes,
           ExtensionAt(e, 0, c), StandsAt(w, p, e)
    PROVE  ExtensionAt(w, p, c)
<1>1. c.bytes \in 0..2 /\ \A i \in 1..c.bytes : w[p + i] = e[i]
  BY DEF StandsAt, CodeOK
<1>2. c.bytes = 1 => w[p + 1] = e[1]
  BY <1>1
<1>3. c.bytes = 2 => w[p + 1] = e[1] /\ w[p + 2] = e[2]
  BY <1>1
<1>4. (c.bytes = 1 => e[1] = c.value) /\ (c.bytes = 2 => e[1] * 256 + e[2] = c.value)
  BY DEF ExtensionAt
<1>5. QED
  BY <1>2, <1>3, <1>4 DEF ExtensionAt

\* Header h stands in w: its number is coded by c in n bytes, its size by s and its rate by r.
LaidOut(w, h, c, n, s, r) ==
    /\ Len(w) = 5 + n + s.bytes + r.bytes
    /\ w[1] = 255 /\ w[2] = 248
    /\ w[3] = s.code * 16 + r.code /\ w[4] = h.channels * 16 + BitDepthCode(h.depth) * 2
    /\ StandsAt(w, 4, c)
    /\ ExtensionAt(w, 4 + n, s) /\ ExtensionAt(w, 4 + n + s.bytes, r)
    /\ w[Len(w)] = Checksum8(SubSeq(w, 1, Len(w) - 1))

\* The codes of header h are c, n, s and r.
CodesOf(h, c, n, s, r) ==
    /\ s = BlockSizeCode(h.blockSize) /\ r = SampleRateCode(h.rate)
    /\ c = CodedNumber(h.number) /\ n = CodedLength(h.number)
    /\ SizeCodeFor(s, h.blockSize) /\ RateCodeFor(r, h.rate) /\ CodeOK(s) /\ CodeOK(r)
    /\ CodingOf(c, h.number, n)

\* A header has codes, and is laid out by them when it is written.
LEMMA HeadersAreLaidOut ==
    ASSUME NEW h, HeaderOK(h)
    PROVE  /\ Written(h) \in Seq(Nat \cup {Checksum8(Fields(h))})
           /\ \E c, n, s, r : CodesOf(h, c, n, s, r) /\ LaidOut(Written(h), h, c, n, s, r)
<1>1. h.blockSize \in Nat /\ 1 <= h.blockSize /\ h.blockSize <= MaxBlockSize /\ h.rate \in Nat
  <2>1. MaxBlockSize \in Nat /\ MaxSampleRate \in Nat
    BY DEF MaxBlockSize, MaxSampleRate
  <2>2. h.blockSize \in 1..MaxBlockSize /\ h.rate \in 1..MaxSampleRate
    BY DEF HeaderOK
  <2>3. QED
    BY <2>1, <2>2
<1>2. PICK s, r, n, c : /\ s = BlockSizeCode(h.blockSize) /\ r = SampleRateCode(h.rate)
                        /\ n = CodedLength(h.number) /\ c = CodedNumber(h.number)
  OBVIOUS
<1>3. SizeCodeFor(s, h.blockSize) /\ RateCodeFor(r, h.rate)
  BY <1>1, <1>2, SizeCodes, RateCodes
<1>4. CodeOK(s) /\ CodeOK(r)
  BY <1>1, <1>3, CodesAreOK
<1>5. CodingOf(c, h.number, n)
  BY <1>2, NumberCodings DEF HeaderOK
<1>6. h.channels \in Nat /\ BitDepthCode(h.depth) \in Nat
  BY DepthCodes DEF DepthCodeFor, HeaderOK
<1>7. PICK x \in Nat, y \in Nat : x = s.code * 16 + r.code
                                  /\ y = h.channels * 16 + BitDepthCode(h.depth) * 2
  BY <1>4, <1>6 DEF CodeOK
<1>8. PICK a : a = <<255, 248, x, y>>
  OBVIOUS
<1>9. a \in Seq(Nat) /\ Len(a) = 4 /\ a[1] = 255 /\ a[2] = 248 /\ a[3] = x /\ a[4] = y
  BY <1>8
<1>10. c \in Seq(Nat) /\ Len(c) = n /\ n \in 1..7
  BY <1>5 DEF CodingOf
<1>11. PICK es, er : es = Extension(s) /\ er = Extension(r)
  OBVIOUS
<1>12. /\ es \in Seq(Nat) /\ Len(es) = s.bytes /\ ExtensionAt(es, 0, s)
       /\ er \in Seq(Nat) /\ Len(er) = r.bytes /\ ExtensionAt(er, 0, r)
  BY <1>4, <1>11, Extensions
<1>13. PICK u, v, f : u = a \o c /\ v = u \o es /\ f = v \o er
  OBVIOUS
<1>14. Joined(u, a, c) /\ Joined(v, u, es) /\ Joined(f, v, er)
  BY <1>13 DEF Joined
<1>15. Fields(h) = f
  BY <1>2, <1>7, <1>8, <1>11, <1>13 DEF Fields
<1>16. u \in Seq(Nat) /\ Len(u) = Len(a) + Len(c) /\ StandsAt(u, 0, a) /\ StandsAt(u, Len(a), c)
  <2>1. a \in Seq(Nat) /\ c \in Seq(Nat) /\ Joined(u, a, c)
    BY <1>9, <1>10, <1>14
  <2>2. QED
    BY <2>1, Together
<1>17. v \in Seq(Nat) /\ Len(v) = Len(u) + Len(es) /\ StandsAt(v, 0, u) /\ StandsAt(v, Len(u), es)
  BY <1>12, <1>16, <1>14, Together
<1>18. f \in Seq(Nat) /\ Len(f) = Len(v) + Len(er) /\ StandsAt(f, 0, v) /\ StandsAt(f, Len(v), er)
  BY <1>12, <1>17, <1>14, Together
<1>19. PICK w : w = Written(h)
  OBVIOUS
<1>20. /\ w \in Seq(Nat \cup {Checksum8(f)})
       /\ Len(w) = Len(f) + 1 /\ StandsAt(w, 0, f)
       /\ w[Len(w)] = Checksum8(SubSeq(w, 1, Len(w) - 1))
  <2>1. PICK z : z = Checksum8(f)
    OBVIOUS
  <2>2. w = Append(f, z)
    BY <1>15, <1>19, <2>1 DEF Written
  <2> DEFINE S == Nat \cup {z}
  <2>3. f \in Seq(S) /\ z \in S
    BY <1>18
  <2>4. S = Nat \cup {Checksum8(f)}
    BY <2>1
  <2> HIDE DEF S
  <2>5. w \in Seq(S) /\ Len(w) = Len(f) + 1 /\ w[Len(f) + 1] = z /\ \A i \in 1..Len(f) : w[i] = f[i]
    BY <2>2, <2>3
  <2>6. SubSeq(w, 1, Len(f)) = f
    BY <2>2, <2>3, <2>5
  <2>7. Len(w) - 1 = Len(f)
    BY <1>18, <2>5
  <2>8. \A i \in 1..Len(f) : 0 + i = i
    BY <1>18
  <2>9. QED
    BY <2>1, <2>5, <2>6, <2>7, <2>8, <2>4 DEF StandsAt
<1>21. PICK sb \in 0..2, rb \in 0..2 : sb = s.bytes /\ rb = r.bytes
  BY <1>4 DEF CodeOK
<1>22. Len(u) = 4 + n /\ Len(v) = 4 + n + sb /\ Len(f) = 4 + n + sb + rb
  BY <1>9, <1>10, <1>12, <1>16, <1>17, <1>18, <1>21
<1>23. StandsAt(w, 0, v)
  BY <1>10, <1>18, <1>20, <1>22, StandsOn
<1>24. StandsAt(w, 0, u)
  BY <1>10, <1>17, <1>22, <1>23, StandsOn
<1>25. StandsAt(w, 4, c)
  <2>1. StandsAt(u, 4, c) /\ 4 + Len(c) <= Len(u)
    BY <1>9, <1>10, <1>16, <1>22
  <2>2. QED
    BY <1>10, <1>22, <1>24, <2>1, StandsOn
<1>26. ExtensionAt(w, 4 + n, s)
  <2>1. StandsAt(w, 4 + n, es)
    BY <1>10, <1>12, <1>17, <1>21, <1>22, <1>23, StandsOn
  <2>2. QED
    BY <1>4, <1>10, <1>12, <2>1, ExtensionStands
<1>27. ExtensionAt(w, 4 + n + s.bytes, r)
  <2>1. StandsAt(w, 4 + n + sb, er)
    BY <1>10, <1>12, <1>18, <1>20, <1>21, <1>22, StandsOn
  <2>2. 4 + n + sb \in Nat
    BY <1>10
  <2>3. ExtensionAt(w, 4 + n + sb, r)
    BY <1>4, <1>12, <2>1, <2>2, ExtensionStands
  <2>4. QED
    BY <1>21, <2>3
<1>28. w[1] = 255 /\ w[2] = 248 /\ w[3] = x /\ w[4] = y
  <2>1. \A i \in 1..4 : w[0 + i] = a[i]
    <3>1. 0 + Len(a) <= Len(u) /\ Len(a) \in Nat /\ Len(u) \in Nat
      BY <1>9, <1>10, <1>22
    <3>2. StandsAt(w, 0, a)
      BY <1>16, <1>24, <3>1, StandsOn
    <3>3. QED
      BY <1>9, <3>2 DEF StandsAt
  <2>2. w[0 + 1] = a[1] /\ w[0 + 2] = a[2] /\ w[0 + 3] = a[3] /\ w[0 + 4] = a[4]
    BY <2>1
  <2>3. QED
    BY <1>9, <2>2
<1>29. Len(w) = 5 + n + s.bytes + r.bytes
  <2>1. Len(w) = (4 + n + sb + rb) + 1
    BY <1>20, <1>22
  <2>2. n \in Nat /\ sb \in Nat /\ rb \in Nat
    BY <1>10
  <2>3. Len(w) = 5 + n + sb + rb
    BY <2>1, <2>2
  <2>4. QED
    BY <1>21, <2>3
<1>30. LaidOut(w, h, c, n, s, r)
  BY <1>7, <1>20, <1>25, <1>26, <1>27, <1>28, <1>29 DEF LaidOut
<1>31. CodesOf(h, c, n, s, r)
  BY <1>2, <1>3, <1>4, <1>5 DEF CodesOf
<1>32. QED
  BY <1>15, <1>19, <1>20, <1>30, <1>31

\* What codes a number is bytes.
LEMMA CodingIsBytes ==
    ASSUME NEW d \in Numbers, NEW n, NEW c, CodingOf(c, d, n)
    PROVE  c \in Seq(Bytes)
<1>1. n \in 1..7 /\ c \in Seq(Nat) /\ Len(c) = n
  BY DEF CodingOf
<1>2. \A k \in 0..5 : d[k] \in Nat /\ d[k] < 64
  BY DEF Numbers
<1>3. c[1] \in Bytes
  <2>1. CASE n = 1
    <3>1. PICK x \in Nat, y \in Nat : x = d[1] /\ y = d[0] /\ y < 64
      BY <1>2
    <3>2. c[1] = x * 64 + y /\ x < 2
      BY <2>1, <3>1 DEF CodingOf
    <3>3. x = 0 \/ x = 1
      BY <3>2
    <3>4. x * 64 = 0 \/ x * 64 = 64
      BY <3>3
    <3>5. x * 64 + y \in Bytes
      BY <3>1, <3>4 DEF Bytes
    <3>6. QED
      BY <3>2, <3>5
  <2>2. CASE n \in 2..6
    <3>1. c[1] = Mark(n) + d[n - 1] /\ d[n - 1] < LeadRange(n)
      BY <2>2 DEF CodingOf
    <3>2. PICK x \in Nat : x = d[n - 1]
      BY <1>2, <2>2
    <3>3. n = 2 \/ n = 3 \/ n = 4 \/ n = 5 \/ n = 6
      BY <2>2
    <3>4. \/ Mark(n) = 192 /\ LeadRange(n) = 32
          \/ Mark(n) = 224 /\ LeadRange(n) = 16
          \/ Mark(n) = 240 /\ LeadRange(n) = 8
          \/ Mark(n) = 248 /\ LeadRange(n) = 4
          \/ Mark(n) = 252 /\ LeadRange(n) = 2
      BY <3>3, Leads
    <3>5. QED
      BY <3>1, <3>2, <3>4 DEF Bytes
  <2>3. CASE n = 7
    BY <2>3 DEF CodingOf, Bytes
  <2>4. QED
    BY <1>1, <2>1, <2>2, <2>3
<1>4. ASSUME NEW i \in 2..n PROVE c[i] \in Bytes
  <2>1. n - i \in 0..5
    BY <1>1, <1>4
  <2>2. PICK x \in Nat : x = d[n - i] /\ x < 64
    BY <1>2, <2>1
  <2>3. c[i] = 128 + x
    BY <2>2 DEF CodingOf
  <2>4. QED
    BY <2>2, <2>3 DEF Bytes
<1>5. \A i \in 1..n : c[i] \in Bytes
  BY <1>1, <1>3, <1>4
<1>6. c \in [1..n -> Bytes]
  <2>1. DOMAIN c = 1..n /\ c = [i \in 1..n |-> c[i]]
    BY <1>1
  <2>2. QED
    BY <1>5, <2>1
<1>7. QED
  BY <1>1, <1>6, SeqDef

\* So is an extension.
LEMMA ExtensionIsBytes == ASSUME NEW c, CodeOK(c) PROVE Extension(c) \in Seq(Bytes)
<1>1. c.bytes = 0 \/ c.bytes = 1 \/ c.bytes = 2
  BY DEF CodeOK
<1>2. CASE c.bytes = 0
  BY <1>2 DEF Extension
<1>3. CASE c.bytes = 1
  <2>1. PICK x : x = c.value % 256
    OBVIOUS
  <2>2. x \in Bytes
    BY <1>3, <2>1 DEF CodeOK, Bytes
  <2>3. Extension(c) = <<x>>
    BY <1>3, <2>1 DEF Extension
  <2>4. QED
    BY <2>2, <2>3
<1>4. CASE c.bytes = 2
  <2>1. PICK v \in Int : v = c.value
    BY <1>4 DEF CodeOK
  <2>2. PICK x, y : x = (v \div 256) % 256 /\ y = v % 256
    OBVIOUS
  <2>3. y \in Bytes
    BY <2>2 DEF Bytes
  <2>4. PICK q \in Int : q = v \div 256
    OBVIOUS
  <2>5. x \in Bytes
    BY <2>2, <2>4 DEF Bytes
  <2>6. Extension(c) = <<x, y>>
    BY <1>4, <2>1, <2>2 DEF Extension
  <2>7. QED
    BY <2>3, <2>5, <2>6
<1>5. QED
  BY <1>1, <1>2, <1>3, <1>4

\* A header is bytes, with its checksum.
LEMMA HeadersAreBytes ==
    ASSUME NEW h, HeaderOK(h)
    PROVE  /\ Fields(h) \in Seq(Bytes) /\ Checksum8(Fields(h)) \in Bytes
           /\ Written(h) \in Seq(Bytes) /\ Len(Written(h)) = Len(Fields(h)) + 1
           /\ \A i \in 1..Len(Fields(h)) : Written(h)[i] = Fields(h)[i]
           /\ Written(h)[Len(Written(h))] = Checksum8(Fields(h))
<1>1. PICK c, n, s, r : CodesOf(h, c, n, s, r)
  BY HeadersAreLaidOut
<1>2. c \in Seq(Bytes)
  BY <1>1, CodingIsBytes DEF CodesOf, HeaderOK
<1>3. PICK es, er : es = Extension(s) /\ er = Extension(r)
  OBVIOUS
<1>4. es \in Seq(Bytes) /\ er \in Seq(Bytes)
  BY <1>1, <1>3, ExtensionIsBytes DEF CodesOf
<1>5. h.channels \in Nat /\ h.channels <= 10
  BY DEF HeaderOK
<1>6. BitDepthCode(h.depth) \in 0..7
  BY DepthCodes DEF DepthCodeFor
<1>7. PICK x, y : x = s.code * 16 + r.code /\ y = h.channels * 16 + BitDepthCode(h.depth) * 2
  OBVIOUS
<1>8. x \in Bytes /\ y \in Bytes
  <2>1. s.code \in 0..15 /\ r.code \in 0..15
    BY <1>1 DEF CodesOf, CodeOK
  <2>2. x \in Bytes
    BY <1>7, <2>1 DEF Bytes
  <2>3. y \in Bytes
    BY <1>5, <1>6, <1>7 DEF Bytes
  <2>4. QED
    BY <2>2, <2>3
<1>9. PICK a : a = <<255, 248, x, y>>
  OBVIOUS
<1>10. a \in Seq(Bytes)
  <2>1. 255 \in Bytes /\ 248 \in Bytes
    BY DEF Bytes
  <2>2. QED
    BY <1>8, <1>9, <2>1
<1>11. PICK f : f = a \o c \o es \o er
  OBVIOUS
<1>12. Fields(h) = f
  BY <1>1, <1>3, <1>7, <1>9, <1>11 DEF Fields, CodesOf
<1>13. f \in Seq(Bytes)
  BY <1>2, <1>4, <1>10, <1>11
<1>14. PICK z \in Bytes : z = Checksum8(f)
  BY <1>13, ChecksumType
<1>15. PICK w : w = Append(f, z)
  OBVIOUS
<1>16. /\ w \in Seq(Bytes) /\ Len(w) = Len(f) + 1 /\ w[Len(f) + 1] = z
       /\ \A i \in 1..Len(f) : w[i] = f[i]
  BY <1>13, <1>15
<1>17. Written(h) = w
  BY <1>12, <1>14, <1>15 DEF Written
<1>18. QED
  BY <1>12, <1>13, <1>14, <1>16, <1>17

-----------------------------------------------------------------------------
(* The inductive invariant of reading.                                      *)

\* Stream st holds header w as far as it goes: all of it, or less when it is cut.
Follows(st, cond, w) ==
    /\ Len(st) \in Nat /\ (st = <<>> <=> Len(st) = 0)
    /\ \A i \in 1..Len(w) : i <= Len(st) => st[i] = w[i]
    /\ cond = "whole" => Len(w) <= Len(st) /\ SubSeq(st, 1, Len(w) - 1) = SubSeq(w, 1, Len(w) - 1)
    /\ cond = "cut" => Len(st) < Len(w)

\* The header sent has codes c, n, s and r, and it is in the stream.
Sent(c, n, s, r) ==
    /\ HeaderOK(sent) /\ condition \in {"whole", "cut"}
    /\ CodesOf(sent, c, n, s, r) /\ LaidOut(Written(sent), sent, c, n, s, r)
    /\ Follows(stream, condition, Written(sent))

\* The reader is at the field that it is to read next.
InPlace(n, s, r) ==
    /\ step = "sync" => at = 0
    /\ step = "codes" => at = 2
    /\ step = "lead" => at = 4
    /\ step = "continuation" => left \in 1..(n - 1) /\ at = 4 + n - left
    /\ step = "blockSize" => at = 4 + n
    /\ step = "rate" => at = 4 + n + s.bytes
    /\ step = "crc" => at = 4 + n + s.bytes + r.bytes
    /\ step \in {"sync", "codes", "lead", "continuation", "blockSize", "rate", "crc", "done"}
    /\ step # "done" => at <= Len(stream)

\* A rate or a depth is what was sent, or STREAMINFO's if it has no code.
RateRead(r)  == hdr.rate = IF r.code = 0 THEN info.rate ELSE sent.rate
DepthRead    == hdr.depth = IF BitDepthCode(sent.depth) = 0 THEN info.depth ELSE sent.depth

\* What has been read is what was sent; of a number, its upper digits.
AsSent(n, s, r) ==
    /\ DOMAIN hdr = {"blockSize", "rate", "depth", "channels", "number", "variable"}
    /\ hdr.variable = FALSE
    /\ step \in {"lead", "continuation", "blockSize", "rate", "crc"} =>
           codes = <<s.code, r.code>> /\ hdr.channels = sent.channels
    /\ step \in {"lead", "continuation", "blockSize", "rate"} => hdr.depth = BitDepthCode(sent.depth)
    /\ step = "continuation" =>
           \A k \in 0..5 : hdr.number[k] = IF left + k <= 5 THEN sent.number[left + k] ELSE 0
    /\ step \in {"blockSize", "rate", "crc"} => hdr.number = sent.number
    /\ step \in {"rate", "crc"} => hdr.blockSize = sent.blockSize
    /\ step = "crc" => RateRead(r) /\ DepthRead

\* How reading ends: with the header, or where it is cut.
Ended(r) ==
    /\ condition = "whole" =>
           /\ outcome = "ok" /\ at = Len(Written(sent))
           /\ hdr.channels = sent.channels /\ hdr.number = sent.number
           /\ hdr.blockSize = sent.blockSize /\ RateRead(r) /\ DepthRead
    /\ condition = "cut" => outcome = IF stream = <<>> THEN "eof" ELSE "unexpected"

Progress(n, s, r) == InPlace(n, s, r) /\ AsSent(n, s, r) /\ (step = "done" => Ended(r))

\* A header is being read, or none has been asked for.
ReadingInv ==
    /\ stage = "new" => step = "sync"
    /\ \/ stage # "header" /\ step = "sync"
       \/ condition = "damaged"
       \/ \E c, n, s, r : Sent(c, n, s, r) /\ Progress(n, s, r)

-----------------------------------------------------------------------------
(* Every step of reading keeps the invariant.                               *)

\* The bytes of each field, and that there is room for it in what was written.
LEMMA FieldsHaveRoom ==
    ASSUME NEW c, NEW n, NEW s, NEW r, Sent(c, n, s, r), Progress(n, s, r), step # "done"
    PROVE  /\ step \in {"sync", "codes"} => Width = 2
           /\ step \in {"lead", "continuation", "crc"} => Width = 1
           /\ step = "blockSize" => Width = s.bytes
           /\ step = "rate" => Width = r.bytes
           /\ n \in 1..7 /\ s.bytes \in 0..2 /\ r.bytes \in 0..2
           /\ Width \in 0..2 /\ at \in Nat /\ at + Width <= Len(Written(sent))
<1>1. n \in 1..7 /\ s.bytes \in 0..2 /\ r.bytes \in 0..2 /\ s.code \in 0..15 /\ r.code \in 0..15
  BY DEF Sent, CodesOf, CodingOf, CodeOK
<1>2. Len(Written(sent)) = 5 + n + s.bytes + r.bytes
  BY DEF Sent, LaidOut
<1>3. n \in Nat /\ 1 <= n /\ s.bytes \in Nat /\ r.bytes \in Nat
  BY <1>1
<1>4. CASE step \in {"sync", "codes"}
  <2>1. Width = 2 /\ at \in {0, 2}
    BY <1>4 DEF Width, Progress, InPlace
  <2>2. QED
    BY <1>1, <1>2, <1>4, <2>1
<1>5. CASE step \in {"lead", "continuation", "crc"}
  <2>1. Width = 1
    BY <1>5 DEF Width
  <2>2. \/ at = 4
        \/ left \in 1..(n - 1) /\ at = 4 + n - left
        \/ at = 4 + n + s.bytes + r.bytes
    BY <1>5 DEF Progress, InPlace
  <2>3. at \in Nat /\ at + 1 <= Len(Written(sent))
    <3>1. PICK sb \in Nat, rb \in Nat : sb = s.bytes /\ rb = r.bytes
      BY <1>3
    <3>2. CASE at = 4
      BY <1>2, <1>3, <3>1, <3>2
    <3>3. CASE left \in 1..(n - 1) /\ at = 4 + n - left
      BY <1>2, <1>3, <3>1, <3>3
    <3>4. CASE at = 4 + n + s.bytes + r.bytes
      <4>1. at = 4 + n + sb + rb /\ Len(Written(sent)) = 5 + n + sb + rb
        BY <1>2, <3>1, <3>4
      <4>2. PICK p : p = 4 + n + sb + rb
        OBVIOUS
      <4>3. p \in Nat /\ p + 1 = 5 + n + sb + rb
        BY <1>3, <3>1, <4>2
      <4>4. at = p /\ Len(Written(sent)) = p + 1
        BY <4>1, <4>2, <4>3
      <4>5. QED
        BY <4>3, <4>4
    <3>5. QED
      BY <2>2, <3>2, <3>3, <3>4
  <2>4. QED
    BY <1>1, <1>5, <2>1, <2>3
<1>6. CASE step = "blockSize"
  <2>1. at = 4 + n /\ codes[1] = s.code
    BY <1>6 DEF Progress, InPlace, AsSent
  <2>2. /\ s.code = 6 => s.bytes = 1
        /\ s.code = 7 => s.bytes = 2
        /\ s.code \notin {6, 7} => s.bytes = 0
    BY DEF Sent, CodesOf, SizeCodeFor
  <2>3. Width = s.bytes
    BY <1>6, <2>1, <2>2 DEF Width
  <2>4. at \in Nat /\ at + s.bytes <= Len(Written(sent))
    BY <1>2, <1>3, <2>1
  <2>5. QED
    BY <1>1, <1>6, <2>3, <2>4
<1>7. CASE step = "rate"
  <2>1. at = 4 + n + s.bytes /\ codes[2] = r.code
    BY <1>7 DEF Progress, InPlace, AsSent
  <2>2. /\ r.code = 12 => r.bytes = 1
        /\ r.code \in {13, 14} => r.bytes = 2
        /\ r.code \notin {12, 13, 14} => r.bytes = 0
    <3>1. RateCodeFor(r, sent.rate)
      BY DEF Sent, CodesOf
    <3>2. \/ r.code \notin {12, 13, 14} /\ r.bytes = 0
          \/ r.code = 12 /\ r.bytes = 1
          \/ r.code \in {13, 14} /\ r.bytes = 2
      BY <3>1 DEF RateCodeFor
    <3>3. QED
      BY <3>2
  <2>3. Width = r.bytes
    BY <1>7, <2>1, <2>2 DEF Width
  <2>4. at \in Nat /\ at + r.bytes <= Len(Written(sent))
    BY <1>2, <1>3, <2>1
  <2>5. QED
    BY <1>1, <1>7, <2>3, <2>4
<1>8. QED
  BY <1>4, <1>5, <1>6, <1>7 DEF Progress, InPlace

\* A byte that has arrived is the one that was written.
LEMMA BytesArrive ==
    ASSUME NEW c, NEW n, NEW s, NEW r, Sent(c, n, s, r), Progress(n, s, r), step # "done",
           Enough
    PROVE  /\ \A i \in 1..Width : Byte(i) = Written(sent)[at + i]
           /\ at + Width <= Len(stream) /\ at + Width \in Nat
<1>1. Width \in 0..2 /\ at \in Nat /\ at + Width <= Len(Written(sent))
  BY FieldsHaveRoom
<1>2. at + Width <= Len(stream) /\ Len(stream) \in Nat
  BY DEF Enough, Sent, Follows
<1>3. ASSUME NEW i \in 1..Width PROVE Byte(i) = Written(sent)[at + i]
  <2>1. PICK k : k = at + i
    OBVIOUS
  <2>2. Len(Written(sent)) \in Nat
    <3>1. n \in 1..7 /\ s.bytes \in 0..2 /\ r.bytes \in 0..2
      BY FieldsHaveRoom
    <3>2. QED
      BY <3>1 DEF Sent, LaidOut
  <2>3. k \in 1..Len(Written(sent)) /\ k <= Len(stream)
    BY <1>1, <1>2, <2>1, <2>2
  <2>4. stream[k] = Written(sent)[k]
    BY <2>3 DEF Sent, Follows
  <2>5. QED
    BY <2>1, <2>4 DEF Byte
<1>4. QED
  BY <1>1, <1>2, <1>3

\* Reading leaves what was sent.
LEMMA SentStays ==
    ASSUME NEW c, NEW n, NEW s, NEW r, Sent(c, n, s, r), UNCHANGED <<info, sent, stream, condition>>
    PROVE  Sent(c, n, s, r)'
BY DEF Sent, Follows

\* A stream ends early only when it is cut.
LEMMA StreamEndsReads ==
    ASSUME NEW c, NEW n, NEW s, NEW r, Sent(c, n, s, r), Progress(n, s, r), StreamEnds
    PROVE  Progress(n, s, r)'
<1>1. step # "done" /\ ~(at + Width <= Len(stream))
  BY DEF StreamEnds, Enough
<1>2. condition = "cut"
  <2>1. at + Width <= Len(Written(sent)) /\ Width \in 0..2 /\ at \in Nat
    BY <1>1, FieldsHaveRoom
  <2>2. Len(Written(sent)) \in Nat
    <3>1. n \in 1..7 /\ s.bytes \in 0..2 /\ r.bytes \in 0..2
      BY <1>1, FieldsHaveRoom
    <3>2. QED
      BY <3>1 DEF Sent, LaidOut
  <2>3. Len(stream) \in Nat /\ (condition = "whole" => Len(Written(sent)) <= Len(stream))
    BY DEF Sent, Follows
  <2>4. condition # "whole"
    BY <1>1, <2>1, <2>2, <2>3
  <2>5. QED
    BY <2>4 DEF Sent
<1>3. /\ outcome' = (IF step = "sync" /\ Len(stream) = 0 THEN "eof" ELSE "unexpected")
      /\ step' = "done" /\ UNCHANGED <<info, sent, stream, condition, at, codes, left, hdr>>
  BY DEF StreamEnds, Fail
<1>4. step # "sync" => Len(stream) # 0
  <2>1. HAVE step # "sync"
  <2>2. at >= 2 /\ at <= Len(stream) /\ at \in Nat /\ Len(stream) \in Nat
    <3>1. /\ n \in Nat /\ n >= 1 /\ s.bytes \in Nat /\ r.bytes \in Nat
          /\ at \in Nat
      BY <1>1, FieldsHaveRoom
    <3>2. at <= Len(stream) /\ Len(stream) \in Nat
      BY <1>1 DEF Progress, InPlace, Sent, Follows
    <3>3. \/ at = 2 \/ at = 4 \/ \E l \in 1..(n - 1) : at = 4 + n - l
          \/ at = 4 + n \/ at = 4 + n + s.bytes \/ at = 4 + n + s.bytes + r.bytes
      BY <1>1, <2>1 DEF Progress, InPlace
    <3>4. at >= 2
      BY <3>1, <3>3
    <3>5. QED
      BY <3>1, <3>2, <3>4
  <2>3. QED
    BY <2>2
<1>5. stream = <<>> <=> Len(stream) = 0
  BY DEF Sent, Follows
<1>6. QED
  BY <1>2, <1>3, <1>4, <1>5 DEF Progress, InPlace, AsSent, Ended

\* The sync code is the one that was written, for blocks of a fixed size.
LEMMA ReadSyncReads ==
    ASSUME NEW c, NEW n, NEW s, NEW r, Sent(c, n, s, r), Progress(n, s, r), ReadSync
    PROVE  Progress(n, s, r)'
<1>1. step = "sync" /\ Enough /\ step # "done"
  BY DEF ReadSync
<1>2. Width = 2 /\ at = 0
  BY <1>1, FieldsHaveRoom DEF Progress, InPlace
<1>3. Byte(1) = 255 /\ Byte(2) = 248 /\ at + Width <= Len(stream)
  <2>1. \A i \in 1..2 : Byte(i) = Written(sent)[0 + i]
    BY <1>1, <1>2, BytesArrive
  <2>2. Byte(1) = Written(sent)[1] /\ Byte(2) = Written(sent)[2]
    BY <2>1
  <2>3. at + Width <= Len(stream)
    BY <1>1, BytesArrive
  <2>4. QED
    BY <2>2, <2>3 DEF Sent, LaidOut
<1>4. ~(Byte(1) * 64 + Byte(2) \div 4 # 16382 \/ (Byte(2) \div 2) % 2 # 0)
  BY <1>3
<1>5. Reads("codes", [hdr EXCEPT !.variable = Byte(2) % 2 = 1], codes, left)
  BY <1>4 DEF ReadSync
<1>6. (Byte(2) % 2 = 1) = FALSE
  BY <1>3
<1>7. hdr' = [hdr EXCEPT !.variable = FALSE]
  BY <1>5, <1>6, Zenon DEF Reads
<1>8. /\ step' = "codes" /\ at' = at + Width
      /\ UNCHANGED <<info, sent, stream, condition, outcome>>
  BY <1>5 DEF Reads
<1>9. at' = 2
  BY <1>2, <1>8
<1>10. InPlace(n, s, r)'
  BY <1>2, <1>3, <1>8, <1>9 DEF InPlace
<1>11. AsSent(n, s, r)'
  BY <1>7, <1>8 DEF Progress, AsSent
<1>12. QED
  BY <1>8, <1>10, <1>11 DEF Progress

\* The codes are those of the block size, the rate, the channels and the depth.
LEMMA ReadCodesReads ==
    ASSUME NEW c, NEW n, NEW s, NEW r, Sent(c, n, s, r), Progress(n, s, r), ReadCodes
    PROVE  Progress(n, s, r)'
<1>1. step = "codes" /\ Enough /\ step # "done"
  BY DEF ReadCodes
<1>2. Width = 2 /\ at = 2
  BY <1>1, FieldsHaveRoom DEF Progress, InPlace
<1>3. /\ Byte(1) = s.code * 16 + r.code
      /\ Byte(2) = sent.channels * 16 + BitDepthCode(sent.depth) * 2
      /\ at + Width <= Len(stream)
  <2>1. \A i \in 1..2 : Byte(i) = Written(sent)[2 + i]
    BY <1>1, <1>2, BytesArrive
  <2>2. Byte(1) = Written(sent)[3] /\ Byte(2) = Written(sent)[4]
    BY <2>1
  <2>3. at + Width <= Len(stream)
    BY <1>1, BytesArrive
  <2>4. QED
    BY <2>2, <2>3 DEF Sent, LaidOut
<1>4. PICK x, y, a, d : x = s.code /\ y = r.code /\ a = sent.channels /\ d = BitDepthCode(sent.depth)
  OBVIOUS
<1>5. x \in 0..15 /\ y \in 0..15 /\ a \in 0..10 /\ d \in 0..7
  <2>1. x \in 0..15 /\ y \in 0..15
    BY <1>4 DEF Sent, CodesOf, CodeOK
  <2>2. a \in 0..10
    BY <1>4 DEF Sent, HeaderOK
  <2>3. d \in 0..7
    BY <1>4, DepthCodes DEF DepthCodeFor
  <2>4. QED
    BY <2>1, <2>2, <2>3
<1>6. (x * 16 + y) \div 16 = x /\ (x * 16 + y) % 16 = y
  BY <1>5
<1>7. PICK b : b = a * 16 + d * 2
  OBVIOUS
<1>8. b % 2 = 0 /\ b \div 16 = a /\ (b \div 2) % 8 = d
  <2>1. a \in Nat /\ d \in Nat /\ d <= 7
    BY <1>5
  <2>2. b = a * 16 + d * 2
    BY <1>7
  <2>3. b \div 2 = a * 8 + d
    BY <2>1, <2>2
  <2>4. b % 2 = 0 /\ b \div 16 = a /\ (a * 8 + d) % 8 = d
    BY <2>1, <2>2
  <2>5. QED
    BY <2>3, <2>4
<1>9. Byte(1) \div 16 = x /\ Byte(1) % 16 = y /\ Byte(2) = b
  BY <1>3, <1>4, <1>6, <1>7
<1>10. ~(Byte(2) % 2 # 0 \/ Byte(2) \div 16 >= 11)
  BY <1>5, <1>8, <1>9
<1>11. Reads("lead", [hdr EXCEPT !.channels = a, !.depth = d], <<x, y>>, left)
  BY <1>8, <1>9, <1>10 DEF ReadCodes
<1>12. /\ step' = "lead" /\ at' = at + Width /\ codes' = <<x, y>>
       /\ hdr' = [hdr EXCEPT !.channels = a, !.depth = d]
       /\ UNCHANGED <<info, sent, stream, condition, outcome>>
  BY <1>11 DEF Reads
<1>13. at' = 4
  BY <1>2, <1>12
<1>14. InPlace(n, s, r)'
  BY <1>2, <1>3, <1>12, <1>13 DEF InPlace
<1>15. AsSent(n, s, r)'
  BY <1>4, <1>12 DEF Progress, AsSent
<1>16. QED
  BY <1>12, <1>14, <1>15 DEF Progress

\* The bytes of the number stand after the first four.
LEMMA NumberBytes ==
    ASSUME NEW c, NEW n, NEW s, NEW r, Sent(c, n, s, r), NEW i \in 1..n
    PROVE  Written(sent)[4 + i] = c[i]
BY DEF Sent, CodesOf, CodingOf, LaidOut, StandsAt

\* The lead byte tells the length of the number, and has its upper digits.
LEMMA ReadLeadReads ==
    ASSUME NEW c, NEW n, NEW s, NEW r, Sent(c, n, s, r), Progress(n, s, r), ReadLead
    PROVE  Progress(n, s, r)'
<1>1. step = "lead" /\ Enough /\ step # "done"
  BY DEF ReadLead
<1>2. Width = 1 /\ at = 4 /\ n \in 1..7
  BY <1>1, FieldsHaveRoom DEF Progress, InPlace
<1>3. PICK b : b = Byte(1)
  OBVIOUS
<1>4. b = c[1] /\ 5 <= Len(stream)
  <2>1. Byte(1) = Written(sent)[4 + 1] /\ 4 + 1 <= Len(stream)
    BY <1>1, <1>2, BytesArrive
  <2>2. Written(sent)[4 + 1] = c[1]
    <3>1. 1 \in 1..n
      BY <1>2
    <3>2. QED
      BY <3>1, NumberBytes
  <2>3. QED
    BY <1>3, <2>1, <2>2
<1>5. PICK d : d = sent.number
  OBVIOUS
<1>6. d \in Numbers /\ CodingOf(c, d, n)
  BY <1>5 DEF Sent, CodesOf, HeaderOK
<1>7. \A k \in 0..5 : d[k] \in Nat /\ d[k] < 64
  BY <1>6 DEF Numbers
<1>8. LeadLength(b) = n /\ n # 0
  BY <1>2, <1>4, <1>6, LeadSays
<1>9. PICK data : data = IF n = 7 THEN 0 ELSE b % LeadRange(n)
  OBVIOUS
<1>10. PICK number : number = [NoHeader.number EXCEPT ![0] = data % 64, ![1] = data \div 64]
  OBVIOUS
<1>11. Reads(IF n = 1 THEN "blockSize" ELSE "continuation", [hdr EXCEPT !.number = number], codes, n - 1)
  BY <1>3, <1>8, <1>9, <1>10 DEF ReadLead
<1>12. /\ step' = (IF n = 1 THEN "blockSize" ELSE "continuation")
       /\ at' = at + Width /\ left' = n - 1 /\ hdr' = [hdr EXCEPT !.number = number]
       /\ UNCHANGED <<codes, info, sent, stream, condition, outcome>>
  BY <1>11 DEF Reads
<1>13. at' = 5
  BY <1>2, <1>12
<1>14. InPlace(n, s, r)'
  <2>1. n # 1 => n - 1 \in 1..(n - 1) /\ 5 = 4 + n - (n - 1)
    BY <1>2
  <2>2. n = 1 => 5 = 4 + n
    BY <1>2
  <2>3. QED
    BY <1>4, <1>12, <1>13, <2>1, <2>2 DEF InPlace
<1>15. number = [k \in 0..5 |-> IF k = 0 THEN data % 64 ELSE IF k = 1 THEN data \div 64 ELSE 0]
  <2>1. PICK none, lo, hi : none = NoHeader.number /\ lo = data % 64 /\ hi = data \div 64
    OBVIOUS
  <2>2. none = [k \in 0..5 |-> 0]
    BY <2>1 DEF NoHeader
  <2>3. number = [none EXCEPT ![0] = lo, ![1] = hi]
    BY <1>10, <2>1
  <2>4. PICK one : one = [none EXCEPT ![0] = lo]
    OBVIOUS
  <2>5. one = [k \in 0..5 |-> IF k = 0 THEN lo ELSE 0]
    BY <2>2, <2>4
  <2>6. number = [one EXCEPT ![1] = hi]
    BY <2>3, <2>4
  <2>7. number = [k \in 0..5 |-> IF k = 0 THEN lo ELSE IF k = 1 THEN hi ELSE 0]
    <3>1. number = [k \in 0..5 |-> IF k = 1 THEN hi ELSE one[k]]
      BY <2>5, <2>6
    <3>2. \A k \in 0..5 : one[k] = IF k = 0 THEN lo ELSE 0
      BY <2>5
    <3>3. \A k \in 0..5 : number[k] = IF k = 0 THEN lo ELSE IF k = 1 THEN hi ELSE 0
      BY <3>1, <3>2
    <3>4. DOMAIN number = 0..5 /\ number = [k \in DOMAIN number |-> number[k]]
      BY <3>1
    <3>5. QED
      BY <3>3, <3>4
  <2>8. QED
    BY <2>1, <2>7
<1>16. CASE n = 1
  <2>1. data = d[1] * 64 + d[0] /\ d[1] \in Nat /\ d[0] \in Nat /\ d[0] < 64
    BY <1>4, <1>6, <1>7, <1>9, <1>16, LeadSays
  <2>2. data % 64 = d[0] /\ data \div 64 = d[1]
    BY <2>1
  <2>3. \A k \in 2..5 : d[k] = 0
    BY <1>6, <1>16 DEF CodingOf
  <2>4. \A k \in 0..5 : k = 0 \/ k = 1 \/ k \in 2..5
    OBVIOUS
  <2>5. \A k \in 0..5 : number[k] = d[k]
    BY <1>15, <2>2, <2>3, <2>4
  <2>6. number = d
    BY <1>6, <1>15, <2>5 DEF Numbers
  <2>7. AsSent(n, s, r)'
    BY <1>1, <1>5, <1>12, <1>16, <2>6 DEF Progress, AsSent
  <2>8. QED
    BY <1>12, <1>14, <1>16, <2>7 DEF Progress
<1>17. CASE n # 1
  <2>1. CASE n = 7
    <3>1. data % 64 = 0 /\ data \div 64 = 0
      BY <1>9, <2>1
    <3>2. \A k \in 0..5 : number[k] = 0 /\ ~(n - 1 + k <= 5)
      BY <1>15, <2>1, <3>1
    <3>3. QED
      BY <1>1, <1>5, <1>12, <1>14, <1>17, <3>2 DEF Progress, AsSent
  <2>2. CASE n \in 2..6
    <3>1. data = d[n - 1] /\ d[n - 1] < 64 /\ d[n - 1] \in Nat
      <4>1. n - 1 \in 0..5
        BY <2>2
      <4>2. data = d[n - 1]
        BY <1>4, <1>6, <1>9, <2>2, LeadSays
      <4>3. QED
        BY <1>7, <4>1, <4>2
    <3>2. data % 64 = data /\ data \div 64 = 0
      BY <3>1
    <3>3. \A k \in n..5 : d[k] = 0
      BY <1>6, <2>2 DEF CodingOf
    <3>4. ASSUME NEW k \in 0..5
          PROVE  number[k] = IF n - 1 + k <= 5 THEN d[n - 1 + k] ELSE 0
      <4>1. CASE k = 0
        <5>1. n - 1 + k <= 5 /\ n - 1 + k = n - 1
          BY <2>2, <4>1
        <5>2. QED
          BY <1>15, <3>1, <3>2, <4>1, <5>1
      <4>2. CASE k # 0
        <5>1. number[k] = 0
          BY <1>15, <3>2, <4>2
        <5>2. n - 1 + k <= 5 => n - 1 + k \in n..5
          BY <2>2, <4>2
        <5>3. QED
          BY <3>3, <5>1, <5>2
      <4>3. QED
        BY <4>1, <4>2
    <3>5. QED
      BY <1>1, <1>5, <1>12, <1>14, <1>17, <3>4 DEF Progress, AsSent
  <2>3. QED
    BY <1>2, <1>17, <2>1, <2>2
<1>18. QED
  BY <1>16, <1>17

\* Each continuation byte has the next digit, and the last one the lowest.
LEMMA ReadContinuationReads ==
    ASSUME NEW c, NEW n, NEW s, NEW r, Sent(c, n, s, r), Progress(n, s, r), ReadContinuation
    PROVE  Progress(n, s, r)'
<1>1. step = "continuation" /\ Enough /\ step # "done"
  BY DEF ReadContinuation
<1>2. Width = 1 /\ n \in 1..7 /\ left \in 1..(n - 1) /\ at = 4 + n - left
  BY <1>1, FieldsHaveRoom DEF Progress, InPlace
<1>3. PICK d : d = sent.number
  OBVIOUS
<1>4. d \in Numbers /\ CodingOf(c, d, n)
  BY <1>3 DEF Sent, CodesOf, HeaderOK
<1>5. PICK six : six = d[left - 1]
  OBVIOUS
<1>6. left - 1 \in 0..5 /\ six \in Nat /\ six < 64
  <2>1. left - 1 \in 0..5
    BY <1>2
  <2>2. QED
    BY <1>4, <1>5, <2>1 DEF Numbers
<1>7. PICK i : i = n - left + 1
  OBVIOUS
<1>8. i \in 2..n /\ i \in 1..n /\ n - i = left - 1 /\ at + 1 = 4 + i
  BY <1>2, <1>7
<1>9. Byte(1) = 128 + six /\ at + 1 <= Len(stream)
  <2>1. Byte(1) = Written(sent)[at + 1] /\ at + 1 <= Len(stream)
    BY <1>1, <1>2, BytesArrive
  <2>2. Written(sent)[4 + i] = c[i]
    BY <1>8, NumberBytes
  <2>3. c[i] = 128 + d[left - 1]
    BY <1>4, <1>8 DEF CodingOf
  <2>4. QED
    BY <1>5, <1>8, <2>1, <2>2, <2>3
<1>10. ~(Byte(1) \div 64 # 2) /\ Byte(1) % 64 = six
  BY <1>6, <1>9
<1>11. Reads(IF left = 1 THEN "blockSize" ELSE "continuation",
             [hdr EXCEPT !.number = Shifted6(@, six)], codes, left - 1)
  BY <1>10 DEF ReadContinuation
<1>12. /\ step' = (IF left = 1 THEN "blockSize" ELSE "continuation")
       /\ at' = at + Width /\ left' = left - 1
       /\ hdr' = [hdr EXCEPT !.number = Shifted6(hdr.number, six)]
       /\ UNCHANGED <<codes, info, sent, stream, condition, outcome>>
  BY <1>11 DEF Reads
<1>13. PICK number : number = Shifted6(hdr.number, six)
  OBVIOUS
<1>14. ASSUME NEW k \in 0..5
       PROVE  number[k] = IF left - 1 + k <= 5 THEN d[left - 1 + k] ELSE 0
  <2>1. number[k] = IF k = 0 THEN six ELSE hdr.number[k - 1]
    BY <1>13 DEF Shifted6
  <2>2. CASE k = 0
    <3>1. left - 1 + k = left - 1 /\ left - 1 <= 5
      BY <1>6, <2>2
    <3>2. QED
      BY <1>5, <2>1, <2>2, <3>1
  <2>3. CASE k # 0
    <3>1. PICK j : j = k - 1
      OBVIOUS
    <3>2. j \in 0..5 /\ left + j = left - 1 + k
      BY <1>2, <2>3, <3>1
    <3>3. hdr.number[j] = IF left + j <= 5 THEN d[left + j] ELSE 0
      BY <1>1, <1>3, <3>2 DEF Progress, AsSent
    <3>4. QED
      BY <2>1, <2>3, <3>1, <3>2, <3>3
  <2>4. QED
    BY <2>2, <2>3
<1>15. InPlace(n, s, r)'
  <2>1. at' = 4 + n - (left - 1) /\ (left = 1 => at' = 4 + n)
    BY <1>2, <1>12
  <2>2. left # 1 => left - 1 \in 1..(n - 1)
    BY <1>2
  <2>3. at' <= Len(stream)
    BY <1>2, <1>9, <1>12
  <2>4. QED
    BY <1>12, <2>1, <2>2, <2>3 DEF InPlace
<1>16. CASE left = 1
  <2>1. \A k \in 0..5 : number[k] = d[k]
    <3>1. \A k \in 0..5 : left - 1 + k = k /\ k <= 5
      BY <1>16
    <3>2. QED
      BY <1>14, <3>1
  <2>2. number = d
    BY <1>4, <1>13, <2>1 DEF Numbers, Shifted6
  <2>3. AsSent(n, s, r)'
    BY <1>1, <1>3, <1>12, <1>13, <1>16, <2>2 DEF Progress, AsSent
  <2>4. QED
    BY <1>12, <1>15, <1>16, <2>3 DEF Progress
<1>17. CASE left # 1
  BY <1>1, <1>3, <1>12, <1>13, <1>14, <1>15, <1>17 DEF Progress, AsSent
<1>18. QED
  BY <1>16, <1>17

\* What the extension of a code holds is its value.
LEMMA ValueArrives ==
    ASSUME NEW c, NEW n, NEW s, NEW r, Sent(c, n, s, r), Progress(n, s, r), step # "done",
           Enough, NEW e, CodeOK(e), Width = e.bytes, ExtensionAt(Written(sent), at, e)
    PROVE  e.bytes # 0 => Value = e.value
<1>1. \A i \in 1..Width : Byte(i) = Written(sent)[at + i]
  BY BytesArrive
<1>2. CASE e.bytes = 1
  <2>1. Byte(1) = Written(sent)[at + 1]
    BY <1>1, <1>2
  <2>2. QED
    BY <1>2, <2>1 DEF ExtensionAt, Value
<1>3. CASE e.bytes = 2
  <2>1. Byte(1) = Written(sent)[at + 1] /\ Byte(2) = Written(sent)[at + 2]
    BY <1>1, <1>3
  <2>2. QED
    BY <1>3, <2>1 DEF ExtensionAt, Value
<1>4. e.bytes = 0 \/ e.bytes = 1 \/ e.bytes = 2
  BY DEF CodeOK
<1>5. QED
  BY <1>2, <1>3, <1>4

\* The block size is the one that was sent, whatever code it has.
LEMMA ReadBlockSizeReads ==
    ASSUME NEW c, NEW n, NEW s, NEW r, Sent(c, n, s, r), Progress(n, s, r), ReadBlockSize
    PROVE  Progress(n, s, r)'
<1>1. step = "blockSize" /\ Enough /\ step # "done"
  BY DEF ReadBlockSize
<1>2. /\ Width = s.bytes /\ at = 4 + n /\ n \in 1..7 /\ s.bytes \in 0..2
      /\ codes[1] = s.code /\ at + Width <= Len(stream)
  <2>1. Width = s.bytes /\ n \in 1..7 /\ s.bytes \in 0..2 /\ at + Width <= Len(stream)
    BY <1>1, FieldsHaveRoom, BytesArrive
  <2>2. at = 4 + n /\ codes = <<s.code, r.code>>
    BY <1>1 DEF Progress, InPlace, AsSent
  <2>3. QED
    BY <2>1, <2>2
<1>3. s.bytes # 0 => Value = s.value
  <2>1. CodeOK(s) /\ ExtensionAt(Written(sent), at, s)
    BY <1>2 DEF Sent, CodesOf, LaidOut
  <2>2. QED
    BY <1>1, <1>2, <2>1, ValueArrives
<1>4. SizeCodeFor(s, sent.blockSize)
  BY DEF Sent, CodesOf
<1>5. PICK x, size : x = s.code /\ size = sent.blockSize
  OBVIOUS
<1>6. PICK y : y = CASE x = 1 -> 192
                     [] x \in 2..5 -> Doubled(576, x - 2)
                     [] x \in {6, 7} -> Value + 1
                     [] OTHER -> Doubled(256, x - 8)
  OBVIOUS
<1>7. x # 0 /\ y = size
  <2>1. CASE x = 1 /\ size = 192
    BY <1>6, <2>1
  <2>2. CASE \E k \in 0..3 : x = 2 + k /\ size = Doubled(576, k)
    <3>1. PICK k \in 0..3 : x = 2 + k /\ size = Doubled(576, k)
      BY <2>2
    <3>2. x \in 2..5 /\ x - 2 = k
      BY <3>1
    <3>3. QED
      BY <1>6, <3>1, <3>2
  <2>3. CASE \E k \in 0..7 : x = 8 + k /\ size = Doubled(256, k)
    <3>1. PICK k \in 0..7 : x = 8 + k /\ size = Doubled(256, k)
      BY <2>3
    <3>2. x # 0 /\ x # 1 /\ x \notin 2..5 /\ x \notin {6, 7} /\ x - 8 = k
      BY <3>1
    <3>3. QED
      BY <1>6, <3>1, <3>2
  <2>4. CASE x \in {6, 7} /\ Value = size - 1
    <3>1. size \in Int
      <4>1. size \in 1..MaxBlockSize
        BY <1>5 DEF Sent, HeaderOK
      <4>2. QED
        BY <4>1
    <3>2. y = Value + 1
      BY <1>6, <2>4
    <3>3. QED
      BY <2>4, <3>1, <3>2
  <2>5. QED
    BY <1>3, <1>4, <1>5, <2>1, <2>2, <2>3, <2>4 DEF SizeCodeFor
<1>8. Reads("rate", [hdr EXCEPT !.blockSize = y], codes, left)
  BY <1>2, <1>5, <1>6, <1>7 DEF ReadBlockSize
<1>9. /\ step' = "rate" /\ at' = at + Width /\ hdr' = [hdr EXCEPT !.blockSize = y]
      /\ UNCHANGED <<codes, info, sent, stream, condition, outcome>>
  BY <1>8 DEF Reads
<1>10. at' = 4 + n + s.bytes
  BY <1>2, <1>9
<1>11. InPlace(n, s, r)'
  BY <1>2, <1>9, <1>10 DEF InPlace
<1>12. AsSent(n, s, r)'
  BY <1>1, <1>5, <1>7, <1>9 DEF Progress, AsSent
<1>13. QED
  BY <1>9, <1>11, <1>12 DEF Progress

\* The rate and the depth are those that were sent, or STREAMINFO's.
LEMMA ReadRateAndDepthReads ==
    ASSUME NEW c, NEW n, NEW s, NEW r, Sent(c, n, s, r), Progress(n, s, r), ReadRateAndDepth
    PROVE  Progress(n, s, r)'
<1>1. step = "rate" /\ Enough /\ step # "done"
  BY DEF ReadRateAndDepth
<1>2. /\ Width = r.bytes /\ at = 4 + n + s.bytes /\ n \in 1..7 /\ s.bytes \in 0..2 /\ r.bytes \in 0..2
      /\ codes[2] = r.code /\ at + Width <= Len(stream)
  <2>1. /\ Width = r.bytes /\ n \in 1..7 /\ s.bytes \in 0..2 /\ r.bytes \in 0..2
        /\ at + Width <= Len(stream)
    BY <1>1, FieldsHaveRoom, BytesArrive
  <2>2. at = 4 + n + s.bytes /\ codes = <<s.code, r.code>>
    BY <1>1 DEF Progress, InPlace, AsSent
  <2>3. QED
    BY <2>1, <2>2
<1>3. r.bytes # 0 => Value = r.value
  <2>1. CodeOK(r) /\ ExtensionAt(Written(sent), at, r)
    BY <1>2 DEF Sent, CodesOf, LaidOut
  <2>2. QED
    BY <1>1, <1>2, <2>1, ValueArrives
<1>4. RateCodeFor(r, sent.rate)
  BY DEF Sent, CodesOf
<1>5. PICK x, sr, d : x = r.code /\ sr = sent.rate /\ d = BitDepthCode(sent.depth)
  OBVIOUS
<1>6. PICK y : y = CASE x = 0 -> info.rate
                     [] x \in DOMAIN Rates -> Rates[x]
                     [] x = 12 -> Value * 1000
                     [] x = 13 -> Value
                     [] x = 14 -> Value * 10
  OBVIOUS
<1>7. DOMAIN Rates = 1..11
  BY DEF Rates
<1>8. x # 15 /\ y = (IF x = 0 THEN info.rate ELSE sr)
  <2>1. CASE x = 0
    <3>1. x \notin DOMAIN Rates /\ x # 15
      BY <1>7, <2>1
    <3>2. QED
      BY <1>6, <2>1, <3>1
  <2>2. CASE x \in 1..11 /\ Rates[x] = sr
    <3>1. x # 0 /\ x # 15 /\ x # 12 /\ x # 13 /\ x # 14
      BY <2>2
    <3>2. QED
      BY <1>6, <1>7, <2>2, <3>1
  <2>3. CASE x = 12 /\ sr = Value * 1000
    <3>1. x \notin DOMAIN Rates
      BY <1>7, <2>3
    <3>2. QED
      BY <1>6, <2>3, <3>1
  <2>4. CASE x = 13 /\ sr = Value
    <3>1. x \notin DOMAIN Rates
      BY <1>7, <2>4
    <3>2. QED
      BY <1>6, <2>4, <3>1
  <2>5. CASE x = 14 /\ sr = Value * 10
    <3>1. x \notin DOMAIN Rates
      BY <1>7, <2>5
    <3>2. QED
      BY <1>6, <2>5, <3>1
  <2>6. QED
    BY <1>3, <1>4, <1>5, <2>1, <2>2, <2>3, <2>4, <2>5 DEF RateCodeFor
<1>9. hdr.depth = d /\ DepthCodeFor(d, sent.depth)
  BY <1>1, <1>5, DepthCodes DEF Progress, AsSent
<1>10. PICK z : z = IF d = 0 THEN info.depth ELSE Depths[d]
  OBVIOUS
<1>11. d # 3 /\ z = (IF d = 0 THEN info.depth ELSE sent.depth)
  BY <1>9, <1>10 DEF DepthCodeFor
<1>12. Reads("crc", [hdr EXCEPT !.rate = y, !.depth = z], codes, left)
  <2>1. IF codes[2] = 15 \/ hdr.depth = 3 THEN Fail("unsupported")
        ELSE Reads("crc",
                  [hdr EXCEPT
                      !.rate = CASE codes[2] = 0 -> info.rate
                                 [] codes[2] \in DOMAIN Rates -> Rates[codes[2]]
                                 [] codes[2] = 12 -> Value * 1000
                                 [] codes[2] = 13 -> Value
                                 [] codes[2] = 14 -> Value * 10,
                      !.depth = IF hdr.depth = 0 THEN info.depth ELSE Depths[hdr.depth]],
                  codes, left)
    BY Zenon DEF ReadRateAndDepth
  <2>2. codes[2] = x
    BY <1>2, <1>5
  <2>3. QED
    BY <1>6, <1>8, <1>9, <1>10, <1>11, <2>1, <2>2
<1>13. /\ step' = "crc" /\ at' = at + Width /\ hdr' = [hdr EXCEPT !.rate = y, !.depth = z]
       /\ UNCHANGED <<codes, info, sent, stream, condition, outcome>>
  BY <1>12 DEF Reads
<1>14. at' = 4 + n + s.bytes + r.bytes
  BY <1>2, <1>13
<1>15. InPlace(n, s, r)'
  BY <1>2, <1>13, <1>14 DEF InPlace
<1>16. RateRead(r)' /\ DepthRead'
  <2>1. DOMAIN hdr = {"blockSize", "rate", "depth", "channels", "number", "variable"}
    BY DEF Progress, AsSent
  <2>2. hdr'.rate = y /\ hdr'.depth = z
    BY <1>13, <2>1
  <2>3. QED
    BY <1>5, <1>8, <1>11, <1>13, <2>2 DEF RateRead, DepthRead
<1>17. AsSent(n, s, r)'
  BY <1>1, <1>13, <1>16 DEF Progress, AsSent
<1>18. QED
  BY <1>13, <1>15, <1>17 DEF Progress

\* The CRC is that of the bytes that were written, so the header is accepted.
LEMMA ReadCrcReads ==
    ASSUME NEW c, NEW n, NEW s, NEW r, Sent(c, n, s, r), Progress(n, s, r), ReadCrc
    PROVE  Progress(n, s, r)'
<1>1. step = "crc" /\ Enough /\ step # "done"
  BY DEF ReadCrc
<1>2. /\ Width = 1 /\ at = 4 + n + s.bytes + r.bytes
      /\ n \in 1..7 /\ s.bytes \in 0..2 /\ r.bytes \in 0..2 /\ at \in Nat
  BY <1>1, FieldsHaveRoom DEF Progress, InPlace
<1>3. PICK w, p : w = Written(sent) /\ p = at
  OBVIOUS
<1>4. Len(w) = p + 1 /\ p \in Nat
  <2>1. Len(w) = 5 + n + s.bytes + r.bytes
    BY <1>3 DEF Sent, LaidOut
  <2>2. n \in Nat /\ s.bytes \in Nat /\ r.bytes \in Nat
    BY <1>2
  <2>3. p = 4 + n + s.bytes + r.bytes
    BY <1>2, <1>3
  <2>4. QED
    BY <2>1, <2>2, <2>3
<1>5. Byte(1) = w[p + 1] /\ p + 1 <= Len(stream)
  BY <1>1, <1>2, <1>3, BytesArrive
<1>6. condition = "whole"
  BY <1>4, <1>5, <1>3 DEF Sent, Follows
<1>7. Len(w) - 1 = p
  BY <1>4
<1>8. SubSeq(stream, 1, p) = SubSeq(w, 1, p)
  BY <1>3, <1>6, <1>7 DEF Sent, Follows
<1>9. w[p + 1] = Checksum8(SubSeq(w, 1, p))
  BY <1>3, <1>4, <1>7 DEF Sent, LaidOut
<1>10. Byte(1) = Checksum8(SubSeq(stream, 1, at))
  BY <1>3, <1>5, <1>8, <1>9
<1>11. /\ at' = at + 1 /\ step' = "done" /\ outcome' = "ok"
       /\ UNCHANGED <<info, sent, stream, condition, codes, left, hdr>>
  BY <1>10 DEF ReadCrc
<1>12. at' = Len(Written(sent))
  BY <1>3, <1>4, <1>11
<1>13. /\ hdr.channels = sent.channels /\ hdr.number = sent.number /\ hdr.blockSize = sent.blockSize
       /\ RateRead(r) /\ DepthRead
  BY <1>1 DEF Progress, AsSent
<1>14. Ended(r)'
  BY <1>6, <1>11, <1>12, <1>13 DEF Ended, RateRead, DepthRead
<1>15. InPlace(n, s, r)' /\ AsSent(n, s, r)'
  BY <1>11 DEF Progress, InPlace, AsSent
<1>16. QED
  BY <1>14, <1>15 DEF Progress

-----------------------------------------------------------------------------
(* The streams that are read hold the headers that were sent.               *)

\* Sequences with the same first elements have the same beginning.
LEMMA SameBeginning ==
    ASSUME NEW S, NEW a \in Seq(S), NEW b \in Seq(S), NEW m \in Nat, m <= Len(a), m <= Len(b),
           \A i \in 1..m : a[i] = b[i]
    PROVE  SubSeq(a, 1, m) = SubSeq(b, 1, m)
<1>1. PICK x, y : x = SubSeq(a, 1, m) /\ y = SubSeq(b, 1, m)
  OBVIOUS
<1>2. /\ x \in Seq(S) /\ Len(x) = m /\ \A i \in 1..m : x[i] = a[i]
      /\ y \in Seq(S) /\ Len(y) = m /\ \A i \in 1..m : y[i] = b[i]
  BY <1>1
<1>3. x = y
  BY <1>2, SeqEqual
<1>4. QED
  BY <1>1, <1>3

\* A sequence that begins with a header, or is a part of it, follows it.
LEMMA BeginningsFollow ==
    ASSUME NEW h, HeaderOK(h), NEW S, Nat \cup {Checksum8(Fields(h))} \subseteq S,
           NEW st \in Seq(S), NEW cond,
           \A i \in 1..Len(Written(h)) : i <= Len(st) => st[i] = Written(h)[i],
           cond = "whole" => Len(Written(h)) <= Len(st),
           cond = "cut" => Len(st) < Len(Written(h))
    PROVE  Follows(st, cond, Written(h))
<1>1. PICK w : w = Written(h)
  OBVIOUS
<1>2. w \in Seq(S)
  <2>1. w \in Seq(Nat \cup {Checksum8(Fields(h))})
    BY <1>1, HeadersAreLaidOut
  <2>2. QED
    BY <2>1
<1>3. Len(w) \in Nat /\ Len(w) > 0
  <2>1. PICK c, n, s, r : CodesOf(h, c, n, s, r) /\ LaidOut(w, h, c, n, s, r)
    BY <1>1, HeadersAreLaidOut
  <2>2. Len(w) = 5 + n + s.bytes + r.bytes /\ n \in 1..7 /\ s.bytes \in 0..2 /\ r.bytes \in 0..2
    BY <2>1 DEF LaidOut, CodesOf, CodingOf, CodeOK
  <2>3. QED
    BY <2>2
<1>4. cond = "whole" => SubSeq(st, 1, Len(w) - 1) = SubSeq(w, 1, Len(w) - 1)
  <2>1. HAVE cond = "whole"
  <2>2. PICK m : m = Len(w) - 1
    OBVIOUS
  <2>3. m \in Nat /\ m <= Len(w) /\ m <= Len(st) /\ \A i \in 1..m : i \in 1..Len(w) /\ i <= Len(st)
    BY <1>1, <1>3, <2>1, <2>2
  <2>4. \A i \in 1..m : st[i] = w[i]
    BY <1>1, <2>3
  <2>5. SubSeq(st, 1, m) = SubSeq(w, 1, m)
    BY <1>2, <2>3, <2>4, SameBeginning
  <2>6. QED
    BY <2>2, <2>5
<1>5. Len(st) \in Nat /\ (st = <<>> <=> Len(st) = 0)
  OBVIOUS
<1>6. QED
  BY <1>1, <1>4, <1>5 DEF Follows

\* A sequence of bytes is one of naturals.
LEMMA BytesAreNaturals ==
    ASSUME NEW st \in Seq(Bytes)
    PROVE  st \in Seq(Nat)
<1>1. Bytes \subseteq Nat
  BY DEF Bytes
<1>2. PICK n \in Nat : n = Len(st) /\ st \in [1..n -> Bytes]
  OBVIOUS
<1>3. st \in [1..n -> Nat]
  BY <1>1, <1>2
<1>4. QED
  BY <1>3

\* So does a packet that is not damaged.
LEMMA PacketsFollow ==
    ASSUME NEW p \in Packets, p.condition # "damaged"
    PROVE  /\ HeaderOK(p.sent) /\ p.condition \in {"whole", "cut"}
           /\ Follows(p.stream, p.condition, Written(p.sent))
<1>1. PacketOK(p)
  BY PacketsAssumption
<1>2. HeaderOK(p.sent) /\ p.condition \in {"whole", "cut"}
  BY <1>1 DEF PacketOK
<1>3. PICK h, st, w, cond : h = p.sent /\ st = p.stream /\ w = Written(p.sent) /\ cond = p.condition
  OBVIOUS
<1>4. st \in Seq(Bytes)
  BY <1>1, <1>3 DEF PacketOK
<1>5. /\ cond = "whole" => Len(st) >= Len(w) /\ \A i \in 1..Len(w) : st[i] = w[i]
      /\ cond = "cut" => Len(st) < Len(w) /\ \A i \in 1..Len(st) : st[i] = w[i]
  BY <1>1, <1>3 DEF PacketOK
<1>6. \A i \in 1..Len(w) : i <= Len(st) => st[i] = w[i]
  <2>1. Len(st) \in Nat
    BY <1>4
  <2>2. QED
    BY <1>2, <1>3, <1>5, <2>1
<1>7. PICK S : S = Nat \cup {Checksum8(Fields(h))}
  OBVIOUS
<1>8. st \in Seq(S)
  <2>1. st \in Seq(Nat)
    BY <1>4, BytesAreNaturals
  <2>2. QED
    BY <1>7, <2>1
<1>9. Follows(st, cond, w)
  <2>1. Len(w) \in Nat
    BY <1>2, <1>3, HeadersAreLaidOut
  <2>2. cond = "whole" => Len(w) <= Len(st)
    BY <1>4, <1>5, <2>1
  <2>3. w = Written(h) /\ HeaderOK(h) /\ Nat \cup {Checksum8(Fields(h))} \subseteq S
    BY <1>2, <1>3, <1>7
  <2>4. QED
    BY <1>5, <1>6, <1>8, <2>2, <2>3, BeginningsFollow
<1>10. QED
  BY <1>2, <1>3, <1>9

\* So does the stream of a decoder's first frame.
LEMMA FirstFrameFollows ==
    ASSUME NEW h, HeaderOK(h)
    PROVE  /\ Follows(Written(h) \o Body, "whole", Written(h))
           /\ \A k \in 0..(Len(Written(h)) - 1) : Follows(SubSeq(Written(h), 1, k), "cut", Written(h))
<1>1. PICK w, S : w = Written(h) /\ S = Nat \cup {Checksum8(Fields(h))}
  OBVIOUS
<1>2. w \in Seq(S) /\ Nat \cup {Checksum8(Fields(h))} \subseteq S
  BY <1>1, HeadersAreLaidOut
<1>3. Follows(w \o Body, "whole", w)
  <2>1. PICK st, b : b = Body /\ st = w \o b
    OBVIOUS
  <2>2. b \in Seq(S)
    <3>1. b = <<0, 0, 0>> /\ 0 \in S
      BY <1>2, <2>1 DEF Body
    <3>2. QED
      BY <3>1
  <2>3. st \in Seq(S) /\ Len(w) <= Len(st) /\ \A i \in 1..Len(w) : st[i] = w[i]
    BY <1>2, <2>1, <2>2
  <2>4. Follows(st, "whole", w)
    BY <1>1, <1>2, <2>3, BeginningsFollow
  <2>5. QED
    BY <2>1, <2>4
<1>4. ASSUME NEW k \in 0..(Len(w) - 1) PROVE Follows(SubSeq(w, 1, k), "cut", w)
  <2>1. PICK st : st = SubSeq(w, 1, k)
    OBVIOUS
  <2>2. k \in Nat /\ k < Len(w) /\ Len(w) \in Nat
    BY <1>2
  <2>3. st \in Seq(S) /\ Len(st) = k /\ \A i \in 1..k : st[i] = w[i]
    BY <1>2, <2>1, <2>2
  <2>4. Len(st) < Len(w) /\ \A i \in 1..Len(w) : i <= Len(st) => st[i] = w[i]
    BY <2>2, <2>3
  <2>5. Follows(st, "cut", w)
    BY <1>1, <1>2, <2>3, <2>4, BeginningsFollow
  <2>6. QED
    BY <2>1, <2>5
<1>5. QED
  BY <1>1, <1>3, <1>4

\* A header that follows its stream is about to be read.
LEMMA StartsInPlace ==
    ASSUME NEW n, NEW s, NEW r, at = 0, step = "sync", hdr = NoHeader, Len(stream) \in Nat
    PROVE  Progress(n, s, r)
<1>1. at <= Len(stream)
  OBVIOUS
<1>2. InPlace(n, s, r)
  BY <1>1 DEF InPlace
<1>3. AsSent(n, s, r)
  BY DEF AsSent, NoHeader
<1>4. QED
  BY <1>2, <1>3 DEF Progress

-----------------------------------------------------------------------------
(* The invariant holds throughout.                                          *)

\* A new decoder, or one made for its first frame, satisfies the invariant.
LEMMA ReadingStarts == DecoderInit => ReadingInv
<1> SUFFICES ASSUME DecoderInit PROVE ReadingInv
  OBVIOUS
<1>1. CASE Init /\ stage = "header"
  <2>1. sent \in Headers /\ at = 0 /\ step = "sync" /\ hdr = NoHeader
    BY <1>1 DEF Init
  <2>2. PICK h : h = sent
    OBVIOUS
  <2>3. HeaderOK(h)
    BY <2>1, <2>2, HeadersAssumption
  <2>4. PICK c, n, s, r : CodesOf(h, c, n, s, r) /\ LaidOut(Written(h), h, c, n, s, r)
    BY <2>3, HeadersAreLaidOut
  <2>5. \/ condition = "whole" /\ stream = Written(sent) \o Body
        \/ condition = "cut" /\ \E k \in 0..(Len(Written(sent)) - 1) : stream = SubSeq(Written(sent), 1, k)
        \/ condition = "damaged"
    BY <1>1, Zenon DEF Init
  <2>6. ASSUME condition # "damaged" PROVE ReadingInv
    <3>1. Follows(stream, condition, Written(h)) /\ condition \in {"whole", "cut"}
      <4>1. CASE condition = "whole" /\ stream = Written(h) \o Body
        BY <2>3, <4>1, FirstFrameFollows
      <4>2. CASE condition = "cut" /\ \E k \in 0..(Len(Written(h)) - 1) : stream = SubSeq(Written(h), 1, k)
        BY <2>3, <4>2, FirstFrameFollows
      <4>3. QED
        BY <2>2, <2>5, <2>6, <4>1, <4>2
    <3>2. Sent(c, n, s, r)
      BY <2>2, <2>3, <2>4, <3>1 DEF Sent
    <3>3. Len(stream) \in Nat
      BY <3>1 DEF Follows
    <3>4. Progress(n, s, r)
      BY <2>1, <3>3, StartsInPlace
    <3>5. QED
      BY <1>1, <3>2, <3>4 DEF ReadingInv
  <2>7. QED
    BY <1>1, <2>6 DEF ReadingInv
<1>2. CASE stage = "new" /\ step = "sync"
  BY <1>2 DEF ReadingInv
<1>3. QED
  BY <1>1, <1>2, Zenon DEF DecoderInit

\* Every step of reading a header satisfies it again.
LEMMA FieldsKeepReading ==
    ASSUME ReadingInv, stage = "header", Next, UNCHANGED decoderVars
    PROVE  ReadingInv'
<1>1. UNCHANGED <<info, sent, stream, condition>>
  BY DEF Next, StreamEnds, ReadSync, ReadCodes, ReadLead, ReadContinuation, ReadBlockSize,
         ReadRateAndDepth, ReadCrc, Fail, Reads
<1>2. stage' = "header"
  BY DEF decoderVars
<1>3. CASE condition = "damaged"
  BY <1>1, <1>2, <1>3 DEF ReadingInv
<1>4. CASE condition # "damaged"
  <2>1. PICK c, n, s, r : Sent(c, n, s, r) /\ Progress(n, s, r)
    BY <1>4 DEF ReadingInv
  <2>2. Progress(n, s, r)'
    BY <2>1, StreamEndsReads, ReadSyncReads, ReadCodesReads, ReadLeadReads,
       ReadContinuationReads, ReadBlockSizeReads, ReadRateAndDepthReads, ReadCrcReads DEF Next
  <2>3. Sent(c, n, s, r)'
    BY <1>1, <2>1, SentStays
  <2>4. QED
    BY <1>2, <2>2, <2>3 DEF ReadingInv
<1>5. QED
  BY <1>3, <1>4

\* A packet that is given to the decoder does.
LEMMA PacketsKeepReading ==
    ASSUME NEW p \in Packets, DecodeInterleaved(p)
    PROVE  ReadingInv'
<1>1. /\ stage' = "header" /\ sent' = p.sent /\ stream' = p.stream /\ condition' = p.condition
      /\ at' = 0 /\ step' = "sync" /\ hdr' = NoHeader
  BY DEF DecodeInterleaved
<1>2. CASE p.condition = "damaged"
  BY <1>1, <1>2 DEF ReadingInv
<1>3. CASE p.condition # "damaged"
  <2>1. /\ HeaderOK(p.sent) /\ p.condition \in {"whole", "cut"}
        /\ Follows(p.stream, p.condition, Written(p.sent))
    BY <1>3, PacketsFollow
  <2>2. PICK h : h = p.sent
    OBVIOUS
  <2>3. PICK c, n, s, r : CodesOf(h, c, n, s, r) /\ LaidOut(Written(h), h, c, n, s, r)
    BY <2>1, <2>2, HeadersAreLaidOut
  <2>4. Sent(c, n, s, r)'
    BY <1>1, <2>1, <2>2, <2>3 DEF Sent
  <2>5. 0 <= Len(p.stream)
    BY <2>1 DEF Follows
  <2>6. InPlace(n, s, r)'
    BY <1>1, <2>5 DEF InPlace
  <2>7. AsSent(n, s, r)'
    BY <1>1 DEF AsSent, NoHeader
  <2>8. Progress(n, s, r)'
    BY <1>1, <2>6, <2>7 DEF Progress
  <2>9. QED
    BY <1>1, <2>4, <2>8 DEF ReadingInv
<1>4. QED
  BY <1>2, <1>3

\* A step that leaves what is read, and asks for no header, does.
LEMMA OthersKeepReading ==
    ASSUME ReadingInv, UNCHANGED vars, stage' \notin {"new", "header"}
    PROVE  ReadingInv'
<1>1. CASE step = "sync" \/ condition = "damaged"
  BY <1>1 DEF ReadingInv, vars
<1>2. CASE step # "sync" /\ condition # "damaged"
  <2>1. PICK c, n, s, r : Sent(c, n, s, r) /\ Progress(n, s, r)
    BY <1>2 DEF ReadingInv
  <2>2. Sent(c, n, s, r)'
    BY <2>1, SentStays DEF vars
  <2>3. Progress(n, s, r)'
    BY <2>1 DEF Progress, InPlace, AsSent, Ended, RateRead, DepthRead, vars
  <2>4. QED
    BY <2>2, <2>3 DEF ReadingInv
<1>3. QED
  BY <1>1, <1>2

\* Every step of the decoder keeps the invariant.
LEMMA ReadingStays == ReadingInv /\ [DecoderNext]_allVars => ReadingInv'
<1> SUFFICES ASSUME ReadingInv, [DecoderNext]_allVars PROVE ReadingInv'
  OBVIOUS
<1>1. CASE stage = "header" /\ Next /\ UNCHANGED decoderVars
  BY <1>1, FieldsKeepReading
<1>2. ASSUME NEW b \in Infos, NewFrameDecoder(b) PROVE ReadingInv'
  BY <1>2 DEF NewFrameDecoder, ReadingInv
<1>3. ASSUME NEW p \in Packets, DecodeInterleaved(p) PROVE ReadingInv'
  BY <1>3, PacketsKeepReading
<1>4. ASSUME NEW e, Fails(e) PROVE ReadingInv'
  BY <1>4, OthersKeepReading DEF Fails, Returns
<1>5. CASE HeaderFails
  BY <1>4, <1>5 DEF HeaderFails
<1>6. CASE EnterBody
  BY <1>6, OthersKeepReading DEF EnterBody
<1>7. CASE BodyEnds
  BY <1>4, <1>7 DEF BodyEnds
<1>8. CASE SubframeFails
  BY <1>4, <1>8 DEF SubframeFails
<1>9. CASE DecodeSubframe
  <2>1. UNCHANGED vars /\ stage' \notin {"new", "header"}
    BY <1>9 DEF DecodeSubframe
  <2>2. QED
    BY <2>1, OthersKeepReading
<1>10. CASE Check
  <2>1. CASE \E e : Fails(e)
    BY <1>4, <2>1
  <2>2. CASE UNCHANGED vars /\ stage' = "decoded"
    BY <2>2, OthersKeepReading
  <2>3. QED
    BY <1>10, <2>1, <2>2 DEF Check
<1>11. CASE Pack
  <2>1. UNCHANGED vars /\ stage' = "idle"
    BY <1>11 DEF Pack, Fails, Returns
  <2>2. QED
    BY <2>1, OthersKeepReading
<1>12. CASE UNCHANGED allVars
  <2>1. UNCHANGED vars /\ UNCHANGED stage
    BY <1>12 DEF allVars, decoderVars
  <2>2. CASE stage \in {"new", "header"}
    <3>1. CASE (step = "sync" /\ stage # "header") \/ condition = "damaged"
      BY <2>1, <3>1 DEF ReadingInv, vars
    <3>2. CASE ~(step = "sync" /\ stage # "header") /\ condition # "damaged"
      <4>1. PICK c, n, s, r : Sent(c, n, s, r) /\ Progress(n, s, r)
        BY <3>2 DEF ReadingInv
      <4>2. Sent(c, n, s, r)'
        BY <2>1, <4>1, SentStays DEF vars
      <4>3. Progress(n, s, r)'
        BY <2>1, <4>1 DEF Progress, InPlace, AsSent, Ended, RateRead, DepthRead, vars
      <4>4. QED
        BY <2>1, <4>2, <4>3 DEF ReadingInv, vars
    <3>3. QED
      BY <3>1, <3>2
  <2>3. CASE stage \notin {"new", "header"}
    BY <2>1, <2>3, OthersKeepReading
  <2>4. QED
    BY <2>2, <2>3
<1>13. QED
  BY <1>1, <1>2, <1>3, <1>5, <1>6, <1>7, <1>8, <1>9, <1>10, <1>11, <1>12 DEF DecoderNext

\* The invariant says what is to be shown.
LEMMA ReadingIsRight == ReadingInv => HeadersReadBack
<1> SUFFICES ASSUME ReadingInv, step = "done", condition \in {"whole", "cut"}
             PROVE  HeadersReadBack
  BY DEF HeadersReadBack
<1>1. PICK c, n, s, r : Sent(c, n, s, r) /\ Progress(n, s, r)
  BY DEF ReadingInv
<1>2. Ended(r) /\ hdr.variable = FALSE
  BY <1>1 DEF Progress, AsSent
<1>3. CASE condition = "whole"
  <2>1. /\ outcome = "ok" /\ at = Len(Written(sent))
        /\ hdr.channels = sent.channels /\ hdr.number = sent.number
        /\ hdr.blockSize = sent.blockSize /\ RateRead(r) /\ DepthRead
    BY <1>2, <1>3 DEF Ended
  <2>2. info = InfoFor(sent) => hdr.rate = sent.rate /\ hdr.depth = sent.depth
    BY <2>1 DEF InfoFor, RateRead, DepthRead
  <2>3. DOMAIN sent = {"blockSize", "rate", "depth", "channels", "number"}
    BY <1>1 DEF Sent, HeaderOK
  <2>4. info = InfoFor(sent) => \A f \in DOMAIN sent : hdr[f] = sent[f]
    BY <2>1, <2>2, <2>3
  <2>5. QED
    BY <1>2, <1>3, <2>1, <2>4, Zenon DEF HeadersReadBack
<1>4. CASE condition = "cut"
  BY <1>2, <1>4 DEF Ended, HeadersReadBack
<1>5. QED
  BY <1>3, <1>4

\* In every run of the decoder, over every header and packet, a header that has
\* been written is read back whole, and one that is cut off is told from a clean end.
THEOREM HeadersAreReadBack == DecoderSpec => []HeadersReadBack
<1>1. DecoderSpec => []ReadingInv
  BY ReadingStarts, ReadingStays, PTL DEF DecoderSpec
<1>2. QED
  BY <1>1, ReadingIsRight, PTL

-----------------------------------------------------------------------------
(* What a damaged header meets.                                             *)

\* A header that is accepted ends in the checksum of the bytes before it.
CheckedInv ==
    /\ stream \in Seq(Bytes) /\ at \in Nat
    /\ stage = "header" => HeaderOK(sent)
    /\ step # "done" => outcome = "none"
    /\ outcome = "ok" => /\ HeaderOK(sent) /\ at \in 1..Len(stream)
                         /\ stream[at] = Checksum8(SubSeq(stream, 1, at - 1))

\* A new decoder, or one made for its first frame, satisfies it.
LEMMA CheckedStarts == DecoderInit => CheckedInv
<1> SUFFICES ASSUME DecoderInit PROVE CheckedInv
  OBVIOUS
<1>1. CASE Init /\ stage = "header"
  <2>1. /\ sent \in Headers /\ at = 0 /\ outcome = "none"
    BY <1>1 DEF Init
  <2>2. HeaderOK(sent)
    BY <2>1, HeadersAssumption
  <2>3. PICK w : w = Written(sent) /\ w \in Seq(Bytes)
    BY <2>2, HeadersAreBytes
  <2>4. Body \in Seq(Bytes)
    BY DEF Body, Bytes
  <2>5. stream \in Seq(Bytes)
    <3>1. CASE stream = w \o Body
      BY <2>3, <2>4, <3>1
    <3>2. CASE \E n \in 0..(Len(w) - 1) : stream = SubSeq(w, 1, n)
      BY <2>3, <3>2
    <3>3. CASE \E i \in 1..Len(w), x \in NoiseBytes : stream = [w EXCEPT ![i] = x] \o Body
      <4>1. PICK i \in 1..Len(w), x \in NoiseBytes : stream = [w EXCEPT ![i] = x] \o Body
        BY <3>3
      <4>2. x \in Bytes
        BY NoiseAssumption
      <4>3. PICK v : v = [w EXCEPT ![i] = x]
        OBVIOUS
      <4>4. v \in Seq(Bytes)
        BY <2>3, <4>2, <4>3
      <4>5. QED
        BY <2>4, <4>1, <4>3, <4>4
    <3>4. QED
      BY <1>1, <2>3, <3>1, <3>2, <3>3, Zenon DEF Init
  <2>6. QED
    BY <2>1, <2>2, <2>5 DEF CheckedInv
<1>2. CASE stage = "new" /\ stream = <<>> /\ at = 0 /\ outcome = "none"
  BY <1>2 DEF CheckedInv
<1>3. QED
  BY <1>1, <1>2, Zenon DEF DecoderInit

\* A field reads none, one or two bytes.
LEMMA Widths ==
    ASSUME step \in {"sync", "codes", "lead", "continuation", "crc", "blockSize", "rate"}
    PROVE  Width \in 0..2 /\ (step = "crc" => Width = 1)
BY DEF Width

\* Every step of reading keeps it: no step but the last accepts the header.
LEMMA FieldsKeepChecked ==
    ASSUME CheckedInv, stage = "header", Next, UNCHANGED decoderVars
    PROVE  CheckedInv'
<1>1. stream' = stream /\ sent' = sent /\ stage' = stage /\ HeaderOK(sent)
  BY DEF Next, StreamEnds, ReadSync, ReadCodes, ReadLead, ReadContinuation, ReadBlockSize,
         ReadRateAndDepth, ReadCrc, Fail, Reads, decoderVars, CheckedInv
<1>2. ASSUME NEW e, Fail(e), e # "ok" PROVE CheckedInv'
  <2>1. outcome' = e /\ at' = at /\ step' = "done"
    BY <1>2 DEF Fail
  <2>2. QED
    BY <1>1, <1>2, <2>1 DEF CheckedInv
<1>3. ASSUME NEW s, NEW h, NEW c, NEW l, Reads(s, h, c, l), step # "done", s # "done",
             step \in {"sync", "codes", "lead", "continuation", "blockSize", "rate"}
      PROVE  CheckedInv'
  <2>1. at' = at + Width /\ outcome' = outcome /\ step' = s
    BY <1>3 DEF Reads
  <2>2. Width \in 0..2
    BY <1>3, Widths
  <2>3. at' \in Nat
    BY <2>1, <2>2 DEF CheckedInv
  <2>4. outcome = "none"
    BY <1>3 DEF CheckedInv
  <2>5. QED
    BY <1>1, <1>3, <2>1, <2>3, <2>4 DEF CheckedInv
<1>4. CASE StreamEnds
  <2>1. PICK e : e = (IF step = "sync" /\ Len(stream) = 0 THEN "eof" ELSE "unexpected")
    OBVIOUS
  <2>2. Fail(e) /\ e # "ok"
    BY <1>4, <2>1 DEF StreamEnds
  <2>3. QED
    BY <1>2, <2>2
<1>5. CASE ReadSync
  BY <1>2, <1>3, <1>5 DEF ReadSync
<1>6. CASE ReadCodes
  BY <1>2, <1>3, <1>6 DEF ReadCodes
<1>7. CASE ReadLead
  <2>1. PICK b, n, d : /\ b = Byte(1) /\ n = LeadLength(b)
                       /\ d = [hdr EXCEPT !.number =
                               [NoHeader.number EXCEPT
                                   ![0] = (IF n = 7 THEN 0 ELSE b % LeadRange(n)) % 64,
                                   ![1] = (IF n = 7 THEN 0 ELSE b % LeadRange(n)) \div 64]]
    OBVIOUS
  <2>2. step = "lead" /\ (Fail("unsupported")
                          \/ Reads(IF n = 1 THEN "blockSize" ELSE "continuation", d, codes, n - 1))
    BY <1>7, <2>1, Zenon DEF ReadLead
  <2>3. (IF n = 1 THEN "blockSize" ELSE "continuation") # "done"
    OBVIOUS
  <2>4. QED
    BY <1>2, <1>3, <2>2, <2>3
<1>8. CASE ReadContinuation
  <2>1. (IF left = 1 THEN "blockSize" ELSE "continuation") # "done"
    OBVIOUS
  <2>2. QED
    BY <1>2, <1>3, <1>8, <2>1 DEF ReadContinuation
<1>9. CASE ReadBlockSize
  BY <1>2, <1>3, <1>9 DEF ReadBlockSize
<1>10. CASE ReadRateAndDepth
  BY <1>2, <1>3, <1>10 DEF ReadRateAndDepth
<1>11. CASE ReadCrc
  <2>1. CASE Fail("mismatch")
    BY <1>2, <2>1
  <2>2. CASE ~Fail("mismatch")
    <3>1. /\ step = "crc" /\ at + Width <= Len(stream) /\ stream[at + 1] = Checksum8(SubSeq(stream, 1, at))
          /\ at' = at + 1 /\ step' = "done" /\ outcome' = "ok"
      BY <1>11, <2>2 DEF ReadCrc, Enough, Byte
    <3>2. Width = 1
      BY <3>1, Widths
    <3>3. PICK a \in Nat : a = at /\ stream \in Seq(Bytes)
      BY DEF CheckedInv
    <3>4. a + 1 \in 1..Len(stream) /\ (a + 1) - 1 = a /\ a + 1 \in Nat
      BY <3>1, <3>2, <3>3
    <3>5. stream[a + 1] = Checksum8(SubSeq(stream, 1, (a + 1) - 1))
      BY <3>1, <3>3, <3>4
    <3>6. QED
      BY <1>1, <3>1, <3>3, <3>4, <3>5 DEF CheckedInv
  <2>3. QED
    BY <2>1, <2>2
<1>12. QED
  BY <1>4, <1>5, <1>6, <1>7, <1>8, <1>9, <1>10, <1>11 DEF Next

\* Every step of the decoder does.
LEMMA CheckedStays == CheckedInv /\ [DecoderNext]_allVars => CheckedInv'
<1> SUFFICES ASSUME CheckedInv, [DecoderNext]_allVars PROVE CheckedInv'
  OBVIOUS
<1>1. CASE stage = "header" /\ Next /\ UNCHANGED decoderVars
  BY <1>1, FieldsKeepChecked
<1>2. ASSUME NEW b \in Infos, NewFrameDecoder(b) PROVE CheckedInv'
  <2>1. UNCHANGED <<sent, stream, at, step, outcome>> /\ stage' \in {"idle", "failed"}
    BY <1>2 DEF NewFrameDecoder
  <2>2. stage' # "header"
    BY <2>1
  <2>3. QED
    BY <2>1, <2>2 DEF CheckedInv
<1>3. ASSUME NEW p \in Packets, DecodeInterleaved(p) PROVE CheckedInv'
  <2>1. /\ sent' = p.sent /\ stream' = p.stream /\ at' = 0 /\ step' = "sync"
        /\ outcome' = "none"
    BY <1>3 DEF DecodeInterleaved
  <2>2. HeaderOK(p.sent) /\ p.stream \in Seq(Bytes)
    BY PacketsAssumption DEF PacketOK
  <2>3. QED
    BY <2>1, <2>2 DEF CheckedInv
<1>4. ASSUME UNCHANGED vars, stage' = "header" => stage = "header" PROVE CheckedInv'
  BY <1>4 DEF CheckedInv, vars
<1>5. ASSUME NEW e, Fails(e) PROVE UNCHANGED vars /\ stage' = "idle"
  BY <1>5 DEF Fails, Returns
<1>6. CASE HeaderFails
  BY <1>4, <1>5, <1>6 DEF HeaderFails
<1>7. CASE EnterBody
  BY <1>4, <1>7 DEF EnterBody
<1>8. CASE BodyEnds
  BY <1>4, <1>5, <1>8 DEF BodyEnds
<1>9. CASE SubframeFails
  BY <1>4, <1>5, <1>9 DEF SubframeFails
<1>10. CASE DecodeSubframe
  <2>1. UNCHANGED vars /\ stage' \in {"crc", stage} /\ stage = "subframes"
    BY <1>10 DEF DecodeSubframe
  <2>2. QED
    BY <1>4, <2>1
<1>11. CASE Check
  <2>1. CASE \E e : Fails(e)
    BY <1>4, <1>5, <2>1
  <2>2. CASE UNCHANGED vars /\ stage' = "decoded"
    BY <1>4, <2>2
  <2>3. QED
    BY <1>11, <2>1, <2>2 DEF Check
<1>12. CASE Pack
  <2>1. UNCHANGED vars /\ stage' = "idle"
    BY <1>12 DEF Pack, Fails, Returns
  <2>2. QED
    BY <1>4, <2>1
<1>13. CASE UNCHANGED allVars
  <2>1. UNCHANGED vars /\ stage' = stage
    BY <1>13 DEF allVars, decoderVars
  <2>2. QED
    BY <1>4, <2>1
<1>14. QED
  BY <1>1, <1>2, <1>3, <1>6, <1>7, <1>8, <1>9, <1>10, <1>11, <1>12, <1>13 DEF DecoderNext

\* A header with one byte damaged does not end in its checksum, be it that byte or another.
LEMMA CheckedIsCaught == CheckedInv => DamageIsCaught
<1> SUFFICES ASSUME CheckedInv, outcome = "ok", OneByteDamaged, at = Len(Written(sent))
             PROVE  FALSE
  BY DEF DamageIsCaught
<1>1. /\ HeaderOK(sent) /\ stream \in Seq(Bytes) /\ at \in 1..Len(stream) /\ at \in Nat
      /\ stream[at] = Checksum8(SubSeq(stream, 1, at - 1))
  BY DEF CheckedInv
<1>2. PICK f, w : f = Fields(sent) /\ w = Written(sent)
  OBVIOUS
<1>3. PICK n \in Nat : n = Len(f) /\ f \in Seq(Bytes)
  BY <1>1, <1>2, HeadersAreBytes
<1>4. at = n + 1 /\ (\A j \in 1..n : w[j] = f[j]) /\ w[n + 1] = Checksum8(f) /\ Len(w) = n + 1
  BY <1>1, <1>2, <1>3, HeadersAreBytes
<1>5. PICK i \in 1..(n + 1) : \A j \in 1..(n + 1) : stream[j] = w[j] <=> j # i
  <2>1. \E i \in 1..Len(w) : \A j \in 1..Len(w) : j <= Len(stream) /\ (stream[j] = w[j] <=> j # i)
    BY <1>2 DEF OneByteDamaged
  <2>2. PICK m : m = Len(w) /\ m = n + 1
    BY <1>4
  <2>3. \E i \in 1..m : \A j \in 1..m : stream[j] = w[j] <=> j # i
    BY <2>1, <2>2
  <2>4. QED
    BY <2>2, <2>3
<1>6. PICK q : q = SubSeq(stream, 1, n)
  OBVIOUS
<1>7. n <= Len(stream) /\ Len(stream) \in Nat /\ at - 1 = n
  BY <1>1, <1>4
<1>8. q \in Seq(Bytes) /\ Len(q) = n /\ \A j \in 1..n : q[j] = stream[j]
  BY <1>1, <1>6, <1>7
<1>9. stream[n + 1] = Checksum8(q)
  BY <1>1, <1>4, <1>6, <1>7
<1>10. CASE i = n + 1
  <2>1. \A j \in 1..n : q[j] = f[j]
    BY <1>4, <1>5, <1>8, <1>10
  <2>2. q = f
    BY <1>3, <1>8, <2>1, SeqEqual
  <2>3. stream[n + 1] # w[n + 1]
    BY <1>5, <1>10
  <2>4. QED
    BY <1>4, <1>9, <2>2, <2>3
<1>11. CASE i # n + 1
  <2>1. i \in 1..n /\ \A j \in 1..n : q[j] = f[j] <=> j # i
    BY <1>4, <1>5, <1>8, <1>11
  <2>2. Altered(q, f, i)
    BY <1>3, <1>8, <2>1 DEF Altered
  <2>3. Checksum8(q) # Checksum8(f)
    BY <1>3, <1>8, <2>2, ChecksumApart
  <2>4. stream[n + 1] = w[n + 1]
    BY <1>5, <1>11
  <2>5. QED
    BY <1>4, <1>9, <2>3, <2>4
<1>12. QED
  BY <1>10, <1>11

\* In every run of the decoder, over every header, a header with one damaged byte, be it in
\* a code, the number or the checksum, is not accepted at the length that it had: the CRC-8
\* of one altered byte is never the same (crc.Checksum8, readHeaderBody).
THEOREM OneByteIsCaught == DecoderSpec => []DamageIsCaught
<1>1. DecoderSpec => []CheckedInv
  BY CheckedStarts, CheckedStays, PTL DEF DecoderSpec
<1>2. QED
  BY <1>1, CheckedIsCaught, PTL

-----------------------------------------------------------------------------
(* The inductive invariant of the calls.                                    *)

BufferFields == {"cap", "len", "from"}
HeaderFields == {"blockSize", "rate", "depth", "channels", "number", "variable"}
InfoFields   == {"rate", "depth", "channels"}

\* What is given to the decoder is what packets can be.
GivenOK ==
    /\ HeaderOK(sent) /\ condition \in {"whole", "cut", "damaged"} /\ stream \in Seq(Nat)
    /\ body.fate \in {"sound", "range", "unsupported", "crc"}
    /\ body.sub \in 1..Channels(sent.channels) /\ body.pieces \in Nat
    /\ recorded = {calls}

\* Whatever the header's bytes are, it has as many channels as there are assignments.
HeaderSane ==
    /\ at \in Nat /\ DOMAIN hdr = HeaderFields
    /\ step = "done" => outcome \in {"ok", "eof", "unexpected", "unsupported", "mismatch"}
    /\ step \in {"lead", "continuation", "blockSize", "rate", "crc"} \/ outcome = "ok" =>
           hdr.channels \in 0..10

\* The subframes read so far are in their buffers, and with this call's samples.
Decoding ==
    /\ step = "done" /\ outcome = "ok"
    /\ shown = Channels(hdr.channels) /\ shown <= Len(channels)
    /\ ch \in 0..shown /\ ch <= body.pieces
    /\ stage = "subframes" => ch < shown
    /\ stage \in {"crc", "decoded"} => ch = shown
    /\ bad \in BOOLEAN
    /\ bad <=> body.fate = "range" /\ body.sub <= ch
    /\ body.fate = "unsupported" => ch < body.sub
    /\ \A c \in 1..shown : channels[c].len = hdr.blockSize
    /\ ~bad /\ (hdr.channels < 8 \/ ch = 2) => \A c \in 1..ch : channels[c].from = calls
    /\ stage = "decoded" =>
           /\ condition = "whole" /\ ch < body.pieces /\ body.fate \notin {"crc", "range"}
           /\ ~bad
           /\ frame = [blockSize |-> hdr.blockSize, rate |-> hdr.rate, depth |-> hdr.depth]

\* The last call's result is that of its packet.
Answer ==
    /\ condition = "whole" =>
           /\ ret.err = Verdict
           /\ Verdict = "none" =>
                  /\ ret.blockSize = sent.blockSize
                  /\ ret.audio = [c \in 1..info.channels |-> [from |-> calls, len |-> sent.blockSize]]
    /\ condition = "cut" => ret.err = "truncated" /\ ret.audio = <<>>
    /\ condition = "damaged" => ret.err \in {"unsupported", "truncated", "mismatch"} /\ ret.audio = <<>>

\* The channel buffers are a sequence of them.
BuffersOK ==
    /\ Len(channels) \in Nat /\ DOMAIN channels = 1..Len(channels)
    /\ \A c \in 1..Len(channels) : DOMAIN channels[c] = BufferFields

CallInv ==
    /\ DOMAIN info = InfoFields /\ info = [f \in InfoFields |-> info[f]]
    /\ stage \in {"new", "failed", "idle", "header", "subframes", "crc", "decoded"}
    /\ calls \in Nat
    /\ stage \in {"new", "failed"} => calls = 0
    /\ stage \in {"header", "subframes", "crc", "decoded"} => calls # 0
    /\ BuffersOK
    /\ stage = "header" => ch = 0 /\ bad = FALSE
    /\ calls # 0 => GivenOK /\ HeaderSane
    /\ stage \in {"subframes", "crc", "decoded"} => Decoding
    /\ stage = "idle" /\ calls # 0 => Answer

\* A function on the numbers from 1 to m has length m.
LEMMA LengthOf ==
    ASSUME NEW m \in Nat, NEW f, DOMAIN f = 1..m, f = [i \in 1..m |-> f[i]]
    PROVE  Len(f) = m
<1>1. PICK S : S = {f[i] : i \in 1..m}
  OBVIOUS
<1>2. \A i \in 1..m : f[i] \in S
  BY <1>1
<1>3. f \in [1..m -> S]
  BY <1>2
<1>4. QED
  BY <1>3

\* Every step of reading a header leaves it one that packets can have.
LEMMA SaneStays ==
    ASSUME HeaderSane, stream \in Seq(Nat), Next
    PROVE  HeaderSane'
<1>1. ASSUME NEW e \in {"eof", "unexpected", "unsupported", "mismatch"}, Fail(e)
      PROVE  HeaderSane'
  BY <1>1 DEF Fail, HeaderSane
<1>2. ASSUME NEW h, NEW c, NEW l,
             NEW t \in {"codes", "lead", "continuation", "blockSize", "rate", "crc"},
             Reads(t, h, c, l), Width \in Nat,
             DOMAIN h = HeaderFields, h.channels = hdr.channels,
             t = "codes" \/ step \in {"lead", "continuation", "blockSize", "rate", "crc"}
      PROVE  HeaderSane'
  <2>1. at' \in Nat
    BY <1>2 DEF Reads, HeaderSane
  <2>2. hdr' = h /\ step' = t /\ outcome' = outcome
    BY <1>2 DEF Reads
  <2>3. t \in {"lead", "continuation", "blockSize", "rate", "crc"} \/ outcome = "ok" =>
            h.channels \in 0..10
    BY <1>2 DEF HeaderSane
  <2>4. QED
    BY <1>2, <2>1, <2>2, <2>3 DEF HeaderSane
<1>3. DOMAIN hdr = HeaderFields /\ "channels" \in HeaderFields /\ at \in Nat
  BY DEF HeaderSane, HeaderFields
<1>4. step \in {"sync", "codes", "lead", "continuation", "blockSize", "rate", "crc"} => Width \in Nat
  BY DEF Width
<1>5. CASE StreamEnds
  BY <1>1, <1>5 DEF StreamEnds
<1>6. CASE ReadSync
  <2>1. CASE Fail("unsupported")
    BY <1>1, <2>1
  <2>2. CASE \E x : Reads("codes", [hdr EXCEPT !.variable = x], codes, left)
    <3>1. PICK x : Reads("codes", [hdr EXCEPT !.variable = x], codes, left)
      BY <2>2
    <3>2. PICK h : h = [hdr EXCEPT !.variable = x]
      OBVIOUS
    <3>3. DOMAIN h = HeaderFields /\ h.channels = hdr.channels
      BY <1>3, <3>2
    <3>4. step = "sync"
      BY <1>6 DEF ReadSync
    <3>5. QED
      BY <1>2, <1>4, <3>1, <3>2, <3>3, <3>4
  <2>3. QED
    <3>1. \/ Fail("unsupported")
          \/ Reads("codes", [hdr EXCEPT !.variable = Byte(2) % 2 = 1], codes, left)
      BY <1>6, SMT DEF ReadSync
    <3>2. QED
      BY <2>1, <2>2, <3>1, Zenon
<1>7. CASE ReadCodes
  <2>1. CASE Fail("unsupported")
    BY <1>1, <2>1
  <2>2. CASE /\ ~(Byte(2) \div 16 >= 11)
             /\ Reads("lead", [hdr EXCEPT !.channels = Byte(2) \div 16,
                                          !.depth = (Byte(2) \div 2) % 8],
                      <<Byte(1) \div 16, Byte(1) % 16>>, left)
    <3>1. step = "codes" /\ at + Width <= Len(stream) /\ Width = 2
      BY <1>7 DEF ReadCodes, Enough, Width
    <3>2. Byte(2) \in Nat
      <4>1. at + 2 \in 1..Len(stream)
        BY <1>3, <3>1
      <4>2. QED
        BY <4>1 DEF Byte
    <3>3. Byte(2) \div 16 \in 0..10
      <4>1. PICK b : b = Byte(2)
        OBVIOUS
      <4>2. PICK q : q = b \div 16
        OBVIOUS
      <4>3. q \in Nat
        BY <3>2, <4>1, <4>2
      <4>4. ~(q >= 11)
        BY <2>2, <4>1, <4>2
      <4>5. QED
        BY <4>1, <4>2, <4>3, <4>4
    <3>4. PICK h, d : d = (Byte(2) \div 2) % 8 /\ h = [hdr EXCEPT !.channels = Byte(2) \div 16, !.depth = d]
      OBVIOUS
    <3>5. DOMAIN h = HeaderFields /\ h.channels \in 0..10
      BY <1>3, <3>3, <3>4
    <3>6. hdr' = h /\ step' = "lead" /\ at' = at + 2 /\ outcome' = outcome
      BY <2>2, <3>1, <3>4 DEF Reads
    <3>7. QED
      BY <1>3, <3>5, <3>6 DEF HeaderSane
  <2>3. QED
    BY <1>7, <2>1, <2>2 DEF ReadCodes
<1>8. CASE ReadLead
  <2>1. CASE Fail("unsupported")
    BY <1>1, <2>1
  <2>2. CASE \E m, x, l : Reads(IF m = 1 THEN "blockSize" ELSE "continuation", [hdr EXCEPT !.number = x], codes, l)
    <3>1. PICK m, x, l : Reads(IF m = 1 THEN "blockSize" ELSE "continuation", [hdr EXCEPT !.number = x], codes, l)
      BY <2>2
    <3>2. PICK h : h = [hdr EXCEPT !.number = x]
      OBVIOUS
    <3>3. DOMAIN h = HeaderFields /\ h.channels = hdr.channels
      BY <1>3, <3>2
    <3>4. step = "lead"
      BY <1>8 DEF ReadLead
    <3>5. QED
      BY <1>2, <1>4, <3>1, <3>2, <3>3, <3>4
  <2>3. QED
    BY <1>8, <2>1, <2>2, Zenon DEF ReadLead
<1>9. CASE ReadContinuation
  <2>1. CASE Fail("unsupported")
    BY <1>1, <2>1
  <2>2. CASE \E x, l : Reads(IF left = 1 THEN "blockSize" ELSE "continuation", [hdr EXCEPT !.number = x], codes, l)
    <3>1. PICK x, l : Reads(IF left = 1 THEN "blockSize" ELSE "continuation", [hdr EXCEPT !.number = x], codes, l)
      BY <2>2
    <3>2. PICK h : h = [hdr EXCEPT !.number = x]
      OBVIOUS
    <3>3. DOMAIN h = HeaderFields /\ h.channels = hdr.channels
      BY <1>3, <3>2
    <3>4. step = "continuation"
      BY <1>9 DEF ReadContinuation
    <3>5. QED
      BY <1>2, <1>4, <3>1, <3>2, <3>3, <3>4
  <2>3. QED
    BY <1>9, <2>1, <2>2, Zenon DEF ReadContinuation
<1>10. CASE ReadBlockSize
  <2>1. CASE Fail("unsupported")
    BY <1>1, <2>1
  <2>2. CASE \E x : Reads("rate", [hdr EXCEPT !.blockSize = x], codes, left)
    <3>1. PICK x : Reads("rate", [hdr EXCEPT !.blockSize = x], codes, left)
      BY <2>2
    <3>2. PICK h : h = [hdr EXCEPT !.blockSize = x]
      OBVIOUS
    <3>3. DOMAIN h = HeaderFields /\ h.channels = hdr.channels
      BY <1>3, <3>2
    <3>4. step = "blockSize"
      BY <1>10 DEF ReadBlockSize
    <3>5. QED
      BY <1>2, <1>4, <3>1, <3>2, <3>3, <3>4
  <2>3. PICK size : size = CASE codes[1] = 1 -> 192
                             [] codes[1] \in 2..5 -> Doubled(576, codes[1] - 2)
                             [] codes[1] \in {6, 7} -> Value + 1
                             [] OTHER -> Doubled(256, codes[1] - 8)
    OBVIOUS
  <2>4. Fail("unsupported") \/ Reads("rate", [hdr EXCEPT !.blockSize = size], codes, left)
    BY <1>10, <2>3, Zenon DEF ReadBlockSize
  <2>5. QED
    BY <2>1, <2>2, <2>4, Zenon
<1>11. CASE ReadRateAndDepth
  <2>1. CASE Fail("unsupported")
    BY <1>1, <2>1
  <2>2. CASE \E x, y : Reads("crc", [hdr EXCEPT !.rate = x, !.depth = y], codes, left)
    <3>1. PICK x, y : Reads("crc", [hdr EXCEPT !.rate = x, !.depth = y], codes, left)
      BY <2>2
    <3>2. PICK h : h = [hdr EXCEPT !.rate = x, !.depth = y]
      OBVIOUS
    <3>3. DOMAIN h = HeaderFields /\ h.channels = hdr.channels
      BY <1>3, <3>2
    <3>4. step = "rate"
      BY <1>11 DEF ReadRateAndDepth
    <3>5. QED
      BY <1>2, <1>4, <3>1, <3>2, <3>3, <3>4
  <2>3. QED
    BY <1>11, <2>1, <2>2, Zenon DEF ReadRateAndDepth
<1>12. CASE ReadCrc
  <2>1. CASE Fail("mismatch")
    BY <1>1, <2>1
  <2>2. CASE /\ at' = at + 1 /\ step' = "done" /\ outcome' = "ok"
             /\ UNCHANGED <<info, sent, stream, condition, codes, left, hdr>>
    <3>1. step = "crc"
      BY <1>12 DEF ReadCrc
    <3>2. hdr.channels \in 0..10 /\ at + 1 \in Nat
      BY <3>1 DEF HeaderSane
    <3>3. QED
      BY <2>2, <3>2 DEF HeaderSane
  <2>3. QED
    BY <1>12, <2>1, <2>2, Zenon DEF ReadCrc
<1>13. QED
  BY <1>5, <1>6, <1>7, <1>8, <1>9, <1>10, <1>11, <1>12 DEF Next

\* A header that was accepted and not damaged is the one that was sent.
LEMMA AcceptedAsSent ==
    ASSUME ReadingInv, step = "done", outcome = "ok", condition # "damaged"
    PROVE  /\ condition = "whole"
           /\ hdr.channels = sent.channels /\ hdr.blockSize = sent.blockSize
           /\ hdr.rate = IF SampleRateCode(sent.rate).code = 0 THEN info.rate ELSE sent.rate
           /\ hdr.depth = IF BitDepthCode(sent.depth) = 0 THEN info.depth ELSE sent.depth
<1>1. PICK c, n, s, r : Sent(c, n, s, r) /\ Progress(n, s, r)
  BY DEF ReadingInv
<1>2. Ended(r) /\ r = SampleRateCode(sent.rate) /\ condition \in {"whole", "cut"}
  BY <1>1 DEF Progress, Sent, CodesOf
<1>3. condition = "whole"
  BY <1>2 DEF Ended
<1>4. hdr.channels = sent.channels /\ hdr.blockSize = sent.blockSize /\ RateRead(r) /\ DepthRead
  BY <1>2, <1>3 DEF Ended
<1>5. QED
  BY <1>2, <1>3, <1>4 DEF RateRead, DepthRead

-----------------------------------------------------------------------------
(* Every step of a call keeps the invariant of the calls.                   *)

\* What a header can have for channels, and how many they are.
LEMMA ChannelCounts ==
    ASSUME NEW a \in 0..10
    PROVE  Channels(a) \in Nat /\ Channels(a) >= 1 /\ (a >= 8 => Channels(a) = 2)
BY DEF Channels

\* A decoder that is new, or is made for its first frame, satisfies the invariant.
LEMMA CallsStart == DecoderInit => CallInv
<1> SUFFICES ASSUME DecoderInit PROVE CallInv
  OBVIOUS
<1>1. channels = <<>> /\ recorded = {calls} /\ ch = 0 /\ bad = FALSE
  BY DEF DecoderInit
<1>2. BuffersOK
  BY <1>1 DEF BuffersOK
<1>3. CASE Init /\ stage = "header" /\ calls = MaxCalls /\ body = Whole(sent.channels)
  <2>1. /\ sent \in Headers /\ info = InfoFor(sent) /\ at = 0 /\ step = "sync" /\ hdr = NoHeader
        /\ outcome = "none" /\ condition \in {"whole", "cut", "damaged"}
    BY <1>3 DEF Init
  <2>2. PICK h, w : h = sent /\ w = Written(h)
    OBVIOUS
  <2>3. HeaderOK(h) /\ Checksum8(Fields(h)) \in Bytes
    BY <2>1, <2>2, HeadersAssumption, HeadersAreBytes
  <2>4. w \in Seq(Nat)
    <3>1. w \in Seq(Nat \cup {Checksum8(Fields(h))})
      BY <2>2, <2>3, HeadersAreLaidOut
    <3>2. Nat \cup {Checksum8(Fields(h))} = Nat
      BY <2>3 DEF Bytes
    <3>3. QED
      BY <3>1, <3>2
  <2>5. stream \in Seq(Nat)
    <3>1. Body \in Seq(Nat)
      BY DEF Body
    <3>2. CASE stream = w \o Body
      BY <2>4, <3>1, <3>2
    <3>3. CASE \E n \in 0..(Len(w) - 1) : stream = SubSeq(w, 1, n)
      BY <2>4, <3>3
    <3>4. CASE \E i \in 1..Len(w), x \in NoiseBytes : stream = [w EXCEPT ![i] = x] \o Body
      <4>1. PICK i \in 1..Len(w), x \in NoiseBytes : stream = [w EXCEPT ![i] = x] \o Body
        BY <3>4
      <4>2. x \in Nat
        BY NoiseAssumption DEF Bytes
      <4>3. PICK v : v = [w EXCEPT ![i] = x]
        OBVIOUS
      <4>4. v \in Seq(Nat)
        BY <2>4, <4>2, <4>3
      <4>5. QED
        BY <3>1, <4>1, <4>3, <4>4
    <3>5. QED
      BY <1>3, <2>2, <3>2, <3>3, <3>4, Zenon DEF Init
  <2>6. /\ body.fate = "sound" /\ body.sub = 1 /\ body.pieces = Channels(sent.channels) + 1
    BY <1>3 DEF Whole
  <2>7. Channels(sent.channels) \in Nat /\ Channels(sent.channels) >= 1
    BY <2>2, <2>3, ChannelCounts DEF HeaderOK
  <2>8. GivenOK
    BY <1>1, <2>1, <2>2, <2>3, <2>5, <2>6, <2>7 DEF GivenOK
  <2>9. HeaderSane
    BY <2>1 DEF HeaderSane, NoHeader, HeaderFields
  <2>10. DOMAIN info = InfoFields /\ info = [f \in InfoFields |-> info[f]]
    BY <2>1 DEF InfoFor, InfoFields
  <2>11. QED
    BY <1>1, <1>2, <1>3, <2>8, <2>9, <2>10, CallsAssumption DEF CallInv
<1>4. CASE stage = "new" /\ calls = 0 /\ info = [rate |-> 0, depth |-> 0, channels |-> 0]
  <2>1. DOMAIN info = InfoFields /\ info = [f \in InfoFields |-> info[f]]
    BY <1>4 DEF InfoFields
  <2>2. QED
    BY <1>2, <1>4, <2>1 DEF CallInv
<1>5. QED
  BY <1>3, <1>4, Zenon DEF DecoderInit

\* Reading a field of the header keeps it.
LEMMA FieldsKeepCalls ==
    ASSUME CallInv, stage = "header", Next, UNCHANGED decoderVars
    PROVE  CallInv'
<1>1. UNCHANGED <<info, sent, stream, condition>>
  BY DEF Next, StreamEnds, ReadSync, ReadCodes, ReadLead, ReadContinuation, ReadBlockSize,
         ReadRateAndDepth, ReadCrc, Fail, Reads
<1>2. UNCHANGED <<stage, body, calls, channels, recorded, ch, bad>>
  BY DEF decoderVars, kept, current
<1>3. GivenOK /\ HeaderSane /\ calls # 0
  BY DEF CallInv
<1>4. HeaderSane'
  BY <1>3, SaneStays DEF GivenOK
<1>5. GivenOK' /\ BuffersOK'
  BY <1>1, <1>2, <1>3 DEF GivenOK, CallInv, BuffersOK
<1>6. (DOMAIN info = InfoFields /\ info = [f \in InfoFields |-> info[f]])'
  BY <1>1 DEF CallInv
<1>7. QED
  BY <1>2, <1>4, <1>5, <1>6 DEF CallInv

\* So does the STREAMINFO that the decoder is made for.
LEMMA StreamInfoKeepsCalls ==
    ASSUME CallInv, NEW b \in Infos, NewFrameDecoder(b)
    PROVE  CallInv'
<1>1. /\ stage = "new" /\ stage' \in {"idle", "failed"}
      /\ info' = [rate |-> b.rate, depth |-> b.depth, channels |-> b.channels]
      /\ UNCHANGED <<calls, channels>>
  BY DEF NewFrameDecoder, kept
<1>2. calls = 0 /\ calls' = 0
  BY <1>1 DEF CallInv
<1>3. (DOMAIN info = InfoFields /\ info = [f \in InfoFields |-> info[f]])'
  BY <1>1 DEF InfoFields
<1>4. BuffersOK'
  BY <1>1 DEF CallInv, BuffersOK
<1>5. QED
  BY <1>1, <1>2, <1>3, <1>4 DEF CallInv

\* So does a packet that it is given.
LEMMA PacketsKeepCalls ==
    ASSUME CallInv, NEW p \in Packets, DecodeInterleaved(p)
    PROVE  CallInv'
<1>1. PacketOK(p)
  BY PacketsAssumption
<1>2. /\ stage' = "header" /\ calls' = calls + 1 /\ recorded' = {calls + 1}
      /\ sent' = p.sent /\ stream' = p.stream /\ condition' = p.condition /\ body' = p.body
      /\ at' = 0 /\ step' = "sync" /\ hdr' = NoHeader /\ outcome' = "none"
      /\ ch' = 0 /\ bad' = FALSE
      /\ UNCHANGED <<info, channels>>
  BY DEF DecodeInterleaved, Recorded
<1>3. p.stream \in Seq(Nat)
  <2>1. PICK st : st = p.stream
    OBVIOUS
  <2>2. st \in Seq(Bytes)
    BY <1>1, <2>1 DEF PacketOK
  <2>3. QED
    BY <2>1, <2>2, BytesAreNaturals
<1>4. GivenOK'
  BY <1>1, <1>2, <1>3 DEF GivenOK, PacketOK
<1>5. HeaderSane'
  BY <1>2 DEF HeaderSane, NoHeader, HeaderFields
<1>6. BuffersOK' /\ calls' \in Nat /\ calls' # 0
  BY <1>2 DEF CallInv, BuffersOK
<1>7. (DOMAIN info = InfoFields /\ info = [f \in InfoFields |-> info[f]])'
  BY <1>2 DEF CallInv
<1>8. QED
  BY <1>2, <1>4, <1>5, <1>6, <1>7 DEF CallInv

\* Going on to the body makes room for its channels, and keeps the buffers a sequence.
LEMMA EnterBodyKeepsCalls ==
    ASSUME CallInv, EnterBody
    PROVE  CallInv'
<1>1. /\ stage = "header" /\ step = "done" /\ outcome = "ok" /\ stage' = "subframes"
      /\ channels' = ensureChannels(Channels(hdr.channels), hdr.blockSize)
      /\ shown' = Channels(hdr.channels)
      /\ UNCHANGED <<vars, body, calls, recorded, ch, bad>>
  BY DEF EnterBody, current
<1>2. GivenOK /\ HeaderSane /\ calls # 0
  BY <1>1 DEF CallInv
<1>3. PICK n, size : n = Channels(hdr.channels) /\ size = hdr.blockSize
  OBVIOUS
<1>4. n \in Nat /\ n >= 1
  BY <1>1, <1>2, <1>3, ChannelCounts DEF HeaderSane
<1>5. PICK m, k : k = Len(channels) /\ m = Max({n, k})
  OBVIOUS
<1>6. k \in Nat /\ DOMAIN channels = 1..k /\ \A c \in 1..k : DOMAIN channels[c] = BufferFields
  BY <1>5 DEF CallInv, BuffersOK
<1>7. m \in Nat /\ n <= m
  <2>1. \E x \in {n, k} : \A y \in {n, k} : x >= y
    BY <1>4, <1>6
  <2>2. QED
    BY <1>4, <1>5, <1>6, <2>1 DEF Max
<1>8. PICK f : f = ensureChannels(n, size)
  OBVIOUS
<1>9. f = [c \in 1..m |->
             LET old == IF n <= k THEN channels[c] ELSE [cap |-> 0, len |-> 0, from |-> 0]
             IN  IF c > n THEN old
                 ELSE IF old.cap < size THEN [cap |-> size, len |-> size, from |-> 0]
                 ELSE [old EXCEPT !.len = size, !.from = IF size > old.len THEN 0 ELSE @]]
  BY <1>5, <1>8 DEF ensureChannels
<1>10. ASSUME NEW c \in 1..m PROVE DOMAIN f[c] = BufferFields /\ (c <= n => f[c].len = size)
  <2>1. PICK old : old = IF n <= k THEN channels[c] ELSE [cap |-> 0, len |-> 0, from |-> 0]
    OBVIOUS
  <2>2. DOMAIN old = BufferFields
    <3>1. CASE n <= k
      <4>1. m = k
        BY <1>4, <1>5, <1>6, <3>1 DEF Max
      <4>2. QED
        BY <1>6, <2>1, <3>1, <4>1
    <3>2. CASE ~(n <= k)
      BY <2>1, <3>2 DEF BufferFields
    <3>3. QED
      BY <3>1, <3>2
  <2>3. f[c] = IF c > n THEN old
               ELSE IF old.cap < size THEN [cap |-> size, len |-> size, from |-> 0]
               ELSE [old EXCEPT !.len = size, !.from = IF size > old.len THEN 0 ELSE old.from]
    BY <1>9, <2>1
  <2>4. CASE c > n
    BY <1>4, <2>2, <2>3, <2>4
  <2>5. CASE ~(c > n) /\ old.cap < size
    BY <2>3, <2>5 DEF BufferFields
  <2>6. CASE ~(c > n) /\ ~(old.cap < size)
    <3>1. PICK from : from = IF size > old.len THEN 0 ELSE old.from
      OBVIOUS
    <3>2. f[c] = [old EXCEPT !.len = size, !.from = from]
      BY <2>3, <2>6, <3>1
    <3>3. QED
      BY <2>2, <3>2 DEF BufferFields
  <2>7. QED
    BY <2>4, <2>5, <2>6
<1>11. Len(f) = m /\ DOMAIN f = 1..m
  <2>1. DOMAIN f = 1..m /\ f = [i \in 1..m |-> f[i]]
    BY <1>9
  <2>2. QED
    BY <1>7, <2>1, LengthOf
<1>12. channels' = f /\ shown' = n
  BY <1>1, <1>3, <1>8
<1>13. BuffersOK'
  BY <1>7, <1>10, <1>11, <1>12 DEF BuffersOK
<1>14. ch = 0 /\ bad = FALSE
  BY <1>1 DEF CallInv
<1>15. Decoding'
  <2>1. UNCHANGED <<step, outcome, hdr>>
    BY <1>1 DEF vars
  <2>2. body.fate = "unsupported" => 0 < body.sub
    BY <1>2 DEF GivenOK
  <2>3. ~(body.sub <= 0) /\ 0 <= body.pieces
    BY <1>2 DEF GivenOK
  <2>4. \A c \in 1..n : f[c].len = size
    BY <1>4, <1>7, <1>10
  <2>5. /\ step' = "done" /\ outcome' = "ok" /\ stage' = "subframes" /\ ch' = 0 /\ bad' = FALSE
        /\ body' = body /\ hdr' = hdr /\ shown' = n /\ channels' = f
    BY <1>1, <1>12, <1>14, <2>1
  <2>6. n <= Len(f) /\ 0 \in 0..n /\ 0 < n
    BY <1>4, <1>7, <1>11
  <2>7. \A c \in 1..0 : f[c].from = calls'
    OBVIOUS
  <2>8. bad' <=> body'.fate = "range" /\ body'.sub <= ch'
    BY <2>3, <2>5
  <2>9. QED
    BY <1>3, <2>2, <2>3, <2>4, <2>5, <2>6, <2>7, <2>8 DEF Decoding
<1>16. GivenOK' /\ HeaderSane'
  BY <1>1, <1>2 DEF GivenOK, HeaderSane, vars
<1>17. (DOMAIN info = InfoFields /\ info = [x \in InfoFields |-> info[x]])'
  BY <1>1 DEF CallInv, vars
<1>18. calls' \in Nat /\ calls' # 0
  BY <1>1, <1>2 DEF CallInv
<1>19. QED
  BY <1>1, <1>13, <1>15, <1>16, <1>17, <1>18 DEF CallInv

\* The verdict on a packet, case by case.
LEMMA Verdicts ==
    ASSUME GivenOK
    PROVE  LET n == Channels(sent.channels) IN
           /\ n \in Nat /\ n >= 1
           /\ body.fate = "unsupported" /\ body.pieces < body.sub => Verdict = "truncated"
           /\ body.fate = "unsupported" /\ body.pieces >= body.sub => Verdict = "unsupported"
           /\ body.fate # "unsupported" /\ body.pieces < n + 1 => Verdict = "truncated"
           /\ body.fate = "crc" /\ body.pieces >= n + 1 => Verdict = "mismatch"
           /\ body.fate = "range" /\ body.pieces >= n + 1 => Verdict = "range"
           /\ body.fate = "sound" /\ body.pieces >= n + 1 =>
                  Verdict = IF Mine THEN "none" ELSE "disagrees"
<1>1. PICK n, fate, sub, pieces : /\ n = Channels(sent.channels)
                                  /\ fate = body.fate /\ sub = body.sub /\ pieces = body.pieces
  OBVIOUS
<1>2. n \in Nat /\ n >= 1
  BY <1>1, ChannelCounts DEF GivenOK, HeaderOK
<1>3. /\ fate \in {"sound", "range", "unsupported", "crc"}
      /\ sub \in Nat /\ pieces \in Nat
  BY <1>1, <1>2 DEF GivenOK
<1>4. PICK v, mine : v = Verdict /\ mine = IF Mine THEN "none" ELSE "disagrees"
  OBVIOUS
<1>5. PICK upTo : upTo = IF fate = "unsupported" THEN sub ELSE n + 1
  OBVIOUS
<1>6. v = CASE pieces < upTo -> "truncated"
            [] pieces >= upTo /\ fate = "unsupported" -> "unsupported"
            [] pieces >= upTo /\ fate = "crc" -> "mismatch"
            [] pieces >= upTo /\ fate = "range" -> "range"
            [] pieces >= upTo /\ fate = "sound" -> mine
  BY <1>1, <1>4, <1>5 DEF Verdict
<1>7. upTo \in Nat
  BY <1>2, <1>3, <1>5
<1>8. CASE pieces < upTo
  <2>1. ~(pieces >= upTo)
    BY <1>3, <1>7, <1>8
  <2>2. v = "truncated"
    BY <1>6, <1>8, <2>1
  <2>3. QED
    BY <1>1, <1>2, <1>3, <1>4, <1>5, <1>8, <2>1, <2>2
<1>9. CASE ~(pieces < upTo)
  <2>1. pieces >= upTo
    BY <1>3, <1>7, <1>9
  <2>2. /\ fate = "unsupported" => v = "unsupported"
        /\ fate = "crc" => v = "mismatch"
        /\ fate = "range" => v = "range"
        /\ fate = "sound" => v = mine
    BY <1>6, <1>9, <2>1
  <2>3. QED
    BY <1>1, <1>2, <1>3, <1>4, <1>5, <1>9, <2>1, <2>2
<1>10. QED
  BY <1>8, <1>9

\* A call that fails with the verdict on its packet keeps the invariant.
LEMMA FailureKeepsCalls ==
    ASSUME CallInv, NEW e, Fails(e), stage \in {"header", "subframes", "crc", "decoded"},
           condition = "whole" => Error(e) = Verdict /\ Error(e) # "none",
           condition = "cut" => Error(e) = "truncated",
           condition = "damaged" => Error(e) \in {"unsupported", "truncated", "mismatch"}
    PROVE  CallInv'
<1>1. /\ stage' = "idle" /\ ret' = [NoAudio EXCEPT !.err = Error(e)]
      /\ UNCHANGED <<vars, body, calls, channels, recorded>>
  BY DEF Fails, Returns
<1>2. ret'.err = Error(e) /\ ret'.audio = <<>>
  BY <1>1 DEF NoAudio
<1>3. UNCHANGED <<info, sent, stream, condition, at, step, hdr, outcome>>
  BY <1>1 DEF vars
<1>4. Verdict' = Verdict
  BY <1>1, <1>3 DEF Verdict, Mine
<1>5. Answer'
  BY <1>2, <1>3, <1>4 DEF Answer
<1>6. GivenOK' /\ HeaderSane' /\ BuffersOK'
  BY <1>1, <1>3 DEF CallInv, GivenOK, HeaderSane, BuffersOK
<1>7. (DOMAIN info = InfoFields /\ info = [f \in InfoFields |-> info[f]])' /\ calls' \in Nat
  BY <1>1, <1>3 DEF CallInv
<1>8. QED
  BY <1>1, <1>5, <1>6, <1>7 DEF CallInv

\* A header that was not accepted is one that was cut off or damaged.
LEMMA HeaderFailureKeepsCalls ==
    ASSUME ReadingInv, CallInv, HeaderFails
    PROVE  CallInv'
<1>1. stage = "header" /\ step = "done" /\ outcome # "ok" /\ Fails(outcome)
  BY DEF HeaderFails
<1>2. GivenOK /\ HeaderSane
  BY <1>1 DEF CallInv
<1>3. outcome \in {"eof", "unexpected", "unsupported", "mismatch"}
  BY <1>1, <1>2 DEF HeaderSane
<1>4. Error(outcome) \in {"unsupported", "truncated", "mismatch"}
  BY <1>3 DEF Error
<1>5. condition # "damaged" => condition = "cut" /\ outcome \in {"eof", "unexpected"}
  <2>1. HAVE condition # "damaged"
  <2>2. PICK c, n, s, r : Sent(c, n, s, r) /\ Progress(n, s, r)
    BY <1>1, <2>1 DEF ReadingInv
  <2>3. Ended(r) /\ condition \in {"whole", "cut"}
    BY <1>1, <2>2 DEF Progress, Sent
  <2>4. QED
    BY <1>1, <2>3 DEF Ended
<1>6. condition = "cut" => Error(outcome) = "truncated"
  BY <1>5 DEF Error
<1>7. condition # "whole"
  BY <1>5
<1>8. QED
  BY <1>1, <1>4, <1>6, <1>7, FailureKeepsCalls

\* What is known of a body when a step of it is taken.
LEMMA InTheBody ==
    ASSUME ReadingInv, CallInv, stage \in {"subframes", "crc", "decoded"}
    PROVE  /\ GivenOK /\ HeaderSane /\ Decoding
           /\ hdr.channels \in 0..10 /\ shown \in Nat /\ shown >= 1 /\ ch \in Nat
           /\ hdr.channels >= 8 => shown = 2
           /\ condition \in {"whole", "damaged"}
           /\ condition = "whole" => shown = Channels(sent.channels) /\ hdr.channels = sent.channels
<1>1. GivenOK /\ HeaderSane /\ Decoding
  BY DEF CallInv
<1>2. hdr.channels \in 0..10
  BY <1>1 DEF HeaderSane, Decoding
<1>3. shown = Channels(hdr.channels) /\ shown \in Nat /\ shown >= 1 /\ (hdr.channels >= 8 => shown = 2)
  BY <1>1, <1>2, ChannelCounts DEF Decoding
<1>4. ch \in Nat
  BY <1>1, <1>3 DEF Decoding
<1>5. condition # "damaged" => condition = "whole" /\ hdr.channels = sent.channels
  BY <1>1, AcceptedAsSent DEF Decoding
<1>6. QED
  BY <1>1, <1>2, <1>3, <1>4, <1>5

\* A body that ends early is truncated.
LEMMA BodyEndsKeepsCalls ==
    ASSUME ReadingInv, CallInv, BodyEnds
    PROVE  CallInv'
<1>1. stage \in {"subframes", "crc"} /\ ch >= body.pieces /\ Fails("unexpected")
  BY DEF BodyEnds
<1>2. /\ GivenOK /\ Decoding /\ ch \in Nat /\ shown \in Nat
      /\ condition \in {"whole", "damaged"} /\ (condition = "whole" => shown = Channels(sent.channels))
  BY <1>1, InTheBody
<1>3. Error("unexpected") = "truncated"
  BY DEF Error
<1>4. condition = "whole" => Verdict = "truncated"
  <2>1. HAVE condition = "whole"
  <2>2. /\ ch <= shown /\ body.pieces \in Nat /\ body.sub \in Nat
        /\ (body.fate = "unsupported" => ch < body.sub)
    <3>1. body.pieces \in Nat /\ body.sub \in 1..shown
      BY <1>2, <2>1 DEF GivenOK
    <3>2. QED
      BY <1>2, <3>1 DEF Decoding
  <2>3. /\ body.fate = "unsupported" => body.pieces < body.sub
        /\ body.pieces < shown + 1
    BY <1>1, <1>2, <2>2
  <2>4. QED
    BY <1>2, <2>1, <2>3, Verdicts
<1>5. QED
  BY <1>1, <1>2, <1>3, <1>4, FailureKeepsCalls

\* So is a subframe that is not supported.
LEMMA SubframeFailureKeepsCalls ==
    ASSUME ReadingInv, CallInv, SubframeFails
    PROVE  CallInv'
<1>1. /\ stage = "subframes" /\ ch < body.pieces
      /\ body.fate = "unsupported" /\ body.sub = ch + 1 /\ Fails("unsupported")
  BY DEF SubframeFails
<1>2. GivenOK /\ ch \in Nat /\ condition \in {"whole", "damaged"}
  BY <1>1, InTheBody
<1>3. body.pieces \in Nat
  BY <1>2 DEF GivenOK
<1>4. Verdict = "unsupported"
  BY <1>1, <1>2, <1>3, Verdicts
<1>5. Error("unsupported") = "unsupported"
  BY DEF Error
<1>6. QED
  BY <1>1, <1>2, <1>4, <1>5, FailureKeepsCalls

\* A subframe that is read fills its channel with this call's samples, and so does the
\* second of a pair both of its channels.
LEMMA DecodeSubframeKeepsCalls ==
    ASSUME ReadingInv, CallInv, DecodeSubframe
    PROVE  CallInv'
<1>1. /\ stage = "subframes" /\ ch < body.pieces
      /\ ~(body.fate = "unsupported" /\ body.sub = ch + 1)
      /\ ch' = ch + 1 /\ stage' = IF ch' = shown THEN "crc" ELSE stage
      /\ UNCHANGED <<vars, body, calls, shown, frame, recorded>>
  BY DEF DecodeSubframe
<1>2. /\ GivenOK /\ HeaderSane /\ Decoding
      /\ hdr.channels \in 0..10 /\ shown \in Nat /\ shown >= 1 /\ ch \in Nat
      /\ hdr.channels >= 8 => shown = 2
  BY <1>1, InTheBody
<1>3. PICK out : out = (body.fate = "range" /\ body.sub = ch + 1) /\ out \in BOOLEAN
  OBVIOUS
<1>4. PICK fills : fills = IF hdr.channels >= 8 THEN (IF ch = 1 /\ ~bad /\ ~out THEN {1, 2} ELSE {})
                           ELSE {ch + 1}
  OBVIOUS
<1>5. PICK from : from = IF out THEN 0 ELSE calls
  OBVIOUS
<1>6. /\ bad' = (bad \/ out)
      /\ channels' = [c \in DOMAIN channels |->
             IF c \in fills THEN [channels[c] EXCEPT !.from = from] ELSE channels[c]]
  BY <1>3, <1>4, <1>5 DEF DecodeSubframe
<1>7. PICK m : m = Len(channels) /\ m \in Nat /\ DOMAIN channels = 1..m
  BY DEF CallInv, BuffersOK
<1>8. PICK f : f = channels'
  OBVIOUS
<1>9. f = [c \in 1..m |-> IF c \in fills THEN [channels[c] EXCEPT !.from = from] ELSE channels[c]]
  BY <1>6, <1>7, <1>8
<1>10. DOMAIN f = 1..m /\ Len(f) = m
  <2>1. DOMAIN f = 1..m /\ f = [c \in 1..m |-> f[c]]
    BY <1>9
  <2>2. QED
    BY <1>7, <2>1, LengthOf
<1>11. ASSUME NEW c \in 1..m
       PROVE  /\ DOMAIN f[c] = BufferFields /\ f[c].len = channels[c].len
              /\ f[c].from = IF c \in fills THEN from ELSE channels[c].from
  <2>1. DOMAIN channels[c] = BufferFields
    BY <1>7 DEF CallInv, BuffersOK
  <2>2. CASE c \in fills
    <3>1. f[c] = [channels[c] EXCEPT !.from = from]
      BY <1>9, <2>2
    <3>2. QED
      BY <2>1, <2>2, <3>1 DEF BufferFields
  <2>3. CASE c \notin fills
    BY <1>9, <2>1, <2>3
  <2>4. QED
    BY <2>2, <2>3
<1>12. BuffersOK'
  BY <1>7, <1>8, <1>10, <1>11 DEF BuffersOK
<1>13. UNCHANGED <<info, sent, stream, condition, at, step, hdr, outcome, body, calls, shown, recorded>>
  BY <1>1 DEF vars
<1>14. /\ step = "done" /\ outcome = "ok" /\ shown = Channels(hdr.channels) /\ shown <= m
       /\ ch < shown /\ bad \in BOOLEAN
       /\ bad <=> body.fate = "range" /\ body.sub <= ch
       /\ body.fate = "unsupported" => ch < body.sub
       /\ \A c \in 1..shown : channels[c].len = hdr.blockSize
       /\ ~bad /\ (hdr.channels < 8 \/ ch = 2) => \A c \in 1..ch : channels[c].from = calls
  BY <1>1, <1>2, <1>7 DEF Decoding
<1>15. body.sub \in Nat /\ body.pieces \in Nat
  <2>1. sent.channels \in 0..10
    BY <1>2 DEF GivenOK, HeaderOK
  <2>2. Channels(sent.channels) \in Nat
    BY <2>1, ChannelCounts
  <2>3. QED
    BY <1>2, <2>2 DEF GivenOK
<1>16. ch' \in 0..shown /\ ch' <= body.pieces
  BY <1>1, <1>2, <1>14, <1>15
<1>17. /\ stage' \in {"subframes", "crc"}
       /\ (stage' = "subframes" => ch' < shown) /\ (stage' = "crc" => ch' = shown)
  BY <1>1, <1>2, <1>16
<1>18. bad' \in BOOLEAN /\ (bad' <=> body.fate = "range" /\ body.sub <= ch')
  <2>1. body.sub <= ch + 1 <=> body.sub <= ch \/ body.sub = ch + 1
    BY <1>2, <1>15
  <2>2. bad' \in BOOLEAN
    BY <1>3, <1>6, <1>14
  <2>3. bad' <=> bad \/ out
    BY <1>6
  <2>4. bad' <=> body.fate = "range" /\ (body.sub <= ch \/ body.sub = ch + 1)
    BY <1>3, <1>14, <2>3
  <2>5. QED
    BY <1>1, <2>1, <2>2, <2>4
<1>19. body.fate = "unsupported" => ch' < body.sub
  BY <1>1, <1>2, <1>14, <1>15
<1>20. \A c \in 1..shown : f[c].len = hdr.blockSize
  BY <1>2, <1>7, <1>11, <1>14
<1>21. ASSUME ~bad', hdr.channels < 8 \/ ch' = 2, NEW c \in 1..ch'
       PROVE  f[c].from = calls
  <2>1. ~bad /\ ~out
    BY <1>6, <1>21
  <2>2. from = calls /\ c \in 1..m
    BY <1>1, <1>2, <1>5, <1>7, <1>14, <1>16, <2>1
  <2>3. CASE hdr.channels < 8
    <3>1. fills = {ch + 1}
      BY <1>2, <1>4, <2>3
    <3>2. CASE c = ch + 1
      BY <1>11, <2>2, <3>1, <3>2
    <3>3. CASE c # ch + 1
      <4>1. c \in 1..ch
        BY <1>1, <1>2, <3>3
      <4>2. QED
        BY <1>11, <1>14, <2>1, <2>2, <2>3, <3>1, <3>3, <4>1
    <3>4. QED
      BY <3>2, <3>3
  <2>4. CASE ~(hdr.channels < 8)
    <3>1. ch = 1 /\ hdr.channels >= 8
      BY <1>1, <1>2, <1>21, <2>4
    <3>2. fills = {1, 2}
      BY <1>4, <2>1, <3>1
    <3>3. c = 1 \/ c = 2
      BY <1>1, <3>1
    <3>4. QED
      BY <1>11, <2>2, <3>2, <3>3
  <2>5. QED
    BY <2>3, <2>4
<1>22. Decoding'
  <2>1. (ch \in 0..shown /\ ch <= body.pieces /\ shown <= Len(channels))'
    BY <1>8, <1>10, <1>13, <1>14, <1>16
  <2>2. (\A c \in 1..shown : channels[c].len = hdr.blockSize)'
    BY <1>8, <1>13, <1>20
  <2>3. (~bad /\ (hdr.channels < 8 \/ ch = 2) => \A c \in 1..ch : channels[c].from = calls)'
    BY <1>8, <1>13, <1>21
  <2>4. (step = "done" /\ outcome = "ok" /\ shown = Channels(hdr.channels))'
    BY <1>13, <1>14
  <2>5. (bad \in BOOLEAN /\ (bad <=> body.fate = "range" /\ body.sub <= ch))'
    BY <1>13, <1>18
  <2>6. /\ (body.fate = "unsupported" => ch < body.sub)'
        /\ (stage = "subframes" => ch < shown)'
        /\ (stage \in {"crc", "decoded"} => ch = shown)' /\ stage' # "decoded"
    BY <1>13, <1>17, <1>19
  <2>7. QED
    BY <2>1, <2>2, <2>3, <2>4, <2>5, <2>6 DEF Decoding
<1>23. GivenOK' /\ HeaderSane' /\ calls' \in Nat /\ calls' # 0
  BY <1>1, <1>2, <1>13 DEF GivenOK, HeaderSane, CallInv
<1>24. (DOMAIN info = InfoFields /\ info = [x \in InfoFields |-> info[x]])'
  BY <1>13 DEF CallInv
<1>25. QED
  BY <1>12, <1>17, <1>22, <1>23, <1>24 DEF CallInv

\* The CRC-16 is judged before the samples: a damaged packet is never said to be out of
\* range, and a whole one that passes is sound.
LEMMA CheckKeepsCalls ==
    ASSUME ReadingInv, CallInv, Check
    PROVE  CallInv'
<1>1. stage = "crc" /\ ch < body.pieces
  BY DEF Check
<1>2. /\ GivenOK /\ HeaderSane /\ Decoding
      /\ shown \in Nat /\ ch \in Nat /\ condition \in {"whole", "damaged"}
      /\ condition = "whole" => shown = Channels(sent.channels)
  BY <1>1, InTheBody
<1>3. recorded = {calls} /\ body.pieces \in Nat
  BY <1>2 DEF GivenOK
<1>4. /\ ch = shown /\ (bad <=> body.fate = "range" /\ body.sub <= ch) /\ bad \in BOOLEAN
      /\ body.fate = "unsupported" => ch < body.sub
  BY <1>1, <1>2 DEF Decoding
<1>5. /\ Error("mismatch") = "mismatch" /\ Error("range") = "range"
  BY DEF Error
<1>6. condition = "whole" => /\ body.sub <= ch /\ body.fate # "unsupported"
                             /\ body.pieces >= shown + 1
  <2>1. HAVE condition = "whole"
  <2>2. body.sub \in 1..shown
    BY <1>2, <2>1 DEF GivenOK
  <2>3. body.sub <= ch
    BY <1>2, <1>4, <2>2
  <2>4. QED
    BY <1>1, <1>2, <1>3, <1>4, <2>2, <2>3
<1>7. CASE ~CrcMatches
  <2>1. Fails("mismatch")
    BY <1>7 DEF Check
  <2>2. condition = "whole" => Verdict = "mismatch"
    <3>1. HAVE condition = "whole"
    <3>2. body.fate = "crc"
      BY <1>3, <1>7, <3>1 DEF CrcMatches
    <3>3. QED
      BY <1>2, <1>6, <3>1, <3>2, Verdicts
  <2>3. QED
    BY <1>1, <1>2, <1>5, <2>1, <2>2, FailureKeepsCalls
<1>8. CASE CrcMatches /\ bad
  <2>1. Fails("range")
    BY <1>8 DEF Check
  <2>2. condition = "whole" /\ body.fate = "range"
    BY <1>2, <1>4, <1>8 DEF CrcMatches
  <2>3. Verdict = "range"
    BY <1>2, <1>6, <2>2, Verdicts
  <2>4. QED
    BY <1>1, <1>5, <2>1, <2>2, <2>3, FailureKeepsCalls
<1>9. CASE CrcMatches /\ ~bad
  <2>1. /\ frame' = [blockSize |-> hdr.blockSize, rate |-> hdr.rate, depth |-> hdr.depth]
        /\ stage' = "decoded"
        /\ UNCHANGED <<vars, body, calls, channels, shown, recorded, ch, bad>>
    BY <1>9 DEF Check, current
  <2>2. UNCHANGED <<info, sent, stream, condition, at, step, hdr, outcome>>
    BY <2>1 DEF vars
  <2>3. condition = "whole" /\ body.fate \notin {"crc", "range"}
    BY <1>2, <1>4, <1>6, <1>9 DEF CrcMatches
  <2>4. Decoding'
    <3>1. /\ step = "done" /\ outcome = "ok"
          /\ shown = Channels(hdr.channels) /\ shown <= Len(channels)
          /\ ch \in 0..shown /\ ch <= body.pieces
          /\ \A c \in 1..shown : channels[c].len = hdr.blockSize
          /\ ~bad /\ (hdr.channels < 8 \/ ch = 2) => \A c \in 1..ch : channels[c].from = calls
      BY <1>2 DEF Decoding
    <3>2. QED
      BY <1>1, <1>4, <1>9, <2>1, <2>2, <2>3, <3>1 DEF Decoding
  <2>5. GivenOK' /\ HeaderSane' /\ BuffersOK'
    BY <1>2, <2>1, <2>2 DEF GivenOK, HeaderSane, CallInv, BuffersOK
  <2>6. (DOMAIN info = InfoFields /\ info = [x \in InfoFields |-> info[x]])'
    BY <2>2 DEF CallInv
  <2>7. calls' \in Nat /\ calls' # 0
    BY <1>1, <2>1 DEF CallInv
  <2>8. QED
    BY <2>1, <2>4, <2>5, <2>6, <2>7 DEF CallInv
<1>10. QED
  BY <1>7, <1>8, <1>9, Zenon

\* A sound frame is packed when it is one of this stream, with its own samples in every
\* channel, and refused otherwise.
LEMMA PackKeepsCalls ==
    ASSUME ReadingInv, CallInv, Pack
    PROVE  CallInv'
<1>1. stage = "decoded"
  BY DEF Pack
<1>2. /\ GivenOK /\ HeaderSane /\ Decoding
      /\ shown \in Nat /\ ch \in Nat /\ condition = "whole" /\ ch = shown
      /\ shown = Channels(sent.channels) /\ hdr.channels = sent.channels
      /\ hdr.channels \in 0..10 /\ (hdr.channels >= 8 => shown = 2)
  BY <1>1, InTheBody DEF Decoding
<1>3. /\ ch < body.pieces /\ body.fate \notin {"crc", "range"} /\ ~bad
      /\ frame = [blockSize |-> hdr.blockSize, rate |-> hdr.rate, depth |-> hdr.depth]
      /\ body.fate = "unsupported" => ch < body.sub
      /\ \A c \in 1..shown : channels[c].len = hdr.blockSize
      /\ ~bad /\ (hdr.channels < 8 \/ ch = 2) => \A c \in 1..ch : channels[c].from = calls
  BY <1>1, <1>2 DEF Decoding
<1>4. body.fate = "sound" /\ body.pieces >= shown + 1
  <2>1. body.pieces \in Nat /\ body.sub \in 1..shown
    BY <1>2 DEF GivenOK
  <2>2. body.fate \in {"sound", "range", "unsupported", "crc"}
    BY <1>2 DEF GivenOK
  <2>3. QED
    BY <1>2, <1>3, <2>1, <2>2
<1>5. Verdict = IF Mine THEN "none" ELSE "disagrees"
  BY <1>2, <1>4, Verdicts
<1>6. /\ hdr.blockSize = sent.blockSize
      /\ hdr.rate = IF SampleRateCode(sent.rate).code = 0 THEN info.rate ELSE sent.rate
      /\ hdr.depth = IF BitDepthCode(sent.depth) = 0 THEN info.depth ELSE sent.depth
  BY <1>2, AcceptedAsSent DEF Decoding
<1>7. PICK got : got = [rate |-> frame.rate, depth |-> frame.depth, channels |-> shown]
  OBVIOUS
<1>8. got = info <=> Mine
  <2>1. got.rate = hdr.rate /\ got.depth = hdr.depth /\ got.channels = shown
    BY <1>3, <1>7
  <2>2. DOMAIN got = InfoFields /\ got = [f \in InfoFields |-> got[f]]
    BY <1>7 DEF InfoFields
  <2>3. DOMAIN info = InfoFields /\ info = [f \in InfoFields |-> info[f]]
    BY DEF CallInv
  <2>4. got = info <=> /\ got.rate = info.rate /\ got.depth = info.depth
                       /\ got.channels = info.channels
    BY <2>2, <2>3 DEF InfoFields
  <2>5. Mine <=> /\ hdr.rate = info.rate /\ hdr.depth = info.depth /\ shown = info.channels
    BY <1>2, <1>6 DEF Mine
  <2>6. QED
    BY <2>1, <2>4, <2>5
<1>9. CASE got # info
  <2>1. Fails("disagrees")
    BY <1>7, <1>9 DEF Pack
  <2>2. Error("disagrees") = "disagrees"
    BY DEF Error
  <2>3. QED
    BY <1>1, <1>2, <1>5, <1>8, <1>9, <2>1, <2>2, FailureKeepsCalls
<1>10. CASE got = info
  <2>1. Mine
    BY <1>8, <1>10
  <2>2. PICK audio : audio = [c \in 1..shown |-> [from |-> channels[c].from, len |-> channels[c].len]]
    OBVIOUS
  <2>3. /\ ret' = [err |-> "none", blockSize |-> frame.blockSize, audio |-> audio]
        /\ stage' = "idle" /\ UNCHANGED <<vars, body, calls, channels, recorded>>
    BY <1>7, <1>10, <2>2 DEF Pack, Returns
  <2>4. UNCHANGED <<info, sent, stream, condition, at, step, hdr, outcome>>
    BY <2>3 DEF vars
  <2>5. Verdict' = Verdict
    BY <2>3, <2>4 DEF Verdict, Mine
  <2>6. \A c \in 1..shown : channels[c].from = calls /\ channels[c].len = sent.blockSize
    BY <1>2, <1>3, <1>6
  <2>7. audio = [c \in 1..shown |-> [from |-> calls, len |-> sent.blockSize]]
    BY <2>2, <2>6
  <2>8. shown = info.channels
    BY <1>2, <2>1 DEF Mine
  <2>9. ret'.err = "none" /\ ret'.blockSize = sent.blockSize /\ ret'.audio = audio
    BY <1>3, <1>6, <2>3
  <2>10. Answer'
    BY <1>2, <1>5, <2>1, <2>3, <2>4, <2>5, <2>7, <2>8, <2>9 DEF Answer
  <2>11. GivenOK' /\ HeaderSane' /\ BuffersOK'
    BY <1>2, <2>3, <2>4 DEF GivenOK, HeaderSane, CallInv, BuffersOK
  <2>12. (DOMAIN info = InfoFields /\ info = [x \in InfoFields |-> info[x]])' /\ calls' \in Nat
    BY <2>3, <2>4 DEF CallInv
  <2>13. QED
    BY <2>3, <2>10, <2>11, <2>12 DEF CallInv
<1>11. QED
  BY <1>9, <1>10

\* So does every step.
LEMMA CallsStay ==
    ASSUME ReadingInv, CallInv, [DecoderNext]_allVars
    PROVE  CallInv'
<1>1. CASE stage = "header" /\ Next /\ UNCHANGED decoderVars
  BY <1>1, FieldsKeepCalls
<1>2. CASE \E b \in Infos : NewFrameDecoder(b)
  BY <1>2, StreamInfoKeepsCalls
<1>3. CASE \E p \in Packets : DecodeInterleaved(p)
  BY <1>3, PacketsKeepCalls
<1>4. CASE HeaderFails
  BY <1>4, HeaderFailureKeepsCalls
<1>5. CASE EnterBody
  BY <1>5, EnterBodyKeepsCalls
<1>6. CASE BodyEnds
  BY <1>6, BodyEndsKeepsCalls
<1>7. CASE SubframeFails
  BY <1>7, SubframeFailureKeepsCalls
<1>8. CASE DecodeSubframe
  BY <1>8, DecodeSubframeKeepsCalls
<1>9. CASE Check
  BY <1>9, CheckKeepsCalls
<1>10. CASE Pack
  BY <1>10, PackKeepsCalls
<1>11. CASE UNCHANGED allVars
  <2>1. /\ UNCHANGED <<info, sent, stream, condition, at, step, hdr, outcome>>
        /\ UNCHANGED <<stage, body, calls, channels, shown, frame, recorded, ch, bad, ret>>
    BY <1>11 DEF allVars, vars, decoderVars, kept, current
  <2>2. UNCHANGED <<GivenOK, HeaderSane, Decoding, BuffersOK>>
    BY <2>1 DEF GivenOK, HeaderSane, Decoding, BuffersOK
  <2>3. Verdict' = Verdict
    BY <2>1 DEF Verdict, Mine
  <2>4. Answer' = Answer
    BY <2>1, <2>3 DEF Answer
  <2>5. QED
    BY <2>1, <2>2, <2>4 DEF CallInv
<1>12. QED
  BY <1>1, <1>2, <1>3, <1>4, <1>5, <1>6, <1>7, <1>8, <1>9, <1>10, <1>11, Zenon DEF DecoderNext

\* The invariant says what is to be shown.
LEMMA CallsAreRight == CallInv => CallsStandAlone
<1> SUFFICES ASSUME CallInv, stage = "idle", calls > 0
             PROVE  CallsStandAlone
  BY DEF CallsStandAlone
<1>1. Answer /\ condition \in {"whole", "cut", "damaged"}
  BY DEF CallInv, GivenOK
<1>2. CASE condition = "whole"
  BY <1>1, <1>2 DEF Answer, CallsStandAlone
<1>3. CASE condition = "cut"
  BY <1>1, <1>3 DEF Answer, CallsStandAlone
<1>4. CASE condition = "damaged"
  BY <1>1, <1>4 DEF Answer, CallsStandAlone
<1>5. QED
  BY <1>1, <1>2, <1>3, <1>4

\* In every run of the decoder, over every STREAMINFO and every sequence of packets, what a
\* call returns is what its packet and the STREAMINFO come to: no sample of an earlier
\* packet, and no verdict on one, is left in the buffers or in the tap.
THEOREM CallsAreAlone == DecoderSpec => []CallsStandAlone
<1>1. DecoderInit => ReadingInv /\ CallInv
  BY ReadingStarts, CallsStart
<1>2. ReadingInv /\ CallInv /\ [DecoderNext]_allVars => (ReadingInv /\ CallInv)'
  BY ReadingStays, CallsStay
<1>3. DecoderSpec => [](ReadingInv /\ CallInv)
  BY <1>1, <1>2, PTL DEF DecoderSpec
<1>4. QED
  BY <1>3, CallsAreRight, PTL

=============================================================================
