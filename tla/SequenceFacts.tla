---------------------------- MODULE SequenceFacts ----------------------------
(***************************************************************************)
(* Facts about sequences and numbers that the proofs of several components  *)
(* need: what cutting a sequence in two gives, how runs of numbers join and *)
(* part, what division gives, and what FlattenSeq of the community modules  *)
(* does with a sequence that is extended by an element.  FlattenSeq is a    *)
(* recursive function on the positions of its argument: that there is such  *)
(* a function is induction, and induction comes from the least element of a *)
(* set of naturals.  So is that any function defined by recursion on an     *)
(* interval exists.                                                         *)
(***************************************************************************)
EXTENDS Integers, Sequences, SequencesExt, SequenceTheorems, WellFoundedInduction,
        TLAPS

-----------------------------------------------------------------------------
(* Induction over the naturals, for a set.                                  *)

\* A set of naturals that has an element has a least one.
LEMMA NatMin ==
    ASSUME NEW T \in SUBSET Nat, NEW n \in T
    PROVE  \E x \in T : \A y \in T : x <= y
<1> DEFINE R == {q \in Nat \X Nat : q[1] < q[2]}
<1>1. IsWellFoundedOn(R, Nat)
  BY NatLessThanWellFounded DEF OpToRel
<1>2. \E x \in T : \A y \in T : <<y, x>> \notin R
  BY <1>1, WFMin
<1>3. PICK x \in T : \A y \in T : <<y, x>> \notin R
  BY <1>2
<1>4. \A y \in T : ~(y < x)
  BY <1>3
<1>5. QED
  BY <1>4

\* A set that holds 0 and with every natural the next one holds them all.
LEMMA NatInd ==
    ASSUME NEW T, 0 \in T, \A n \in Nat : n \in T => n + 1 \in T
    PROVE  Nat \subseteq T
<1> DEFINE U == Nat \ T
<1> SUFFICES ASSUME NEW n \in U PROVE FALSE
  OBVIOUS
<1>1. PICK x \in U : \A y \in U : x <= y
  BY NatMin
<1>2. x - 1 \in Nat /\ ~(x <= x - 1)
  BY <1>1
<1>3. x - 1 \in T
  BY <1>1, <1>2
<1>4. (x - 1) + 1 \in T
  BY <1>2, <1>3
<1>5. x \in T
  BY <1>1, <1>4
<1>6. QED
  BY <1>1, <1>5

-----------------------------------------------------------------------------
(* Recursive functions on an interval of the naturals.                      *)

\* g is built from a on up to n: value i from i and the value before it.
Builds(g, a, step, n) ==
    /\ DOMAIN g = 0..n
    /\ g[0] = a
    /\ \A i \in 1..n : g[i] = step[<<i, g[i - 1]>>]

\* There is such a function for every n.
LEMMA BuildExists ==
    ASSUME NEW V, NEW a \in V, NEW step \in [Nat \X V -> V], NEW n \in Nat
    PROVE  \E g \in [0..n -> V] : Builds(g, a, step, n)
<1> DEFINE T == {k \in Nat : \E g \in [0..k -> V] : Builds(g, a, step, k)}
<1>1. 0 \in T
  <2>1. PICK g : g = [i \in 0..0 |-> a]
    OBVIOUS
  <2>2. g \in [0..0 -> V] /\ Builds(g, a, step, 0)
    BY <2>1 DEF Builds
  <2>3. QED
    BY <2>2
<1>2. ASSUME NEW k \in Nat, k \in T PROVE k + 1 \in T
  <2>1. PICK g \in [0..k -> V] : Builds(g, a, step, k)
    BY <1>2
  <2>2. PICK new : new = step[<<k + 1, g[k]>>]
    OBVIOUS
  <2>3. new \in V
    <3>1. g[k] \in V
      BY <2>1
    <3>2. <<k + 1, g[k]>> \in Nat \X V
      BY <3>1
    <3>3. QED
      BY <2>2, <3>2
  <2>4. PICK h : h = [i \in 0..(k + 1) |-> IF i = k + 1 THEN new ELSE g[i]]
    OBVIOUS
  <2>5. /\ DOMAIN h = 0..(k + 1) /\ h[k + 1] = new
        /\ \A i \in 0..k : h[i] = g[i]
    BY <2>4
  <2>6. h \in [0..(k + 1) -> V]
    BY <2>1, <2>3, <2>4
  <2>7. h[0] = a
    BY <2>1, <2>5 DEF Builds
  <2>8. \A i \in 1..(k + 1) : h[i] = step[<<i, h[i - 1]>>]
    <3>1. TAKE i \in 1..(k + 1)
    <3>2. CASE i = k + 1
      <4>1. h[i - 1] = g[k] /\ h[i] = new
        BY <3>2, <2>5
      <4>2. QED
        BY <4>1, <3>2, <2>2
    <3>3. CASE i # k + 1
      <4>1. i \in 1..k /\ i \in 0..k /\ i - 1 \in 0..k
        BY <3>3
      <4>2. h[i] = g[i] /\ h[i - 1] = g[i - 1] /\ g[i] = step[<<i, g[i - 1]>>]
        BY <4>1, <2>1, <2>5 DEF Builds
      <4>3. QED
        BY <4>2
    <3>4. QED
      BY <3>2, <3>3
  <2>9. Builds(h, a, step, k + 1)
    BY <2>5, <2>7, <2>8 DEF Builds
  <2>10. QED
    BY <2>6, <2>9
<1>3. Nat \subseteq T
  BY <1>1, <1>2, NatInd
<1>4. QED
  BY <1>3

-----------------------------------------------------------------------------
(* The recursive function of FlattenSeq.                                    *)

\* g is what FlattenSeq defines for the first n elements of ss.
Flattens(g, ss, n) ==
    g = [i \in 1..n |-> IF i = 1 THEN ss[i] ELSE g[i - 1] \o ss[i]]

\* Its first value is the first element.
LEMMA FlattenFirst ==
    ASSUME NEW g, NEW ss, NEW n \in Nat, Flattens(g, ss, n), n # 0
    PROVE  g[1] = ss[1]
<1>1. 1 \in 1..n
  OBVIOUS
<1>2. g[1] = IF 1 = 1 THEN ss[1] ELSE g[1 - 1] \o ss[1]
  BY <1>1, Zenon DEF Flattens
<1>3. QED
  BY <1>2

\* Each later value appends an element to the one before.
LEMMA FlattenNext ==
    ASSUME NEW g, NEW ss, NEW n \in Nat, Flattens(g, ss, n), NEW i \in 1..n, i # 1
    PROVE  g[i] = g[i - 1] \o ss[i]
<1>1. g[i] = IF i = 1 THEN ss[i] ELSE g[i - 1] \o ss[i]
  BY Zenon DEF Flattens
<1>2. QED
  BY <1>1

\* There is one for every n.
LEMMA FlattenExists ==
    ASSUME NEW ss, NEW n \in Nat
    PROVE  \E g : Flattens(g, ss, n)
<1> DEFINE T == {k \in Nat : \E g : Flattens(g, ss, k)}
<1>1. 0 \in T
  <2> DEFINE g == [i \in 1..0 |-> ss[i]]
  <2>1. g = [i \in 1..0 |-> IF i = 1 THEN ss[i] ELSE g[i - 1] \o ss[i]]
    OBVIOUS
  <2>2. Flattens(g, ss, 0)
    BY <2>1 DEF Flattens
  <2>3. QED
    BY <2>2
<1>2. ASSUME NEW k \in Nat, k \in T PROVE k + 1 \in T
  <2>1. PICK g : Flattens(g, ss, k)
    BY <1>2
  <2> DEFINE new == IF k + 1 = 1 THEN ss[k + 1] ELSE g[k] \o ss[k + 1]
             h == [i \in 1..(k + 1) |-> IF i = k + 1 THEN new ELSE g[i]]
  <2>2. \A i \in 1..k : h[i] = g[i]
    OBVIOUS
  <2>3. \A i \in 1..k : g[i] = IF i = 1 THEN ss[i] ELSE g[i - 1] \o ss[i]
    BY <2>1, Zenon DEF Flattens
  <2>4. \A i \in 1..k : h[i] = IF i = 1 THEN ss[i] ELSE h[i - 1] \o ss[i]
    <3>1. TAKE i \in 1..k
    <3>2. CASE i = 1
      BY <3>2, <2>2, <2>3
    <3>3. CASE i # 1
      <4>1. i - 1 \in 1..k
        BY <3>3
      <4>2. h[i] = g[i] /\ h[i - 1] = g[i - 1] /\ g[i] = g[i - 1] \o ss[i]
        BY <4>1, <3>3, <2>2, <2>3
      <4>3. QED
        BY <4>2, <3>3
    <3>4. QED
      BY <3>2, <3>3
  <2>5. h[k + 1] = IF k + 1 = 1 THEN ss[k + 1] ELSE h[k + 1 - 1] \o ss[k + 1]
    <3>1. h[k + 1] = new
      OBVIOUS
    <3>2. CASE k + 1 = 1
      BY <3>1, <3>2
    <3>3. CASE k + 1 # 1
      <4>1. k \in 1..k /\ k + 1 - 1 = k
        BY <3>3
      <4>2. h[k + 1 - 1] = g[k]
        BY <4>1, <2>2
      <4>3. QED
        BY <3>1, <3>3, <4>2
    <3>4. QED
      BY <3>2, <3>3
  <2>6. \A i \in 1..(k + 1) : i \in 1..k \/ i = k + 1
    OBVIOUS
  <2>7. DOMAIN h = 1..(k + 1) /\ h = [i \in 1..(k + 1) |-> h[i]]
    OBVIOUS
  <2> HIDE DEF h
  <2>8. \A i \in 1..(k + 1) : h[i] = IF i = 1 THEN ss[i] ELSE h[i - 1] \o ss[i]
    <3>1. TAKE i \in 1..(k + 1)
    <3>2. CASE i \in 1..k
      BY <3>2, <2>4
    <3>3. CASE i = k + 1
      BY <3>3, <2>5
    <3>4. QED
      BY <3>2, <3>3, <2>6
  <2>9. h = [i \in 1..(k + 1) |-> IF i = 1 THEN ss[i] ELSE h[i - 1] \o ss[i]]
    BY <2>7, <2>8
  <2>10. Flattens(h, ss, k + 1)
    BY <2>9 DEF Flattens
  <2>11. QED
    BY <2>10
<1>3. Nat \subseteq T
  BY <1>1, <1>2, NatInd
<1>4. QED
  BY <1>3

\* Any two agree where both are defined, if the sequences do.
LEMMA FlattenUnique ==
    ASSUME NEW ss, NEW tt, NEW m \in Nat, NEW n \in Nat, m <= n,
           \A i \in 1..m : ss[i] = tt[i],
           NEW g, Flattens(g, ss, m), NEW h, Flattens(h, tt, n)
    PROVE  \A i \in 1..m : g[i] = h[i]
<1> DEFINE T == {k \in Nat : k \in 1..m => g[k] = h[k]}
<1>0. 1..m \subseteq 1..n
  OBVIOUS
<1>1. 0 \in T
  OBVIOUS
<1>2. ASSUME NEW k \in Nat, k \in T PROVE k + 1 \in T
  <2> SUFFICES ASSUME k + 1 \in 1..m PROVE g[k + 1] = h[k + 1]
    OBVIOUS
  <2>1. ss[k + 1] = tt[k + 1]
    OBVIOUS
  <2>2. CASE k = 0
    <3>1. g[1] = ss[1] /\ h[1] = tt[1]
      BY <2>2, FlattenFirst
    <3>2. QED
      BY <2>1, <2>2, <3>1
  <2>3. CASE k # 0
    <3>1. k \in 1..m /\ k + 1 # 1 /\ k + 1 - 1 = k
      BY <2>3
    <3>2. g[k] = h[k]
      BY <3>1, <1>2
    <3>3. PICK i \in 1..m : i = k + 1
      OBVIOUS
    <3>4. i # 1 /\ i \in 1..n /\ i - 1 = k
      BY <3>1, <3>3, <1>0
    <3>5. g[i] = IF i = 1 THEN ss[i] ELSE g[i - 1] \o ss[i]
      BY Zenon DEF Flattens
    <3>6. h[i] = IF i = 1 THEN tt[i] ELSE h[i - 1] \o tt[i]
      BY <3>4, Zenon DEF Flattens
    <3>7. ss[i] = tt[i] /\ g[i - 1] = h[i - 1]
      BY <3>2, <3>4
    <3>8. g[i] = h[i]
      BY <3>4, <3>5, <3>6, <3>7
    <3>9. QED
      BY <3>3, <3>8
  <2>4. QED
    BY <2>2, <2>3
<1>3. Nat \subseteq T
  BY <1>1, <1>2, NatInd
<1>4. QED
  BY <1>3

\* FlattenSeq is the value of one at the last position.
LEMMA FlattenValue ==
    ASSUME NEW ss, Len(ss) \in Nat, Len(ss) # 0
    PROVE  \E g : Flattens(g, ss, Len(ss)) /\ FlattenSeq(ss) = g[Len(ss)]
<1> DEFINE flatten == CHOOSE g : g = [i \in 1..Len(ss) |->
                                        IF i = 1 THEN ss[i] ELSE g[i - 1] \o ss[i]]
<1>1. \E g : g = [i \in 1..Len(ss) |-> IF i = 1 THEN ss[i] ELSE g[i - 1] \o ss[i]]
  BY FlattenExists DEF Flattens
<1>2. flatten = [i \in 1..Len(ss) |-> IF i = 1 THEN ss[i] ELSE flatten[i - 1] \o ss[i]]
  BY <1>1, Zenon
<1>3. FlattenSeq(ss) = flatten[Len(ss)]
  BY DEF FlattenSeq
<1> HIDE DEF flatten
<1>4. Flattens(flatten, ss, Len(ss))
  BY <1>2 DEF Flattens
<1>5. QED
  BY <1>3, <1>4

\* So a longer sequence has one element more appended.
LEMMA FlattenLonger ==
    ASSUME NEW ss, NEW tt, NEW n \in Nat, n # 0, \A i \in 1..n : ss[i] = tt[i],
           NEW g, Flattens(g, ss, n), NEW h, Flattens(h, tt, n + 1)
    PROVE  h[n + 1] = g[n] \o tt[n + 1]
<1>1. PICK m \in Nat : m = n + 1
  OBVIOUS
<1>2. Flattens(h, tt, m) /\ n <= m /\ m \in 1..m /\ m # 1 /\ n \in 1..n
  BY <1>1
<1>3. \A i \in 1..n : g[i] = h[i]
  BY <1>2, FlattenUnique
<1>4. m - 1 = n
  BY <1>1
<1>5. h[m] = h[m - 1] \o tt[m]
  BY <1>2, FlattenNext
<1>6. g[n] = h[n]
  BY <1>2, <1>3
<1>7. QED
  BY <1>1, <1>4, <1>5, <1>6

-----------------------------------------------------------------------------
(* What FlattenSeq gives.                                                   *)

\* No elements, nothing.
LEMMA FlattenNone == FlattenSeq(<<>>) = <<>>
BY DEF FlattenSeq

\* One more element is appended.
LEMMA FlattenAppend ==
    ASSUME NEW S, NEW ss \in Seq(Seq(S)), NEW s \in Seq(S)
    PROVE  FlattenSeq(Append(ss, s)) = FlattenSeq(ss) \o s
<1>1. PICK tt : tt = Append(ss, s)
  OBVIOUS
<1>2. PICK n \in Nat : n = Len(ss)
  OBVIOUS
<1>3. Len(tt) = n + 1 /\ tt[n + 1] = s
  BY <1>1, <1>2
<1>4. \A i \in 1..n : ss[i] = tt[i]
  BY <1>1, <1>2
<1>5. PICK h : Flattens(h, tt, n + 1) /\ FlattenSeq(tt) = h[n + 1]
  BY <1>3, FlattenValue
<1>6. CASE n = 0
  <2>1. ss = <<>>
    BY <1>2, <1>6, EmptySeq
  <2>2. FlattenSeq(ss) = <<>> /\ <<>> \o s = s
    BY <2>1, FlattenNone
  <2>3. h[1] = tt[1]
    BY <1>5, <1>6, FlattenFirst
  <2>4. QED
    BY <1>1, <1>3, <1>5, <1>6, <2>2, <2>3
<1>7. CASE n # 0
  <2>1. PICK g : Flattens(g, ss, n) /\ FlattenSeq(ss) = g[n]
    BY <1>2, <1>7, FlattenValue
  <2>2. PICK t : t = tt[n + 1]
    OBVIOUS
  <2>3. Flattens(g, ss, n) /\ Flattens(h, tt, n + 1) /\ n # 0
    BY <2>1, <1>5, <1>7
  <2>4. h[n + 1] = g[n] \o tt[n + 1]
    BY <2>3, <1>4, FlattenLonger, Zenon
  <2>5. QED
    BY <1>1, <1>3, <1>5, <2>1, <2>4
<1>8. QED
  BY <1>6, <1>7

\* What it gives is a sequence.
LEMMA FlattenType ==
    ASSUME NEW S, NEW ss \in Seq(Seq(S))
    PROVE  FlattenSeq(ss) \in Seq(S)
<1>1. PICK n \in Nat : n = Len(ss)
  OBVIOUS
<1>2. CASE n = 0
  BY <1>1, <1>2, EmptySeq, FlattenNone
<1>3. CASE n # 0
  <2>1. PICK g : Flattens(g, ss, n) /\ FlattenSeq(ss) = g[n]
    BY <1>1, <1>3, FlattenValue
  <2>2. \A i \in 1..n : ss[i] \in Seq(S)
    BY <1>1
  <2> DEFINE T == {k \in Nat : k \in 1..n => g[k] \in Seq(S)}
  <2>3. 0 \in T
    OBVIOUS
  <2>4. ASSUME NEW k \in Nat, k \in T PROVE k + 1 \in T
    <3> SUFFICES ASSUME NEW i \in 1..n, i = k + 1 PROVE g[i] \in Seq(S)
      OBVIOUS
    <3>1. CASE k = 0
      BY <3>1, <2>1, <2>2, <1>3, FlattenFirst
    <3>2. CASE k # 0
      <4>1. i - 1 = k /\ k \in 1..n /\ i # 1
        BY <3>2
      <4>2. g[i] = g[i - 1] \o ss[i]
        BY <4>1, <2>1, FlattenNext
      <4>3. g[i - 1] \in Seq(S) /\ ss[i] \in Seq(S)
        BY <4>1, <2>2, <2>4
      <4>4. QED
        BY <4>2, <4>3
    <3>3. QED
      BY <3>1, <3>2
  <2>5. Nat \subseteq T
    BY <2>3, <2>4, NatInd
  <2>6. QED
    BY <2>1, <2>5, <1>3
<1>4. QED
  BY <1>2, <1>3

-----------------------------------------------------------------------------
(* Cutting.                                                                 *)

\* A sequence starts with what something is appended to.
LEMMA PrefixOfConcat ==
    ASSUME NEW S, NEW s \in Seq(S), NEW t \in Seq(S)
    PROVE  IsPrefix(s, s \o t)
<1>1. Len(s \o t) = Len(s) + Len(t) /\ Len(s) \in Nat /\ Len(t) \in Nat
  OBVIOUS
<1>2. SubSeq(s \o t, 1, Len(s)) = SubSeq(s, 1, Len(s))
  OBVIOUS
<1>3. QED
  BY <1>1, <1>2 DEF IsPrefix

\* Its first n elements and then the rest are the whole.
LEMMA CutInTwo ==
    ASSUME NEW S, NEW s \in Seq(S), NEW n \in 0..Len(s)
    PROVE  /\ SubSeq(s, 1, n) \in Seq(S) /\ SubSeq(s, n + 1, Len(s)) \in Seq(S)
           /\ Len(SubSeq(s, 1, n)) = n /\ Len(SubSeq(s, n + 1, Len(s))) = Len(s) - n
           /\ SubSeq(s, 1, n) \o SubSeq(s, n + 1, Len(s)) = s
<1>1. /\ SubSeq(s, 1, n) \in Seq(S) /\ SubSeq(s, n + 1, Len(s)) \in Seq(S)
      /\ Len(SubSeq(s, 1, n)) = n /\ Len(SubSeq(s, n + 1, Len(s))) = Len(s) - n
  OBVIOUS
<1>2. SubSeq(s, 1, n) \o SubSeq(s, n + 1, Len(s)) = SubSeq(s, 1, Len(s))
  <2>1. /\ 1 \in 1..Len(s) + 1 /\ n \in 1 - 1..Len(s) /\ Len(s) \in n..Len(s)
    OBVIOUS
  <2>2. QED
    BY <2>1, ConcatAdjacentSubSeq
<1>3. SubSeq(s, 1, Len(s)) = s
  BY SubSeqFull
<1>4. QED
  BY <1>1, <1>2, <1>3

-----------------------------------------------------------------------------
(* Runs of naturals, which the models number bytes and bits with.           *)

\* The n naturals that follow a.
Run(a, n) == [i \in 1..n |-> a + i]

\* A run is a sequence of naturals of the length asked for.
LEMMA RunType ==
    ASSUME NEW a \in Nat, NEW n \in Nat
    PROVE  /\ Run(a, n) \in Seq(Nat)
           /\ Len(Run(a, n)) = n
           /\ \A i \in 1..n : Run(a, n)[i] = a + i
<1>1. Run(a, n) \in [1..n -> Nat]
  BY DEF Run
<1>2. Run(a, n) \in Seq(Nat)
  BY <1>1
<1>3. QED
  BY <1>1, <1>2 DEF Run

\* Two runs that follow one another are one run.
LEMMA RunJoin ==
    ASSUME NEW a \in Nat, NEW n \in Nat, NEW m \in Nat
    PROVE  Run(a, n) \o Run(a + n, m) = Run(a, n + m)
<1> DEFINE s == Run(a, n)  t == Run(a + n, m)  u == Run(a, n + m)
<1>1. s \in Seq(Nat) /\ Len(s) = n /\ \A i \in 1..n : s[i] = a + i
  BY RunType
<1>2. a + n \in Nat /\ n + m \in Nat
  OBVIOUS
<1>3. t \in Seq(Nat) /\ Len(t) = m /\ \A i \in 1..m : t[i] = a + n + i
  BY <1>2, RunType
<1>4. u \in Seq(Nat) /\ Len(u) = n + m /\ \A i \in 1..(n + m) : u[i] = a + i
  BY <1>2, RunType
<1> HIDE DEF s, t, u
<1>5. /\ s \o t \in Seq(Nat) /\ Len(s \o t) = n + m
      /\ \A i \in 1..(n + m) : (s \o t)[i] = IF i <= n THEN s[i] ELSE t[i - n]
  BY <1>1, <1>3, ConcatProperties
<1>6. ASSUME NEW i \in 1..(n + m)
      PROVE  (s \o t)[i] = u[i]
  <2>1. CASE i <= n
    BY <2>1, <1>1, <1>4, <1>5
  <2>2. CASE i > n
    <3>1. i - n \in 1..m
      BY <2>2
    <3>2. (s \o t)[i] = t[i - n]
      BY <2>2, <1>5
    <3>3. t[i - n] = a + n + (i - n)
      BY <3>1, <1>3
    <3>4. u[i] = a + i
      BY <1>4
    <3>5. a + n + (i - n) = a + i
      OBVIOUS
    <3>6. QED
      BY <3>2, <3>3, <3>4, <3>5
  <2>3. i <= n \/ i > n
    OBVIOUS
  <2>4. QED
    BY <2>1, <2>2, <2>3, Zenon
<1>7. s \o t = u
  BY <1>4, <1>5, <1>6, SeqEqual
<1>8. QED
  BY <1>7 DEF s, t, u

\* The same under a name, which a proof opens where it needs the concatenation.
RunsJoin(a, n, m) == Run(a, n) \o Run(a + n, m) = Run(a, n + m)

LEMMA RunsMeet == ASSUME NEW a \in Nat, NEW n \in Nat, NEW m \in Nat PROVE RunsJoin(a, n, m)
BY RunJoin DEF RunsJoin

\* The part of a run between two places is a run.
LEMMA RunCut ==
    ASSUME NEW a \in Nat, NEW n \in Nat, NEW k \in 0..n, NEW l \in k..n
    PROVE  SubSeq(Run(a, n), k + 1, l) = Run(a + k, l - k)
<1> DEFINE s == Run(a, n)  u == Run(a + k, l - k)  c == SubSeq(s, k + 1, l)
<1>1. s \in Seq(Nat) /\ Len(s) = n /\ \A i \in 1..n : s[i] = a + i
  BY RunType
<1>2. a + k \in Nat /\ l - k \in Nat /\ k + 1 \in Int /\ l \in Int
  OBVIOUS
<1>3. u \in Seq(Nat) /\ Len(u) = l - k /\ \A i \in 1..(l - k) : u[i] = a + k + i
  BY <1>2, RunType
<1> HIDE DEF s, u
<1>4. \A i \in (k + 1)..l : s[i] \in Nat
  <2>1. TAKE i \in (k + 1)..l
  <2>2. i \in 1..n
    OBVIOUS
  <2>3. QED
    BY <2>2, <1>1
<1>5. /\ c \in Seq(Nat)
      /\ Len(c) = IF k + 1 <= l THEN l - (k + 1) + 1 ELSE 0
      /\ \A i \in 1..(l - (k + 1) + 1) : c[i] = s[k + 1 + i - 1]
  BY <1>2, <1>4, SubSeqProperties
<1> HIDE DEF c
<1>6. Len(c) = l - k
  BY <1>5
<1>7. ASSUME NEW i \in 1..(l - k)
      PROVE  c[i] = u[i]
  <2>1. k + 1 + i - 1 = k + i /\ k + i \in 1..n /\ i \in 1..(l - (k + 1) + 1)
    OBVIOUS
  <2>2. c[i] = s[k + i]
    BY <2>1, <1>5
  <2>3. QED
    BY <2>1, <2>2, <1>1, <1>3
<1>8. c = u
  BY <1>3, <1>5, <1>6, <1>7, SeqEqual
<1>9. QED
  BY <1>8 DEF s, u, c

\* A run of no numbers is the empty sequence.
LEMMA RunNone == ASSUME NEW a \in Nat PROVE Run(a, 0) = <<>>
BY RunType, EmptySeq

-----------------------------------------------------------------------------
(* Division.                                                                *)

\* Division gives the multiples that fit.
LEMMA Division ==
    ASSUME NEW x \in Nat, NEW d \in Nat, d > 0
    PROVE  /\ x \div d \in Nat /\ x % d \in Nat
           /\ (x \div d) * d <= x /\ x < (x \div d) * d + d
           /\ x = (x \div d) * d + (x % d) /\ x % d < d
OBVIOUS

\* And only those do.
LEMMA Quotient ==
    ASSUME NEW x \in Nat, NEW d \in Nat, d > 0, NEW q \in Nat, q * d <= x, x < q * d + d
    PROVE  x \div d = q
OBVIOUS

\* A larger number has at least as many.
LEMMA DivisionGrows ==
    ASSUME NEW x \in Nat, NEW y \in Nat, x <= y, NEW d \in Nat, d > 0
    PROVE  x \div d <= y \div d
OBVIOUS

\* Quotient and remainder are numbers, and make up what was divided.
LEMMA Divided ==
    ASSUME NEW x \in Int, NEW d \in Nat, d > 0
    PROVE  /\ x \div d \in Int /\ x % d \in Nat /\ x % d < d
           /\ x = (x \div d) * d + (x % d)
OBVIOUS

\* And they are the only ones that do.
LEMMA DividedOnce ==
    ASSUME NEW d \in Nat, d > 0, NEW q \in Int, NEW m \in Nat, m < d, NEW x \in Int, x = q * d + m
    PROVE  x \div d = q /\ x % d = m
<1>1. x \div d = q
  OBVIOUS
<1>2. x = (x \div d) * d + (x % d) /\ x % d \in Nat
  BY Divided
<1>3. PICK y \in Nat : y = x % d
  BY <1>2
<1>4. q * d \in Int
  OBVIOUS
<1>5. x = q * d + y
  BY <1>1, <1>2, <1>3
<1>6. y = m
  BY <1>4, <1>5
<1>7. QED
  BY <1>1, <1>3, <1>6

\* Two shifts to the right are one.
LEMMA DivideTwice ==
    ASSUME NEW x \in Int, NEW p \in Nat, p > 0, NEW q \in Nat, q > 0
    PROVE  p * q \in Nat /\ p * q > 0 /\ (x \div p) \div q = x \div (p * q)
<1>1. PICK a \in Int, r1 \in Nat : a = x \div p /\ r1 < p /\ x = a * p + r1
  BY Divided
<1>2. PICK b \in Int, s1 \in Nat : b = a \div q /\ s1 < q /\ a = b * q + s1
  BY Divided
<1>3. PICK d \in Nat : d = p * q /\ d > 0
  OBVIOUS
<1>4. PICK m \in Nat : m = s1 * p + r1
  OBVIOUS
<1>5. m < d
  <2>1. s1 + 1 <= q
    BY <1>2
  <2>2. (s1 + 1) * p <= q * p
    BY <2>1
  <2>3. (s1 + 1) * p = s1 * p + p
    OBVIOUS
  <2>4. q * p = d
    BY <1>3
  <2>5. PICK u \in Nat : u = s1 * p
    OBVIOUS
  <2>6. QED
    BY <1>1, <1>4, <2>2, <2>3, <2>4, <2>5
<1>6. x = b * d + m
  <2>1. a * p = (b * q + s1) * p
    BY <1>2
  <2>2. (b * q + s1) * p = b * (p * q) + s1 * p
    OBVIOUS
  <2>3. QED
    BY <1>1, <1>3, <1>4, <2>1, <2>2
<1>7. x \div d = b
  BY <1>3, <1>5, <1>6, DividedOnce
<1>8. QED
  BY <1>1, <1>2, <1>3, <1>7

\* Cutting off high bits and then low ones is the same as the other way round.
LEMMA CutAndShift ==
    ASSUME NEW x \in Int, NEW p \in Nat, p > 0, NEW q \in Nat, q > 0
    PROVE  (x % (p * q)) \div p = (x \div p) % q
<1>1. PICK a \in Int, r1 \in Nat : a = x \div p /\ r1 < p /\ x = a * p + r1
  BY Divided
<1>2. PICK b \in Int, s1 \in Nat : b = a \div q /\ s1 = a % q /\ s1 < q /\ a = b * q + s1
  BY Divided
<1>3. PICK d \in Nat : d = p * q /\ d > 0
  OBVIOUS
<1>4. PICK m \in Nat : m = s1 * p + r1
  OBVIOUS
<1>5. m < d
  <2>1. s1 + 1 <= q
    BY <1>2
  <2>2. (s1 + 1) * p <= q * p
    BY <2>1
  <2>3. (s1 + 1) * p = s1 * p + p
    OBVIOUS
  <2>4. q * p = d
    BY <1>3
  <2>5. PICK u \in Nat : u = s1 * p
    OBVIOUS
  <2>6. QED
    BY <1>1, <1>4, <2>2, <2>3, <2>4, <2>5
<1>6. x = b * d + m
  <2>1. a * p = (b * q + s1) * p
    BY <1>2
  <2>2. (b * q + s1) * p = b * (p * q) + s1 * p
    OBVIOUS
  <2>3. QED
    BY <1>1, <1>3, <1>4, <2>1, <2>2
<1>7. x % d = m
  BY <1>3, <1>5, <1>6, DividedOnce
<1>8. m \div p = s1
  BY <1>1, <1>4, DividedOnce
<1>9. QED
  BY <1>1, <1>2, <1>3, <1>7, <1>8

\* Cutting to more bits and then to fewer is cutting to fewer.
LEMMA CutTwice ==
    ASSUME NEW x \in Int, NEW d \in Nat, d > 0, NEW q \in Nat, q > 0
    PROVE  (x % (d * q)) % d = x % d
<1>1. PICK e \in Nat : e = d * q /\ e > 0
  OBVIOUS
<1>2. PICK a \in Int, m \in Nat : m = x % e /\ x = a * e + m
  BY <1>1, Divided
<1>3. PICK b \in Int, s1 \in Nat : s1 = m % d /\ s1 < d /\ m = b * d + s1
  BY Divided
<1>4. x = (a * q + b) * d + s1
  <2>1. a * (d * q) + (b * d + s1) = (a * q + b) * d + s1
    OBVIOUS
  <2>2. QED
    BY <1>1, <1>2, <1>3, <2>1
<1>5. a * q + b \in Int
  OBVIOUS
<1>6. x % d = s1
  BY <1>3, <1>4, <1>5, DividedOnce
<1>7. QED
  BY <1>1, <1>2, <1>3, <1>6
=============================================================================
